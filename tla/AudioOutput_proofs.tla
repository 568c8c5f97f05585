-------------------------- MODULE AudioOutput_proofs --------------------------
(***************************************************************************)
(* The configuration tool. For every set of drivers, of names, sizes and   *)
(* channels the user may enter, and any number of edits and operations:    *)
(* what the page shows as inspected and what it saves is what the driver   *)
(* answered, although the driver runs in a process that may print, crash   *)
(* or hang, and no process is left behind.                                 *)
(* The outputs. For any stages of failure and any number of overlapping    *)
(* driver calls: the observer of the WASAPI output is told of the start    *)
(* and of the first failure in this order, a voice meets a released clock  *)
(* only when the output has failed, and a driver's call finds the ASIO     *)
(* session alone.                                                          *)
(* For every ring capacity and number of read attempts, an answer of the   *)
(* exact clock is the one the list of published anchors gives, although    *)
(* the reader takes it from a ring that is being overwritten. The render   *)
(* loop only does to the clock what the clock allows, so the same holds of *)
(* the running output. For every packet size, rate and endpoint: the clock *)
(* refuses an anchor of the running loop only when the endpoint's host     *)
(* time went back, or its position within one output frame; and the loop   *)
(* gives up for a chronic gap exactly when the positions of its gaps call  *)
(* for it.                                                                 *)
(***************************************************************************)
EXTENDS AudioBackend, WasapiRenderLoop, AudioEditor, FiniteSetTheorems,
        SequenceTheorems, WellFoundedInduction, TLAPS

-----------------------------------------------------------------------------
(* The configuration tool: first the messages, where a request and a       *)
(* report are read as they were written and nothing else is read as a      *)
(* report, then the process and the side of the tool, then the page.       *)
LEMMA FromFirst ==
    ASSUME NEW N \in Nat, NEW P, 1 \in P,
           \A n \in 1 .. N - 1 : n \in P => n + 1 \in P
    PROVE  \A n \in 1 .. N : n \in P
  <1> DEFINE bad == {n \in 1 .. N : n \notin P}
  <1>1. SUFFICES ASSUME bad # {} PROVE FALSE
    OBVIOUS
  <1>2. IsWellFoundedOn(OpToRel(<, Nat), Nat)
    BY NatLessThanWellFounded
  <1>3. bad \subseteq Nat
    OBVIOUS
  <1> HIDE DEF bad
  <1>4. PICK x \in bad : \A y \in bad : ~(<<y, x>> \in OpToRel(<, Nat))
    BY <1>1, <1>2, <1>3, WFMin, Zenon
  <1>5. \A y \in bad : ~(y < x)
    BY <1>3, <1>4 DEF OpToRel
  <1> USE DEF bad
  <1>6. x \in 1 .. N /\ x \notin P /\ x # 1
    OBVIOUS
  <1>7. x - 1 \in 1 .. N - 1 /\ x - 1 < x /\ (x - 1) + 1 = x /\ x - 1 \in 1 .. N
    BY <1>6
  <1>8. x - 1 \in P
    BY <1>5, <1>7
  <1>9. QED  BY <1>6, <1>7, <1>8

LEMMA Concatenated ==
    ASSUME NEW V, NEW s \in Seq(V), NEW t \in Seq(V)
    PROVE  /\ s \o t \in Seq(V) /\ Len(s \o t) = Len(s) + Len(t)
           /\ \A i \in 1 .. Len(s) : (s \o t)[i] = s[i]
           /\ \A i \in 1 .. Len(t) : (s \o t)[Len(s) + i] = t[i]
  OBVIOUS

(* A sequence after a head of a known length.                              *)
Follows(all, V, head, n, rest) ==
    /\ all \in Seq(V) /\ Len(all) = n + Len(rest)
    /\ \A i \in 1 .. n : all[i] = head[i]
    /\ \A i \in 1 .. Len(rest) : all[n + i] = rest[i]

LEMMA AfterHead ==
    ASSUME NEW V, NEW head \in Seq(V), NEW rest \in Seq(V),
           NEW n \in Nat, Len(head) = n
    PROVE  Follows(head \o rest, V, head, n, rest)
  BY DEF Follows

(* Blocks of three, one after the other.                                   *)
Triples(n, V) == {b \in [1 .. n -> Seq(V)] : \A i \in 1 .. n : Len(b[i]) = 3}
Unrolled(blocks, n) ==
    [j \in 1 .. 3 * n |-> blocks[((j - 1) \div 3) + 1][((j - 1) % 3) + 1]]

LEMMA InBlock ==
    ASSUME NEW n \in Nat, NEW j \in 1 .. 3 * n
    PROVE  ((j - 1) \div 3) + 1 \in 1 .. n /\ ((j - 1) % 3) + 1 \in 1 .. 3
  OBVIOUS

LEMMA BlockAt ==
    ASSUME NEW i \in Nat, i # 0, NEW k \in 1 .. 3
    PROVE  LET j == 3 * (i - 1) + k
           IN  j \in 1 .. 3 * i /\ ((j - 1) \div 3) + 1 = i /\ ((j - 1) % 3) + 1 = k
  OBVIOUS

LEMMA UnrolledTyped ==
    ASSUME NEW n \in Nat, NEW V, NEW blocks \in Triples(n, V)
    PROVE  Unrolled(blocks, n) \in Seq(V) /\ Len(Unrolled(blocks, n)) = 3 * n
  <1>1. ASSUME NEW i \in 1 .. n, NEW k \in 1 .. 3  PROVE blocks[i][k] \in V
    BY DEF Triples
  <1>2. ASSUME NEW j \in 1 .. 3 * n
        PROVE  blocks[((j - 1) \div 3) + 1][((j - 1) % 3) + 1] \in V
    <2>1. ((j - 1) \div 3) + 1 \in 1 .. n /\ ((j - 1) % 3) + 1 \in 1 .. 3
      BY InBlock
    <2>2. QED  BY <1>1, <2>1
  <1>3. Unrolled(blocks, n) \in [1 .. 3 * n -> V]
    BY <1>2 DEF Unrolled
  <1>4. QED  BY <1>3

(* One block more.                                                         *)
LEMMA UnrolledNext ==
    ASSUME NEW n \in Nat, NEW V, NEW blocks \in Triples(n, V),
           NEW i \in 1 .. n
    PROVE  Unrolled(blocks, i) =
             IF i = 1 THEN blocks[i] ELSE Unrolled(blocks, i - 1) \o blocks[i]
  <1>1. ASSUME NEW m \in 1 .. n
        PROVE  blocks \in [1 .. n -> Seq(V)] /\ Len(blocks[m]) = 3 /\ blocks[m] \in Seq(V)
    BY DEF Triples
  <1>2. CASE i = 1
    <2>1. \A j \in 1 .. 3 : ((j - 1) \div 3) + 1 = 1 /\ ((j - 1) % 3) + 1 = j
      OBVIOUS
    <2>2. Unrolled(blocks, 1) = [j \in 1 .. 3 |-> blocks[1][j]]
      BY <2>1 DEF Unrolled
    <2>3. PICK b \in Seq(V), k \in Nat : b = blocks[1] /\ k = 3 /\ Len(b) = k
      BY <1>1, <1>2
    <2>4. b = [j \in 1 .. k |-> b[j]]
      BY <2>3
    <2>5. QED  BY <1>2, <2>2, <2>3, <2>4
  <1>3. CASE i # 1
    <2>1. PICK m \in Nat : m = i - 1 /\ m # 0 /\ m \in 1 .. n
      BY <1>3
    <2>2. [x \in 1 .. m |-> blocks[x]] \in Triples(m, V)
      BY <1>1, <2>1 DEF Triples
    <2>3. Unrolled(blocks, m) \in Seq(V) /\ Len(Unrolled(blocks, m)) = 3 * m
      <3> DEFINE part == [x \in 1 .. m |-> blocks[x]]
      <3>1. \A j \in 1 .. 3 * m : ((j - 1) \div 3) + 1 \in 1 .. m
        BY InBlock, <2>1
      <3>2. Unrolled(blocks, m) = Unrolled(part, m)
        BY <3>1 DEF Unrolled
      <3>3. QED  BY <2>2, <3>2, UnrolledTyped
    <2> DEFINE left == Unrolled(blocks, i)
               right == Unrolled(blocks, m) \o blocks[i]
    <2>4. right \in Seq(V) /\ Len(right) = 3 * i
      <3>1. Unrolled(blocks, m) \in Seq(V) /\ blocks[i] \in Seq(V)
        BY <1>1, <2>3
      <3>2. right \in Seq(V) /\ Len(right) = Len(Unrolled(blocks, m)) + Len(blocks[i])
        BY <3>1, Concatenated
      <3>3. Len(blocks[i]) = 3 /\ Len(Unrolled(blocks, m)) = 3 * m
        BY <1>1, <2>3
      <3>4. QED  BY <3>2, <3>3, <2>1
    <2>5. left = [j \in 1 .. 3 * i |-> blocks[((j - 1) \div 3) + 1][((j - 1) % 3) + 1]]
      BY DEF Unrolled
    <2>6. ASSUME NEW j \in 1 .. 3 * i
          PROVE  right[j] = blocks[((j - 1) \div 3) + 1][((j - 1) % 3) + 1]
      <3>1. CASE j <= 3 * m
        <4>1. j \in 1 .. 3 * m
          BY <3>1, <2>1
        <4>2. right[j] = Unrolled(blocks, m)[j]
          BY <1>1, <2>3, <4>1
        <4>3. QED  BY <4>1, <4>2 DEF Unrolled
      <3>2. CASE ~(j <= 3 * m)
        <4>1. PICK k \in 1 .. 3 : k = j - 3 * m
          BY <3>2, <2>1
        <4>2. ((j - 1) \div 3) + 1 = i /\ ((j - 1) % 3) + 1 = k
          BY <4>1, <2>1
        <4>3. right[j] = blocks[i][k]
          <5>1. Unrolled(blocks, m) \in Seq(V) /\ blocks[i] \in Seq(V)
            BY <1>1, <2>3
          <5>2. Len(blocks[i]) = 3 /\ Len(Unrolled(blocks, m)) = 3 * m
            BY <1>1, <2>3
          <5>3. right[Len(Unrolled(blocks, m)) + k] = blocks[i][k]
            BY <5>1, <5>2, <4>1, Concatenated
          <5>4. 3 * m + k = j
            BY <4>1
          <5>5. QED  BY <5>2, <5>3, <5>4
        <4>4. QED  BY <4>2, <4>3
      <3>3. QED  BY <3>1, <3>2
    <2>7. right = [j \in 1 .. 3 * i |-> right[j]]
      BY <2>4
    <2>8. left = right
      BY <2>5, <2>6, <2>7
    <2>9. QED  BY <2>8, <2>1, <1>3
  <1>4. QED  BY <1>2, <1>3

LEMMA FlattenedTriples ==
    ASSUME NEW n \in Nat, NEW V, NEW blocks \in Triples(n, V)
    PROVE  Ext!FlattenSeq(blocks) = Unrolled(blocks, n)
  <1>1. blocks \in Seq(Seq(V)) /\ Len(blocks) = n /\ blocks \in [1 .. n -> Seq(V)]
    BY DEF Triples
  <1>2. CASE n = 0
    <2>1. Ext!FlattenSeq(blocks) = blocks
      BY <1>1, <1>2 DEF Ext!FlattenSeq
    <2>2. Unrolled(blocks, n) \in Seq(V) /\ Len(Unrolled(blocks, n)) = 0
      BY <1>2, UnrolledTyped
    <2>3. QED  BY <1>1, <1>2, <2>1, <2>2
  <1>3. CASE n # 0
    <2> DEFINE Solves(f) == f = [i \in 1 .. n |-> IF i = 1 THEN blocks[i]
                                                  ELSE f[i - 1] \o blocks[i]]
               flatten == CHOOSE f : Solves(f)
               g == [i \in 1 .. n |-> Unrolled(blocks, i)]
    <2>1. Ext!FlattenSeq(blocks) = flatten[n]
      BY <1>1, <1>3 DEF Ext!FlattenSeq
    <2>2. Solves(g)
      <3>1. ASSUME NEW i \in 1 .. n
            PROVE  g[i] = IF i = 1 THEN blocks[i] ELSE g[i - 1] \o blocks[i]
        <4>1. i # 1 => i - 1 \in 1 .. n
          OBVIOUS
        <4>2. g[i] = Unrolled(blocks, i) /\ (i # 1 => g[i - 1] = Unrolled(blocks, i - 1))
          BY <4>1
        <4>3. QED  BY <4>2, UnrolledNext
      <3>2. QED  BY <3>1
    <2>3. Solves(flatten)
      <3> HIDE DEF Solves, g
      <3>1. QED  BY <2>2
    <2> HIDE DEF flatten
    <2> DEFINE P == {i \in 1 .. n : flatten[i] = g[i]}
    <2>4. 1 \in P
      <3>1. 1 \in 1 .. n
        BY <1>3
      <3>2. flatten[1] = blocks[1] /\ g[1] = blocks[1]
        BY <2>2, <2>3, <3>1
      <3>3. QED  BY <3>1, <3>2
    <2>5. ASSUME NEW i \in 1 .. n - 1, i \in P  PROVE i + 1 \in P
      <3>1. i + 1 \in 1 .. n /\ i + 1 # 1 /\ (i + 1) - 1 = i
        OBVIOUS
      <3>2. flatten[i + 1] = flatten[i] \o blocks[i + 1]
        BY <2>3, <3>1
      <3>3. g[i + 1] = g[i] \o blocks[i + 1]
        BY <2>2, <3>1
      <3>4. flatten[i] = g[i]
        BY <2>5
      <3>5. QED  BY <3>1, <3>2, <3>3, <3>4
    <2> HIDE DEF P
    <2>6. \A i \in 1 .. n : i \in P
      BY <2>4, <2>5, FromFirst, Zenon
    <2>7. flatten[n] = g[n]
      BY <2>6, <1>3 DEF P
    <2>8. QED  BY <2>1, <2>7, <1>3
  <1>4. QED  BY <1>2, <1>3

(* What is where in the joined blocks.                                     *)
LEMMA TripleFields ==
    ASSUME NEW n \in Nat, NEW V, NEW blocks \in Triples(n, V)
    PROVE  LET all == Ext!FlattenSeq(blocks)
           IN  /\ all \in Seq(V) /\ Len(all) = 3 * n
               /\ \A i \in 1 .. n, k \in 1 .. 3 : all[3 * (i - 1) + k] = blocks[i][k]
  <1>1. Ext!FlattenSeq(blocks) = Unrolled(blocks, n)
    BY FlattenedTriples
  <1>2. ASSUME NEW i \in 1 .. n, NEW k \in 1 .. 3
        PROVE  Unrolled(blocks, n)[3 * (i - 1) + k] = blocks[i][k]
    <2>1. PICK j \in Nat : j = 3 * (i - 1) + k
      OBVIOUS
    <2>2. j \in 1 .. 3 * n /\ ((j - 1) \div 3) + 1 = i /\ ((j - 1) % 3) + 1 = k
      BY <2>1
    <2>3. Unrolled(blocks, n)[j] = blocks[((j - 1) \div 3) + 1][((j - 1) % 3) + 1]
      BY <2>2 DEF Unrolled
    <2>4. QED  BY <2>1, <2>2, <2>3
  <1>3. QED  BY <1>1, <1>2, UnrolledTyped

-----------------------------------------------------------------------------
(* AsioProtocol.                                                           *)
Values == Nat \union DOMAIN Installed \union Names \union {""} \union Frames
          \union Bases \union PreferredFrames \union Rates \union SupportedRates
          \union SampleTypes
FieldSet == {"u16", "u32", "text", "name", "type", "noise"} \X Values

LEMMA FieldsTyped ==
    /\ \A x \in Values : U16(x) \in FieldSet /\ U32(x) \in FieldSet /\ Text(x) \in FieldSet
                         /\ Name(x) \in FieldSet /\ SampleType(x) \in FieldSet
    /\ Noise \in FieldSet
    /\ Nat \subseteq Values /\ SampleTypes \subseteq Values
  BY DEF Values, FieldSet, U16, U32, Text, Name, SampleType, Noise

(* What an envelope says.                                                  *)
LEMMA Envelope ==
    ASSUME NEW kind \in DOMAIN MessageKinds, NEW content \in Seq(FieldSet),
           Frame(kind, content) # NoMessage
    PROVE  LET message == Frame(kind, content)
           IN  /\ message \in Seq(FieldSet) /\ Len(message) = 4 + Len(content)
               /\ message[1] = U32(kAsioProbeMagic) /\ message[4] = U32(Len(content))
               /\ HasEnvelope(message) /\ Value(message, 3) = MessageKinds[kind]
               /\ Payload(message) = content
  <1> DEFINE head == <<U32(kAsioProbeMagic), U16(kAsioProbeProtocolVersion),
                       U16(MessageKinds[kind]), U32(Len(content))>>
             message == head \o content
  <1>1. Frame(kind, content) = message
    BY DEF Frame
  <1>2. MessageKinds[kind] \in Nat /\ Len(content) \in Nat
        /\ kAsioProbeMagic \in Nat /\ kAsioProbeProtocolVersion \in Nat
    BY DEF MessageKinds, kAsioProbeMagic, kAsioProbeProtocolVersion
  <1>3. /\ U32(kAsioProbeMagic) \in FieldSet /\ U16(kAsioProbeProtocolVersion) \in FieldSet
        /\ U16(MessageKinds[kind]) \in FieldSet /\ U32(Len(content)) \in FieldSet
    BY <1>2, FieldsTyped
  <1>4. /\ head \in Seq(FieldSet) /\ Len(head) = 4
        /\ head[1] = U32(kAsioProbeMagic) /\ head[2] = U16(kAsioProbeProtocolVersion)
        /\ head[3] = U16(MessageKinds[kind]) /\ head[4] = U32(Len(content))
    BY <1>3
  <1> HIDE DEF head
  <1>5. /\ message \in Seq(FieldSet) /\ Len(message) = 4 + Len(content)
        /\ \A i \in 1 .. 4 : message[i] = head[i]
        /\ \A i \in 1 .. Len(content) : message[4 + i] = content[i]
    <2>1. PICK n \in Nat : n = 4
      OBVIOUS
    <2>2. head \in Seq(FieldSet) /\ Len(head) = n
      BY <1>4, <2>1
    <2>3. /\ message \in Seq(FieldSet) /\ Len(message) = n + Len(content)
          /\ \A i \in 1 .. n : message[i] = head[i]
          /\ \A i \in 1 .. Len(content) : message[n + i] = content[i]
      <3>1. Follows(message, FieldSet, head, n, content)
        BY <2>2, AfterHead, Zenon
      <3> HIDE DEF message
      <3>2. QED  BY <3>1 DEF Follows
    <2> HIDE DEF message
    <2>4. QED  BY <2>1, <2>3
  <1> HIDE DEF message
  <1>6. /\ message[1] = U32(kAsioProbeMagic) /\ message[2] = U16(kAsioProbeProtocolVersion)
        /\ message[3] = U16(MessageKinds[kind]) /\ message[4] = U32(Len(content))
    BY <1>4, <1>5
  <1>7. Types(SubSeq(message, 3, 4)) = <<"u16", "u32">>
    <2>1. /\ SubSeq(message, 3, 4) \in Seq(FieldSet) /\ Len(SubSeq(message, 3, 4)) = 2
          /\ SubSeq(message, 3, 4)[1] = message[3] /\ SubSeq(message, 3, 4)[2] = message[4]
      BY <1>2, <1>5
    <2>2. message[3][1] = "u16" /\ message[4][1] = "u32"
      BY <1>6 DEF U16, U32
    <2>3. DOMAIN SubSeq(message, 3, 4) = 1 .. 2
      BY <2>1
    <2>4. Types(SubSeq(message, 3, 4)) = [i \in 1 .. 2 |-> SubSeq(message, 3, 4)[i][1]]
      BY <2>3 DEF Types
    <2>5. [i \in 1 .. 2 |-> SubSeq(message, 3, 4)[i][1]] = <<"u16", "u32">>
      BY <2>1, <2>2
    <2>6. QED  BY <2>4, <2>5
  <1>8. Value(message, 3) = MessageKinds[kind] /\ Value(message, 4) = Len(content)
    BY <1>6 DEF Value, U16, U32
  <1>9. HasEnvelope(message)
    BY <1>2, <1>5, <1>6, <1>7, <1>8 DEF HasEnvelope, kAsioProbeEnvelopeFields
  <1>10. Payload(message) = content
    <2>1. Payload(message) = SubSeq(message, 5, Len(message))
      BY DEF Payload, kAsioProbeEnvelopeFields
    <2>2. SubSeq(message, 5, Len(message)) = [i \in 1 .. Len(content) |-> message[4 + i]]
      BY <1>5
    <2>3. content = [i \in 1 .. Len(content) |-> content[i]]
      OBVIOUS
    <2>4. QED  BY <1>5, <2>1, <2>2, <2>3
  <1>11. QED  BY <1>1, <1>5, <1>6, <1>8, <1>9, <1>10

(* What is cut short, or comes after something else, has none.             *)
LEMMA CutMessage ==
    ASSUME NEW kind \in DOMAIN MessageKinds, NEW content \in Seq(FieldSet),
           Frame(kind, content) # NoMessage
    PROVE  LET message == Frame(kind, content)
               cut == SubSeq(message, 1, Len(message) - 1)
           IN  cut \in Seq(FieldSet) /\ cut # <<>> /\ ~HasEnvelope(cut)
  <1>1. PICK m : m = Frame(kind, content)
    OBVIOUS
  <1>2. m \in Seq(FieldSet) /\ Len(m) = 4 + Len(content) /\ m[4] = U32(Len(content))
    BY <1>1, Envelope
  <1>3. PICK cut : cut = SubSeq(m, 1, Len(m) - 1)
    OBVIOUS
  <1>4. /\ cut \in Seq(FieldSet) /\ Len(cut) = 3 + Len(content)
        /\ 4 <= Len(cut) => cut[4] = m[4]
    BY <1>2, <1>3
  <1>5. 4 <= Len(cut) => Value(cut, 4) = Len(content)
    BY <1>2, <1>4 DEF Value, U32
  <1>6. ~HasEnvelope(cut) /\ cut # <<>>
    BY <1>4, <1>5 DEF HasEnvelope, kAsioProbeEnvelopeFields
  <1>7. QED  BY <1>1, <1>3, <1>4, <1>6

LEMMA NoisyMessage ==
    ASSUME NEW bytes, bytes[1] = Noise
    PROVE  ~HasEnvelope(bytes)
  BY DEF HasEnvelope, Noise, U32

LEMMA NoEnvelope ==
    ASSUME NEW bytes, ~HasEnvelope(bytes)
    PROVE  DecodeAsioProbeResult(bytes).is # "report"
  BY DEF DecodeAsioProbeResult, IsKind, Malformed

(* A request is read as it was written.                                    *)
Requests == [mode : Modes, driver : Values, frames : Values, base : Values]

LEMMA RequestRead ==
    ASSUME NEW request \in Requests, request.mode # "panel",
           NEW read, read = DecodeAsioProbeRequest(EncodeAsioProbeRequest(request))
    PROVE  read = [is |-> "request", mode |-> request.mode, frames |-> request.frames,
                   base |-> request.base, driver |-> request.driver]
  <1> DEFINE content == <<U32(ModeNumber[request.mode]), U32(request.frames),
                          U32(request.base), Text(request.driver)>>
  <1>1. /\ request.mode \in {"inspect", "validate"}
        /\ request.driver \in Values /\ request.frames \in Values /\ request.base \in Values
    BY DEF Requests, Modes
  <1>2. ModeNumber[request.mode] \in Nat /\ DOMAIN ModeNumber = {"inspect", "validate"}
    BY <1>1 DEF ModeNumber
  <1>3. /\ U32(ModeNumber[request.mode]) \in FieldSet /\ U32(request.frames) \in FieldSet
        /\ U32(request.base) \in FieldSet /\ Text(request.driver) \in FieldSet
    BY <1>1, <1>2, FieldsTyped
  <1>4. /\ content \in Seq(FieldSet) /\ Len(content) = 4
        /\ content[1] = U32(ModeNumber[request.mode]) /\ content[2] = U32(request.frames)
        /\ content[3] = U32(request.base) /\ content[4] = Text(request.driver)
    BY <1>3
  <1>5. EncodeAsioProbeRequest(request) = Frame("request", content)
    BY DEF EncodeAsioProbeRequest
  <1> HIDE DEF content
  <1>6. PICK m : m = Frame("request", content)
    OBVIOUS
  <1>7. m # NoMessage
    <2>1. ~(Len(content) > kAsioProbeMaxFields - kAsioProbeEnvelopeFields)
      BY <1>4 DEF kAsioProbeMaxFields, kAsioProbeEnvelopeFields
    <2>2. Len(m) # 0
      <3> DEFINE head == <<U32(kAsioProbeMagic), U16(kAsioProbeProtocolVersion),
                           U16(MessageKinds["request"]), U32(Len(content))>>
      <3>1. m = head \o content
        BY <1>6, <2>1 DEF Frame
      <3>2. /\ U32(kAsioProbeMagic) \in FieldSet /\ U16(kAsioProbeProtocolVersion) \in FieldSet
            /\ U16(MessageKinds["request"]) \in FieldSet /\ U32(Len(content)) \in FieldSet
        BY <1>4, FieldsTyped DEF kAsioProbeMagic, kAsioProbeProtocolVersion, MessageKinds
      <3>3. head \in Seq(FieldSet) /\ Len(head) = 4
        BY <3>2
      <3> HIDE DEF head
      <3>4. Len(m) = 8
        <4>1. PICK n \in Nat : n = 4
          OBVIOUS
        <4>2. Len(head) = n /\ content \in Seq(FieldSet)
          BY <1>4, <3>3, <4>1
        <4>3. Len(m) = n + Len(content)
          <5>1. Follows(head \o content, FieldSet, head, n, content)
            BY <3>3, <4>2, AfterHead, Zenon
          <5>2. QED  BY <3>1, <5>1 DEF Follows
        <4>4. QED  BY <1>4, <4>1, <4>3
      <3>5. QED  BY <3>4
    <2>3. QED  BY <2>2 DEF NoMessage
  <1>8. "request" \in DOMAIN MessageKinds
    BY DEF MessageKinds
  <1>9. HasEnvelope(m) /\ Value(m, 3) = MessageKinds["request"] /\ Payload(m) = content
    BY <1>4, <1>6, <1>7, <1>8, Envelope
  <1>10. IsKind(m, "request")
    BY <1>9 DEF IsKind
  <1>11. Types(content) = <<"u32", "u32", "u32", "text">>
    <2>1. DOMAIN content = 1 .. 4
      BY <1>4
    <2>2. Types(content) = [i \in 1 .. 4 |-> content[i][1]]
      BY <2>1 DEF Types
    <2>3. /\ content[1][1] = "u32" /\ content[2][1] = "u32" /\ content[3][1] = "u32"
          /\ content[4][1] = "text"
      BY <1>4 DEF U32, Text
    <2>4. [i \in 1 .. 4 |-> content[i][1]] = <<"u32", "u32", "u32", "text">>
      BY <2>3
    <2>5. QED  BY <2>2, <2>4
  <1>12. /\ Value(content, 1) = ModeNumber[request.mode] /\ Value(content, 2) = request.frames
         /\ Value(content, 3) = request.base /\ Value(content, 4) = request.driver
    BY <1>4 DEF Value, U32, Text
  <1>13. \E mode \in DOMAIN ModeNumber : Value(content, 1) = ModeNumber[mode]
    BY <1>1, <1>2, <1>12
  <1>14. (CHOOSE mode \in DOMAIN ModeNumber : Value(content, 1) = ModeNumber[mode]) = request.mode
    <2>1. \A mode \in DOMAIN ModeNumber :
             Value(content, 1) = ModeNumber[mode] <=> mode = request.mode
      BY <1>1, <1>2, <1>12 DEF ModeNumber
    <2>2. QED  BY <2>1, <1>1, <1>2
  <1>15. read = DecodeAsioProbeRequest(m)
    BY <1>5, <1>6
  <1>16. QED
    BY <1>9, <1>10, <1>11, <1>12, <1>13, <1>14, <1>15 DEF DecodeAsioProbeRequest

(* A failure is not read as a report.                                      *)
Failures == {Failure("driver"), Failure("protocol")}

LEMMA FailureRead ==
    ASSUME NEW reported \in Failures, EncodeFailure(reported) # NoMessage
    PROVE  /\ DecodeAsioProbeResult(EncodeFailure(reported)).is # "report"
           /\ \E content \in Seq(FieldSet) : EncodeFailure(reported) = Frame("failure", content)
  <1> DEFINE content == <<U32(StageNumber[reported.stage])>>
  <1>1. StageNumber[reported.stage] \in Nat
    BY DEF Failures, Failure, StageNumber
  <1>2. content \in Seq(FieldSet)
    BY <1>1, FieldsTyped
  <1>3. EncodeFailure(reported) = Frame("failure", content)
    BY DEF EncodeFailure
  <1> HIDE DEF content
  <1>4. PICK m : m = Frame("failure", content)
    OBVIOUS
  <1>5. "failure" \in DOMAIN MessageKinds
    BY DEF MessageKinds
  <1>6. HasEnvelope(m) /\ Value(m, 3) = MessageKinds["failure"]
    BY <1>2, <1>3, <1>4, <1>5, Envelope
  <1>7. IsKind(m, "failure") /\ ~IsKind(m, "capability")
    BY <1>6 DEF IsKind, MessageKinds
  <1>8. DecodeAsioProbeResult(m) = ReadFailure(Payload(m))
    BY <1>7 DEF DecodeAsioProbeResult
  <1>9. DecodeAsioProbeResult(m).is # "report"
    BY <1>8 DEF ReadFailure, Failure, Malformed
  <1>10. QED  BY <1>2, <1>3, <1>4, <1>9

(* A head, the blocks, and a tail.                                         *)
LaidOut(all, V, n, blocks, head, h, tail, t) ==
    /\ all \in Seq(V) /\ Len(all) = h + 3 * n + t
    /\ \A i \in 1 .. h : all[i] = head[i]
    /\ \A i \in 1 .. n, k \in 1 .. 3 : all[h + (3 * (i - 1) + k)] = blocks[i][k]
    /\ \A i \in 1 .. t : all[(h + 3 * n) + i] = tail[i]

LEMMA Layout ==
    ASSUME NEW V, NEW n \in Nat, NEW blocks \in Triples(n, V),
           NEW head \in Seq(V), NEW h \in Nat, Len(head) = h,
           NEW tail \in Seq(V), NEW t \in Nat, Len(tail) = t
    PROVE  LaidOut(head \o Ext!FlattenSeq(blocks) \o tail, V, n, blocks, head, h, tail, t)
  <1>1. PICK flat \in Seq(V) : flat = Ext!FlattenSeq(blocks)
    BY TripleFields
  <1>2. PICK m \in Nat : m = 3 * n
    OBVIOUS
  <1>3. /\ Len(flat) = m
        /\ \A i \in 1 .. n, k \in 1 .. 3 : flat[3 * (i - 1) + k] = blocks[i][k]
    <2>1. /\ Len(Ext!FlattenSeq(blocks)) = 3 * n
          /\ \A i \in 1 .. n, k \in 1 .. 3 :
                Ext!FlattenSeq(blocks)[3 * (i - 1) + k] = blocks[i][k]
      BY TripleFields
    <2>2. QED  BY <1>1, <1>2, <2>1
  <1>4. PICK front \in Seq(V) : front = head \o flat
    <2>1. head \o flat \in Seq(V)
      OBVIOUS
    <2>2. QED  BY <2>1
  <1>5. /\ Len(front) = h + Len(flat)
        /\ \A i \in 1 .. h : front[i] = head[i]
        /\ \A i \in 1 .. Len(flat) : front[h + i] = flat[i]
    <2>1. Follows(head \o flat, V, head, h, flat)
      BY AfterHead, Zenon
    <2>2. QED  BY <1>4, <2>1 DEF Follows
  <1>6. PICK f \in Nat : f = h + m
    OBVIOUS
  <1>7. Len(front) = f
    BY <1>3, <1>5, <1>6
  <1>8. PICK all : all = front \o tail
    OBVIOUS
  <1>9. /\ all \in Seq(V) /\ Len(all) = f + Len(tail)
        /\ \A i \in 1 .. f : all[i] = front[i]
        /\ \A i \in 1 .. Len(tail) : all[f + i] = tail[i]
    <2>1. Follows(front \o tail, V, front, f, tail)
      BY <1>7, AfterHead, Zenon
    <2>2. QED  BY <1>8, <2>1 DEF Follows
  <1>10. ASSUME NEW i \in 1 .. h  PROVE all[i] = head[i]
    <2>1. i \in 1 .. f
      BY <1>6
    <2>2. QED  BY <1>5, <1>9, <2>1
  <1>11. ASSUME NEW i \in 1 .. n, NEW k \in 1 .. 3
         PROVE  all[h + (3 * (i - 1) + k)] = blocks[i][k]
    <2>1. PICK j \in Nat : j = 3 * (i - 1) + k
      OBVIOUS
    <2>2. j \in 1 .. m /\ h + j \in 1 .. f
      BY <1>2, <1>6, <2>1
    <2>3. all[h + j] = front[h + j] /\ front[h + j] = flat[j]
      BY <1>3, <1>5, <1>9, <2>2
    <2>4. flat[j] = blocks[i][k]
      BY <1>3, <2>1
    <2>5. QED  BY <2>1, <2>3, <2>4
  <1>12. all = head \o Ext!FlattenSeq(blocks) \o tail
    BY <1>1, <1>4, <1>8
  <1>13. LaidOut(all, V, n, blocks, head, h, tail, t)
    BY <1>2, <1>6, <1>9, <1>10, <1>11 DEF LaidOut
  <1>14. QED  BY <1>12, <1>13

(* A report is read as it was written.                                     *)
Channels == [name : Nat, type : SampleTypes]
Reports == [is : {"report"}, driver : Values, rate : Values, preferred : Values,
            outputs : Seq(Channels), base : Values, effective : Values]
Tags == {"u16", "u32", "text", "name", "type", "noise"}

LEMMA ReportRead ==
    ASSUME NEW report \in Reports
    PROVE  WriteReport(report) \in Seq(FieldSet) /\ ReadReport(WriteReport(report)) = report
  <1>1. PICK n \in Nat : n = Len(report.outputs)
    BY DEF Reports
  <1>2. /\ report.outputs \in [1 .. n -> Channels] /\ DOMAIN report.outputs = 1 .. n
        /\ report.driver \in Values /\ report.rate \in Values /\ report.preferred \in Values
        /\ report.base \in Values /\ report.effective \in Values
    BY <1>1 DEF Reports
  <1>3. PICK blocks : blocks = [i \in DOMAIN report.outputs |->
             <<U32(i - 1), Name(report.outputs[i].name), SampleType(report.outputs[i].type)>>]
    OBVIOUS
  <1>4. ASSUME NEW i \in 1 .. n
        PROVE  /\ blocks[i] \in Seq(FieldSet) /\ Len(blocks[i]) = 3
               /\ blocks[i][1] = U32(i - 1)
               /\ blocks[i][2] = Name(report.outputs[i].name)
               /\ blocks[i][3] = SampleType(report.outputs[i].type)
    <2>1. report.outputs[i].name \in Nat /\ report.outputs[i].type \in SampleTypes
      BY <1>2 DEF Channels
    <2>2. i - 1 \in Nat
      OBVIOUS
    <2>3. /\ U32(i - 1) \in FieldSet /\ Name(report.outputs[i].name) \in FieldSet
          /\ SampleType(report.outputs[i].type) \in FieldSet
      BY <2>1, <2>2, FieldsTyped
    <2>4. blocks[i] = <<U32(i - 1), Name(report.outputs[i].name),
                        SampleType(report.outputs[i].type)>>
      BY <1>2, <1>3
    <2>5. QED  BY <2>3, <2>4
  <1>5. blocks \in Triples(n, FieldSet)
    <2>1. blocks = [i \in 1 .. n |-> blocks[i]]
      BY <1>2, <1>3
    <2>2. blocks \in [1 .. n -> Seq(FieldSet)]
      BY <1>4, <2>1
    <2>3. QED  BY <1>4, <2>2 DEF Triples
  <1>6. PICK head : head = <<Text(report.driver), U32(report.rate), U32(report.preferred),
                             U32(Len(report.outputs))>>
    OBVIOUS
  <1>7. PICK h \in Nat, t \in Nat : h = 4 /\ t = 2
    OBVIOUS
  <1>8. /\ head \in Seq(FieldSet) /\ Len(head) = h
        /\ head[1] = Text(report.driver) /\ head[2] = U32(report.rate)
        /\ head[3] = U32(report.preferred) /\ head[4] = U32(n)
    <2>1. /\ Text(report.driver) \in FieldSet /\ U32(report.rate) \in FieldSet
          /\ U32(report.preferred) \in FieldSet /\ U32(n) \in FieldSet
      BY <1>2, FieldsTyped
    <2>2. head = <<Text(report.driver), U32(report.rate), U32(report.preferred), U32(n)>>
      BY <1>1, <1>6
    <2>3. QED  BY <1>7, <2>1, <2>2
  <1>9. PICK tail : tail = <<U32(report.base), U32(report.effective)>>
    OBVIOUS
  <1>10. /\ tail \in Seq(FieldSet) /\ Len(tail) = t
         /\ tail[1] = U32(report.base) /\ tail[2] = U32(report.effective)
    <2>1. U32(report.base) \in FieldSet /\ U32(report.effective) \in FieldSet
      BY <1>2, FieldsTyped
    <2>2. QED  BY <1>7, <1>9, <2>1
  <1>11. PICK p : p = WriteReport(report)
    OBVIOUS
  <1>12. p = head \o Ext!FlattenSeq(blocks) \o tail
    BY <1>3, <1>6, <1>9, <1>11 DEF WriteReport
  <1>13. /\ p \in Seq(FieldSet) /\ Len(p) = h + 3 * n + t
         /\ \A i \in 1 .. h : p[i] = head[i]
         /\ \A i \in 1 .. n, k \in 1 .. 3 : p[h + (3 * (i - 1) + k)] = blocks[i][k]
         /\ \A i \in 1 .. t : p[(h + 3 * n) + i] = tail[i]
    <2>1. LaidOut(head \o Ext!FlattenSeq(blocks) \o tail, FieldSet, n, blocks, head, h, tail, t)
      BY <1>5, <1>8, <1>10, Layout, Zenon
    <2>2. LaidOut(p, FieldSet, n, blocks, head, h, tail, t)
      BY <1>12, <2>1, Zenon
    <2>3. QED  BY <2>2 DEF LaidOut
  <1>14. /\ Len(p) = 3 * n + 6 /\ DOMAIN p = 1 .. 3 * n + 6
         /\ p[1] = Text(report.driver) /\ p[2] = U32(report.rate)
         /\ p[3] = U32(report.preferred) /\ p[4] = U32(n)
         /\ p[3 * n + 5] = U32(report.base) /\ p[3 * n + 6] = U32(report.effective)
    <2>1. (h + 3 * n) + 1 = 3 * n + 5 /\ (h + 3 * n) + 2 = 3 * n + 6 /\ h + 3 * n + t = 3 * n + 6
      BY <1>7
    <2>2. Len(p) = 3 * n + 6
      BY <1>13, <2>1
    <2>3. DOMAIN p = 1 .. Len(p)
      BY <1>13
    <2>4. p[(h + 3 * n) + 1] = tail[1] /\ p[(h + 3 * n) + 2] = tail[2]
      BY <1>7, <1>13
    <2>5. p[1] = head[1] /\ p[2] = head[2] /\ p[3] = head[3] /\ p[4] = head[4]
      BY <1>7, <1>13
    <2>6. QED  BY <1>8, <1>10, <2>1, <2>2, <2>3, <2>4, <2>5
  <1>15. ASSUME NEW i \in 1 .. n
         PROVE  /\ p[3 * i + 2] = U32(i - 1)
                /\ p[3 * i + 3] = Name(report.outputs[i].name)
                /\ p[3 * i + 4] = SampleType(report.outputs[i].type)
    <2>1. /\ h + (3 * (i - 1) + 1) = 3 * i + 2 /\ h + (3 * (i - 1) + 2) = 3 * i + 3
          /\ h + (3 * (i - 1) + 3) = 3 * i + 4
      BY <1>7
    <2>2. /\ p[h + (3 * (i - 1) + 1)] = blocks[i][1] /\ p[h + (3 * (i - 1) + 2)] = blocks[i][2]
          /\ p[h + (3 * (i - 1) + 3)] = blocks[i][3]
      <3>1. 1 \in 1 .. 3 /\ 2 \in 1 .. 3 /\ 3 \in 1 .. 3
        OBVIOUS
      <3>2. QED  BY <1>13, <3>1, Zenon
    <2>3. QED  BY <1>4, <2>1, <2>2
  <1>16. Types(p) = ReportTypes(n)
    <2>1. PICK types : types = [i \in 1 .. n |-> <<"u32", "name", "type">>]
      OBVIOUS
    <2>2. <<"u32", "name", "type">> \in Seq(Tags) /\ Len(<<"u32", "name", "type">>) = 3
      BY DEF Tags
    <2>3. types \in Triples(n, Tags)
      BY <2>1, <2>2 DEF Triples
    <2>4. PICK first : first = <<"text", "u32", "u32", "u32">>
      OBVIOUS
    <2>5. /\ first \in Seq(Tags) /\ Len(first) = h
          /\ first[1] = "text" /\ first[2] = "u32" /\ first[3] = "u32" /\ first[4] = "u32"
      BY <1>7, <2>4 DEF Tags
    <2>6. PICK last : last = <<"u32", "u32">>
      OBVIOUS
    <2>7. last \in Seq(Tags) /\ Len(last) = t /\ last[1] = "u32" /\ last[2] = "u32"
      BY <1>7, <2>6 DEF Tags
    <2>8. PICK q : q = ReportTypes(n)
      OBVIOUS
    <2>9. q = first \o Ext!FlattenSeq(types) \o last
      BY <2>1, <2>4, <2>6, <2>8 DEF ReportTypes
    <2>10. /\ q \in Seq(Tags) /\ Len(q) = h + 3 * n + t
           /\ \A i \in 1 .. h : q[i] = first[i]
           /\ \A i \in 1 .. n, k \in 1 .. 3 : q[h + (3 * (i - 1) + k)] = types[i][k]
           /\ \A i \in 1 .. t : q[(h + 3 * n) + i] = last[i]
      <3>1. LaidOut(first \o Ext!FlattenSeq(types) \o last, Tags, n, types, first, h, last, t)
        BY <2>3, <2>5, <2>7, Layout, Zenon
      <3>2. LaidOut(q, Tags, n, types, first, h, last, t)
        BY <2>9, <3>1, Zenon
      <3>3. QED  BY <3>2 DEF LaidOut
    <2>11. Len(q) = 3 * n + 6
      BY <1>7, <2>10
    <2>12. ASSUME NEW j \in 1 .. 3 * n + 6  PROVE p[j][1] = q[j]
      <3>1. CASE j \in 1 .. 4
        <4>1. p[j] = head[j] /\ q[j] = first[j]
          BY <1>7, <1>13, <2>10, <3>1
        <4>2. j = 1 \/ j = 2 \/ j = 3 \/ j = 4
          BY <3>1
        <4>3. QED  BY <1>8, <2>5, <4>1, <4>2 DEF Text, U32
      <3>2. CASE j > 3 * n + 4
        <4>1. PICK i \in 1 .. t : j = (h + 3 * n) + i
          <5>1. j - (h + 3 * n) \in 1 .. t
            BY <1>7, <3>2
          <5>2. j = (h + 3 * n) + (j - (h + 3 * n))
            BY <1>7
          <5>3. QED  BY <5>1, <5>2
        <4>2. p[j] = tail[i] /\ q[j] = last[i]
          BY <1>13, <2>10, <4>1
        <4>3. i = 1 \/ i = 2
          BY <1>7
        <4>4. QED  BY <1>10, <2>7, <4>2, <4>3 DEF U32
      <3>3. CASE j > 4 /\ j <= 3 * n + 4
        <4>1. PICK i \in 1 .. n, k \in 1 .. 3 : j = h + (3 * (i - 1) + k)
          <5>1. PICK x \in 1 .. 3 * n : x = j - 4
            BY <3>3
          <5>2. ((x - 1) \div 3) + 1 \in 1 .. n /\ ((x - 1) % 3) + 1 \in 1 .. 3
            BY InBlock
          <5>3. x = 3 * ((((x - 1) \div 3) + 1) - 1) + (((x - 1) % 3) + 1)
            OBVIOUS
          <5>4. j = h + x
            BY <1>7, <5>1
          <5>5. QED  BY <5>2, <5>3, <5>4
        <4>2. p[j] = blocks[i][k] /\ q[j] = types[i][k]
          BY <1>13, <2>10, <4>1
        <4>3. types[i] = <<"u32", "name", "type">>
          BY <2>1
        <4>4. k = 1 \/ k = 2 \/ k = 3
          OBVIOUS
        <4>5. blocks[i][1][1] = "u32" /\ blocks[i][2][1] = "name" /\ blocks[i][3][1] = "type"
          BY <1>4 DEF U32, Name, SampleType
        <4>6. QED  BY <4>2, <4>3, <4>4, <4>5
      <3>4. QED  BY <3>1, <3>2, <3>3
    <2>13. Types(p) = [j \in 1 .. 3 * n + 6 |-> p[j][1]]
      BY <1>14 DEF Types
    <2>14. q = [j \in 1 .. 3 * n + 6 |-> q[j]]
      BY <2>10, <2>11
    <2>15. QED  BY <2>8, <2>12, <2>13, <2>14
  <1>17. /\ Value(p, 1) = report.driver /\ Value(p, 2) = report.rate
         /\ Value(p, 3) = report.preferred /\ Value(p, 4) = n /\ p[4][1] = "u32"
         /\ Value(p, Len(p) - 1) = report.base /\ Value(p, Len(p)) = report.effective
    <2>1. Len(p) - 1 = 3 * n + 5
      BY <1>14
    <2>2. QED  BY <1>14, <2>1 DEF Value, Text, U32
  <1>18. PICK outputs : outputs = [i \in 1 .. n |-> [name |-> Value(p, 3 * i + 3),
                                                     type |-> Value(p, 3 * i + 4)]]
    OBVIOUS
  <1>19. outputs = report.outputs
    <2>1. ASSUME NEW i \in 1 .. n  PROVE outputs[i] = report.outputs[i]
      <3>1. /\ Value(p, 3 * i + 3) = report.outputs[i].name
            /\ Value(p, 3 * i + 4) = report.outputs[i].type
        BY <1>15 DEF Value, Name, SampleType
      <3>2. report.outputs[i] = [name |-> report.outputs[i].name,
                                 type |-> report.outputs[i].type]
        BY <1>2 DEF Channels
      <3>3. QED  BY <1>18, <3>1, <3>2
    <2>2. outputs = [i \in 1 .. n |-> outputs[i]]
      BY <1>18
    <2>3. report.outputs = [i \in 1 .. n |-> report.outputs[i]]
      BY <1>2
    <2>4. QED  BY <2>1, <2>2, <2>3
  <1>20. ReadReport(p) = [is |-> "report", driver |-> report.driver, rate |-> report.rate,
                          preferred |-> report.preferred, outputs |-> outputs,
                          base |-> report.base, effective |-> report.effective]
    <2>1. Len(p) >= 6
      BY <1>14
    <2>2. QED  BY <1>16, <1>17, <1>18, <2>1 DEF ReadReport
  <1>21. report = [is |-> "report", driver |-> report.driver, rate |-> report.rate,
                   preferred |-> report.preferred, outputs |-> report.outputs,
                   base |-> report.base, effective |-> report.effective]
    BY DEF Reports
  <1>22. QED  BY <1>11, <1>13, <1>19, <1>20, <1>21

-----------------------------------------------------------------------------
(* The process and its run.                                                *)
RunPhases == {"none", "create", "job", "reader", "resume", "write", "wait",
              "collect", "killed", "returned"}
Prepared == {"prepare", "open", "query", "create", "panel", "shown", "finish",
             "respond", "flush"}

RunInv ==
    /\ run.at \in RunPhases
    /\ run.at # "none" =>
          /\ run = [at |-> run.at, status |-> run.status, request |-> run.request,
                    bytes |-> run.bytes, exit |-> run.exit]
          /\ run.request \in Requests
    /\ run.at \in {"none", "create"} => host.at = "none"
    /\ run.at = "returned" => host.at \in {"none", "dead"}
    /\ run.at \in {"job", "reader", "resume"} => host.at = "suspended"
    /\ run.at = "write" => host.at = "read"
    /\ run.at \in {"collect", "killed"} => host.at = "dead"
    /\ run.at \in {"reader", "resume", "write", "wait"} => job
    /\ run.at \in {"job", "reader", "resume", "write"} => ~stdin.closed
    /\ run.at = "wait" /\ run.request.mode # "panel" =>
          stdin.bytes = EncodeAsioProbeRequest(run.request)

(* Who has been asked for what.                                            *)
Triple(request) ==
    [driver |-> request.driver, frames |-> request.frames, base |-> request.base]

(* What a host has found out. The device is as it was then: no panel is    *)
(* shown by a process that answers a question.                             *)
ResultInv ==
    /\ host.result.is = "failure" => host.result \in Failures
    /\ host.mode # "panel" => host.result.is \in {"failure", "report"}
    /\ host.result.is = "report" =>
          /\ host.at \in {"create", "finish", "respond", "flush"}
          /\ host.mode # "panel" /\ run.request.driver \in DOMAIN Installed
          /\ host.result = Report(run.request)
          /\ host.mode = "validate" /\ host.at \in {"respond", "flush"} =>
                Triple(run.request) \in accepted

HostInv ==
    /\ host.at \in {"none", "suspended", "read", "dead"} \union Prepared
    /\ host.at = "suspended" => run.at \in {"job", "reader", "resume"}
    /\ host.at = "read" => run.at \in {"write", "wait"}
    /\ host.at \in {"suspended", "read"} =>
          host = [at |-> host.at, mode |-> run.request.mode]
    /\ host.at \in Prepared =>
          /\ run.at = "wait"
          /\ host = [at |-> host.at, mode |-> host.mode, request |-> host.request,
                     result |-> host.result, buffers |-> host.buffers]
          /\ host.mode = run.request.mode
          /\ host.mode # "panel" => Triple(host.request) = Triple(run.request)
          /\ host.at \in {"panel", "shown"} => host.mode = "panel"
          /\ host.at \in {"query", "create"} =>
                host.mode # "panel" /\ run.request.driver \in DOMAIN Installed
          /\ ResultInv

(* What is read of the host is an answer that can be relied on: until it   *)
(* answers there is nothing but noise, and noise spoils what comes after.  *)
Honest(bytes) ==
    DecodeAsioProbeResult(bytes).is = "report" =>
       /\ run.request.driver \in DOMAIN Installed
       /\ run.request.mode = "inspect" => DecodeAsioProbeResult(bytes) = Report(run.request)
       /\ run.request.mode = "validate" => Triple(run.request) \in accepted
OnlyNoise(bytes) == \A i \in DOMAIN bytes : bytes[i] = Noise

Listening ==
    /\ run.at \in {"wait", "collect"} /\ run.request.mode # "panel"
    /\ reader.at # "failed" /\ ~reader.overflow

Heard ==
    /\ reader.bytes \in Seq(FieldSet) /\ stdout \in Seq(FieldSet)
    /\ host.at \in {"flush", "dead"} => Honest(reader.bytes \o stdout)
    /\ host.at \notin {"flush", "dead"} => OnlyNoise(reader.bytes \o stdout)

StreamInv ==
    /\ reader = [at |-> reader.at, bytes |-> reader.bytes, overflow |-> reader.overflow]
    /\ reader.at = "done" => stdout = <<>> /\ host.at = "dead"
    /\ host.at \in {"none", "suspended", "read"} => stdout = <<>> /\ reader.bytes = <<>>
    /\ Listening => Heard
    /\ run.at = "none" \/ run.status # "exited" \/ run.at = "returned"
    /\ run.at = "returned" /\ run.status = "exited" /\ run.request.mode # "panel" =>
          Honest(run.bytes)

(* The page, the worker, and the file.                                     *)
Documents == [backend : {"wasapi_exclusive", "asio"}, driver : Values,
              frames : Values, base : Values, binding : {0, 1}]
Devices == [DOMAIN Installed -> [preferred : PreferredFrames,
                                 rate : Rates \union SupportedRates]]
TypesInv ==
    /\ devices \in Devices /\ config \in Documents /\ file \in Documents \union {NoFile}

Completed == worker.at = "completed" /\ worker = [at |-> "completed", result |-> worker.result]
WorkerInv ==
    /\ operation \in {"idle", "inspection", "control_panel", "save"}
    /\ operation = "idle" => worker = NoWorker
    /\ operation \in {"inspection", "control_panel"} =>
          OnAsioPage /\ (worker = [at |-> "running"] \/ Completed)
    /\ operation = "save" =>
          /\ dirty
          /\ \/ Completed
             \/ /\ worker.at \in {"compile", "validate", "write"}
                /\ worker = [at |-> worker.at, document |-> worker.document]
                /\ worker.document \in Documents
    /\ run.at = "none" <=> worker.at \notin {"running", "validate"}

InspectionInv ==
    operation = "inspection" =>
       /\ worker.at = "running" => run.request = Request("inspect", config)
       /\ worker.at = "completed" => worker.result.is \in {"failure", "report"}
       /\ worker.at = "completed" /\ worker.result.is = "report" =>
             /\ config.driver \in DOMAIN Installed
             /\ worker.result = Report(Request("inspect", config))
PanelInv ==
    operation = "control_panel" =>
       /\ inspection.state # "valid"
       /\ worker.at = "running" => run.request.mode = "panel"
SaveInv ==
    operation = "save" =>
       /\ worker.at = "validate" => run.request = Request("validate", worker.document)
       /\ worker.at = "write" /\ worker.document.backend = "asio" =>
             Triple(worker.document) \in accepted
       /\ worker.at = "completed" /\ worker.result = Succeeded => file # NoFile

EditorInv == TypesInv /\ WorkerInv /\ InspectionInv /\ PanelInv /\ SaveInv
ProcessInv == RunInv /\ HostInv /\ StreamInv
ToolInv == EditorInv /\ ProcessInv /\ ToolTruthful

-----------------------------------------------------------------------------
(* What is heard.                                                          *)
LEMMA NoiseSaysNothing ==
    ASSUME NEW bytes \in Seq(FieldSet), OnlyNoise(bytes)
    PROVE  DecodeAsioProbeResult(bytes).is # "report"
  <1>1. CASE bytes = <<>>
    <2>1. ~HasEnvelope(bytes)
      BY <1>1 DEF HasEnvelope, kAsioProbeEnvelopeFields
    <2>2. QED  BY <2>1, NoEnvelope
  <1>2. CASE bytes # <<>>
    <2>1. 1 \in DOMAIN bytes
      BY <1>2
    <2>2. bytes[1] = Noise
      BY <2>1 DEF OnlyNoise
    <2>3. ~HasEnvelope(bytes)
      BY <2>2, NoisyMessage
    <2>4. QED  BY <2>3, NoEnvelope
  <1>3. QED  BY <1>1, <1>2

LEMMA NoiseHonest ==
    ASSUME NEW bytes \in Seq(FieldSet), OnlyNoise(bytes)
    PROVE  Honest(bytes) /\ Honest(bytes)'
  <1>1. DecodeAsioProbeResult(bytes).is # "report"
    BY NoiseSaysNothing
  <1>2. Honest(bytes)
    BY <1>1 DEF Honest
  <1>3. Honest(bytes)'
    BY <1>1 DEF Honest
  <1>4. QED  BY <1>2, <1>3

LEMMA StaysHonest ==
    ASSUME NEW bytes, Honest(bytes), run'.request = run.request, devices' = devices,
           accepted \subseteq accepted'
    PROVE  Honest(bytes)'
  BY DEF Honest, Report, Triple

LEMMA SameReport ==
    ASSUME NEW a, NEW b, Triple(a) = Triple(b)
    PROVE  Report(a) = Report(b) /\ a.driver = b.driver /\ a.frames = b.frames /\ a.base = b.base
  <1>1. a.driver = b.driver /\ a.frames = b.frames /\ a.base = b.base
    BY DEF Triple
  <1>2. QED  BY <1>1 DEF Report

LEMMA ReportTyped ==
    ASSUME TypesInv, NEW request, request.driver \in DOMAIN Installed,
           request.frames \in Values, request.base \in Values
    PROVE  Report(request) \in Reports
  <1>1. devices[request.driver] \in [preferred : PreferredFrames,
                                    rate : Rates \union SupportedRates]
    BY DEF TypesInv, Devices
  <1>2. /\ devices[request.driver].rate \in Values
        /\ devices[request.driver].preferred \in Values
        /\ request.driver \in Values
    BY <1>1 DEF Values
  <1>3. Installed[request.driver].outputs \in Seq(Channels)
    BY InstalledAssumption DEF Channels
  <1>4. QED  BY <1>2, <1>3 DEF Report, Reports

(* The answer of the host, whole or cut short, after whatever noise.       *)
LEMMA ResponseHonest ==
    ASSUME TypesInv, run.request \in Requests, ResultInv, host.at = "respond",
           host.mode # "panel", host.mode = run.request.mode, Response # NoMessage,
           NEW noise \in Seq(FieldSet), OnlyNoise(noise)
    PROVE  /\ Response \in Seq(FieldSet) /\ Honest(noise \o Response)
           /\ SubSeq(Response, 1, Len(Response) - 1) \in Seq(FieldSet)
           /\ Honest(noise \o SubSeq(Response, 1, Len(Response) - 1))
  <1>1. PICK response : response = Response
    OBVIOUS
  <1>2. response = EncodeAsioProbeResult(host.result)
    BY <1>1 DEF Response
  <1>3. PICK kind \in DOMAIN MessageKinds, content \in Seq(FieldSet) :
            response = Frame(kind, content)
    <2>1. CASE host.result.is = "failure"
      <3>1. host.result \in Failures /\ response = EncodeFailure(host.result)
        BY <1>2, <2>1 DEF ResultInv, EncodeAsioProbeResult
      <3>2. EncodeFailure(host.result) # NoMessage
        BY <1>1, <3>1
      <3>3. PICK content \in Seq(FieldSet) : response = Frame("failure", content)
        BY <3>1, <3>2, FailureRead
      <3>4. "failure" \in DOMAIN MessageKinds
        BY DEF MessageKinds
      <3>5. QED  BY <3>3, <3>4
    <2>2. CASE host.result.is # "failure"
      <3>1. response = Frame("capability", WriteReport(host.result))
        BY <1>1, <1>2, <2>2 DEF EncodeAsioProbeResult
      <3>2. host.result \in Reports
        <4>1. /\ host.result = Report(run.request)
          BY <2>2 DEF ResultInv
        <4>2. host.result.is = "report"
          BY <2>2 DEF ResultInv
        <4>3. run.request.driver \in DOMAIN Installed
          BY <4>2 DEF ResultInv
        <4>4. run.request.frames \in Values /\ run.request.base \in Values
          BY DEF Requests
        <4>5. QED  BY <4>1, <4>3, <4>4, ReportTyped
      <3>3. WriteReport(host.result) \in Seq(FieldSet)
        BY <3>2, ReportRead
      <3>4. "capability" \in DOMAIN MessageKinds
        BY DEF MessageKinds
      <3>5. QED  BY <3>1, <3>3, <3>4
    <2>3. QED  BY <2>1, <2>2
  <1>4. Frame(kind, content) # NoMessage
    BY <1>1, <1>3
  <1>5. response \in Seq(FieldSet) /\ response # <<>>
    <2>1. response \in Seq(FieldSet) /\ Len(response) = 4 + Len(content)
      BY <1>3, <1>4, Envelope
    <2>2. QED  BY <2>1
  <1>6. PICK cut \in Seq(FieldSet) : /\ cut = SubSeq(response, 1, Len(response) - 1)
                                   /\ cut # <<>> /\ ~HasEnvelope(cut)
    BY <1>3, <1>4, CutMessage
  <1>7. ASSUME NEW s \in Seq(FieldSet), s # <<>>, noise # <<>>
        PROVE  Honest(noise \o s)
    <2>1. (noise \o s)[1] = noise[1] /\ 1 \in DOMAIN noise
      BY <1>7
    <2>2. (noise \o s)[1] = Noise
      BY <2>1 DEF OnlyNoise
    <2>3. ~HasEnvelope(noise \o s)
      BY <2>2, NoisyMessage
    <2>4. DecodeAsioProbeResult(noise \o s).is # "report"
      BY <2>3, NoEnvelope
    <2>5. QED  BY <2>4 DEF Honest
  <1>8. CASE noise # <<>>
    BY <1>1, <1>5, <1>6, <1>7, <1>8
  <1>9. CASE noise = <<>>
    <2>1. noise \o response = response /\ noise \o cut = cut
      BY <1>5, <1>6, <1>9
    <2>2. Honest(cut)
      BY <1>6, NoEnvelope DEF Honest
    <2>3. Honest(response)
      <3>1. CASE host.result.is = "failure"
        <4>1. host.result \in Failures /\ response = EncodeFailure(host.result)
          BY <1>2, <3>1 DEF ResultInv, EncodeAsioProbeResult
        <4>2. DecodeAsioProbeResult(response).is # "report"
          BY <1>1, <4>1, FailureRead
        <4>3. QED  BY <4>2 DEF Honest
      <3>2. CASE host.result.is # "failure"
        <4>1. host.result.is = "report"
          BY <3>2 DEF ResultInv
        <4>2. /\ host.result = Report(run.request)
              /\ host.mode = "validate" => Triple(run.request) \in accepted
          BY <4>1 DEF ResultInv
        <4>3. run.request.driver \in DOMAIN Installed
          BY <4>1 DEF ResultInv
        <4>4. host.result \in Reports
          BY <4>2, <4>3, ReportTyped DEF Requests
        <4>5. response = Frame("capability", WriteReport(host.result))
          BY <1>1, <1>2, <3>2 DEF EncodeAsioProbeResult
        <4>6. PICK words \in Seq(FieldSet) : words = WriteReport(host.result)
          BY <4>4, ReportRead
        <4>7. "capability" \in DOMAIN MessageKinds
          BY DEF MessageKinds
        <4>8. Frame("capability", words) # NoMessage
          BY <1>1, <4>5, <4>6
        <4>9. /\ HasEnvelope(response) /\ Value(response, 3) = MessageKinds["capability"]
              /\ Payload(response) = words
          BY <4>5, <4>6, <4>7, <4>8, Envelope
        <4>10. DecodeAsioProbeResult(response) = ReadReport(words)
          BY <4>9 DEF DecodeAsioProbeResult, IsKind, MessageKinds
        <4>11. ReadReport(words) = host.result
          BY <4>4, <4>6, ReportRead
        <4>12. QED  BY <4>2, <4>3, <4>10, <4>11 DEF Honest
      <3>3. QED  BY <3>1, <3>2
    <2>4. QED  BY <1>1, <1>5, <1>6, <2>1, <2>2, <2>3
  <1>10. QED  BY <1>8, <1>9

-----------------------------------------------------------------------------
(* The host's steps.                                                       *)
(* The tool waits while the host works.                                    *)
LEMMA HostWorks ==
    ASSUME RunInv, HostInv, HostProcess
    PROVE  /\ run.at = "wait" /\ host.at \in {"read"} \union Prepared
           /\ run.request \in Requests
           /\ UNCHANGED <<stdin, reader, job, cancel, run>>
  <1>1. host.at \in {"read"} \union Prepared /\ (host.at = "read" => stdin.closed)
    BY DEF HostProcess, ReadRequest, PrepareHost, OpenDriver, QueryDriver,
           CreateValidationBuffers, ShowPanel, ChangeDevice, ClosePanel, FinishDriver,
           Respond, ExitHost, Crash, InDriver, CrashInResponse, DriverPrints, Prepared
  <1>2. UNCHANGED <<stdin, reader, job, cancel, run>>
    BY DEF HostProcess, ReadRequest, PrepareHost, OpenDriver, QueryDriver,
           CreateValidationBuffers, ShowPanel, ChangeDevice, ClosePanel, FinishDriver,
           Respond, ExitHost, Crash, CrashInResponse, DriverPrints, HostStep
  <1>3. CASE host.at = "read"
    <2>1. run.at \in {"write", "wait"} /\ stdin.closed
      BY <1>1, <1>3 DEF HostInv
    <2>2. run.at = "wait"
      BY <2>1 DEF RunInv
    <2>3. QED  BY <1>1, <1>2, <2>2 DEF RunInv
  <1>4. CASE host.at \in Prepared
    BY <1>1, <1>2, <1>4 DEF HostInv, RunInv
  <1>5. QED  BY <1>1, <1>3, <1>4

LEMMA HostRun ==
    ASSUME RunInv, HostInv, HostProcess
    PROVE  RunInv'
  <1>1. /\ run.at = "wait" /\ UNCHANGED <<stdin, reader, job, cancel, run>>
    BY HostWorks
  <1>2. QED  BY <1>1 DEF RunInv

(* A process that is gone.                                                 *)
LEMMA HostGone ==
    ASSUME NEW code, host' = Dead(code)
    PROVE  HostInv'
  BY DEF Dead, HostInv, Prepared

LEMMA HostReads ==
    ASSUME RunInv, HostInv, ReadRequest
    PROVE  HostInv'
  <1>1. run.at = "wait" /\ run.request \in Requests /\ run' = run
        /\ host.mode = run.request.mode /\ host.at = "read" /\ stdin.closed
    <2>1. HostProcess
      BY DEF HostProcess
    <2>2. QED  BY <2>1, HostWorks DEF ReadRequest, HostInv
  <1>2. PICK request : request = IF host.mode = "panel"
                                 THEN DecodeAsioControlPanelRequest(stdin.bytes)
                                 ELSE DecodeAsioProbeRequest(stdin.bytes)
    OBVIOUS
  <1>3. CASE request = Malformed
    <2>1. host' = Dead(1)
      BY <1>2, <1>3 DEF ReadRequest
    <2>2. QED  BY <2>1, HostGone
  <1>4. CASE request # Malformed
    <2>1. host' = [at |-> "prepare", mode |-> request.mode, request |-> request,
                   result |-> Failure("protocol"), buffers |-> FALSE]
      BY <1>2, <1>4 DEF ReadRequest
    <2>2. request.mode = run.request.mode
          /\ (request.mode # "panel" => Triple(request) = Triple(run.request))
      <3>1. CASE host.mode = "panel"
        <4>1. request.mode = "panel"
          BY <1>2, <1>4, <3>1 DEF DecodeAsioControlPanelRequest
        <4>2. QED  BY <1>1, <3>1, <4>1
      <3>2. CASE host.mode # "panel"
        <4>1. request = DecodeAsioProbeRequest(EncodeAsioProbeRequest(run.request))
          BY <1>1, <1>2, <3>2 DEF RunInv
        <4>2. request = [is |-> "request", mode |-> run.request.mode,
                         frames |-> run.request.frames, base |-> run.request.base,
                         driver |-> run.request.driver]
          BY <1>1, <3>2, <4>1, RequestRead
        <4>3. QED  BY <4>2 DEF Triple
      <3>3. QED  BY <3>1, <3>2
    <2>3. ResultInv'
      BY <2>1 DEF ResultInv, Failure, Failures
    <2>4. QED  BY <1>1, <2>1, <2>2, <2>3 DEF HostInv, Prepared
  <1>5. QED  BY <1>3, <1>4

(* The steps that leave the result alone, and those that set a failure.    *)
LEMMA HostMoves ==
    ASSUME HostInv, run' = run, devices' = devices, host.at \in Prepared,
           accepted' = accepted,
           NEW at \in Prepared, Become(at),
           at \in {"create", "finish", "respond", "flush"} \/ host.result.is # "report",
           at = "respond" => host.mode # "validate" \/ host.at = "respond",
           at = "flush" => host.at = "respond",
           at \in {"panel", "shown"} => host.mode = "panel",
           at \in {"query", "create"} =>
              host.mode # "panel" /\ run.request.driver \in DOMAIN Installed
    PROVE  HostInv'
  <1>1. host' = [at |-> at, mode |-> host.mode, request |-> host.request,
                 result |-> host.result, buffers |-> host.buffers]
    BY DEF HostInv, Become
  <1>2. ResultInv
    BY DEF HostInv
  <1>3. ResultInv'
    BY <1>1, <1>2 DEF ResultInv, Report, Triple, Failures, Failure
  <1>4. run.at = "wait" /\ host.mode = run.request.mode
        /\ (host.mode # "panel" => Triple(host.request) = Triple(run.request))
    BY DEF HostInv
  <1>5. QED  BY <1>1, <1>3, <1>4 DEF HostInv, Prepared, Triple

LEMMA HostFails ==
    ASSUME HostInv, run' = run, host.at \in Prepared,
           NEW at \in {"finish", "respond"}, DriverFails(at)
    PROVE  HostInv'
  <1>1. host' = [at |-> at, mode |-> host.mode, request |-> host.request,
                 result |-> Failure("driver"), buffers |-> host.buffers]
    BY DEF HostInv, DriverFails, Conclude
  <1>2. ResultInv'
    BY <1>1 DEF ResultInv, Failures, Failure
  <1>3. run.at = "wait" /\ host.mode = run.request.mode
        /\ (host.mode # "panel" => Triple(host.request) = Triple(run.request))
    BY DEF HostInv
  <1>4. QED  BY <1>1, <1>2, <1>3 DEF HostInv, Prepared, Triple

LEMMA HostOpens ==
    ASSUME RunInv, HostInv, PrepareHost \/ OpenDriver
    PROVE  HostInv'
  <1>1. HostProcess
    BY DEF HostProcess
  <1>2. run' = run /\ devices' = devices /\ accepted' = accepted
    BY HostWorks, <1>1 DEF PrepareHost, OpenDriver
  <1>3. host.at \in Prepared /\ host.at \in {"prepare", "open"}
    BY DEF PrepareHost, OpenDriver, Prepared
  <1>4. host.result.is # "report"
    BY <1>3 DEF HostInv, ResultInv
  <1>5. CASE \E code : host' = Dead(code)
    BY <1>5, HostGone
  <1>6. CASE DriverFails("finish") \/ DriverFails("respond")
    BY <1>2, <1>3, <1>6, HostFails
  <1>7. CASE Become("open")
    BY <1>2, <1>3, <1>4, <1>7, HostMoves DEF Prepared
  <1>8. CASE /\ host.request.driver \in DOMAIN Installed /\ host.mode = "panel"
             /\ Become("panel")
    BY <1>2, <1>3, <1>4, <1>8, HostMoves DEF Prepared
  <1>9. CASE /\ host.request.driver \in DOMAIN Installed /\ host.mode # "panel"
             /\ Become("query")
    <2>1. run.request.driver \in DOMAIN Installed
      <3>1. Triple(host.request) = Triple(run.request)
        BY <1>3, <1>9 DEF HostInv
      <3>2. QED  BY <1>9, <3>1 DEF Triple
    <2>2. "query" \in Prepared
      BY DEF Prepared
    <2>3. QED  BY <1>2, <1>3, <1>4, <1>9, <2>1, <2>2, HostMoves
  <1>10. QED  BY <1>5, <1>6, <1>7, <1>8, <1>9 DEF PrepareHost, OpenDriver

LEMMA HostQueries ==
    ASSUME RunInv, HostInv, QueryDriver
    PROVE  HostInv'
  <1>1. HostProcess
    BY DEF HostProcess
  <1>2. run' = run /\ devices' = devices /\ accepted' = accepted
    BY HostWorks, <1>1 DEF QueryDriver
  <1>3. /\ host.at = "query" /\ host.at \in Prepared /\ run.at = "wait"
        /\ host.mode # "panel" /\ host.mode = run.request.mode
        /\ run.request.driver \in DOMAIN Installed
        /\ Triple(host.request) = Triple(run.request)
    BY DEF QueryDriver, HostInv, Prepared
  <1>4. PICK report : report = Report(host.request)
    OBVIOUS
  <1>5. report = Report(run.request) /\ report.is = "report"
    BY <1>3, <1>4, SameReport DEF Report
  <1>6. CASE DriverFails("finish")
    BY <1>2, <1>3, <1>6, HostFails
  <1>7. ASSUME NEW at \in {"finish", "create"}, Conclude(at, report)
        PROVE  HostInv'
    <2>1. host' = [at |-> at, mode |-> host.mode, request |-> host.request,
                   result |-> report, buffers |-> host.buffers]
      BY <1>3, <1>7 DEF HostInv, Conclude
    <2>2. Report(run.request)' = report
      BY <1>2, <1>5 DEF Report
    <2>3. ResultInv'
      BY <1>2, <1>3, <1>5, <2>1, <2>2 DEF ResultInv
    <2>4. QED  BY <1>2, <1>3, <2>1, <2>3 DEF HostInv, Prepared, Triple
  <1>8. QED  BY <1>4, <1>6, <1>7 DEF QueryDriver

LEMMA HostCreates ==
    ASSUME RunInv, HostInv, CreateValidationBuffers
    PROVE  HostInv'
  <1>1. HostProcess
    BY DEF HostProcess
  <1>2. run' = run /\ devices' = devices /\ accepted' = accepted
    BY HostWorks, <1>1 DEF CreateValidationBuffers
  <1>3. host.at = "create" /\ host.at \in Prepared /\ ResultInv
    BY DEF CreateValidationBuffers, HostInv, Prepared
  <1>4. CASE DriverFails("finish")
    BY <1>2, <1>3, <1>4, HostFails
  <1>5. ASSUME NEW result \in {host.result, Failure("driver")},
               host' = [host EXCEPT !.at = "finish", !.buffers = TRUE, !.result = result]
        PROVE  HostInv'
    <2>1. host' = [at |-> "finish", mode |-> host.mode, request |-> host.request,
                   result |-> result, buffers |-> TRUE]
      BY <1>3, <1>5 DEF HostInv
    <2>2. ResultInv'
      BY <1>2, <1>3, <2>1 DEF ResultInv, Failures, Failure, Report, Triple
    <2>3. run.at = "wait" /\ host.mode = run.request.mode
          /\ (host.mode # "panel" => Triple(host.request) = Triple(run.request))
      BY <1>3 DEF HostInv
    <2>4. QED  BY <1>2, <2>1, <2>2, <2>3 DEF HostInv, Prepared, Triple
  <1>6. QED
    <2>1. \/ DriverFails("finish")
          \/ \E result \in {host.result, Failure("driver")} :
                host' = [host EXCEPT !.at = "finish", !.buffers = TRUE, !.result = result]
      BY DEF CreateValidationBuffers
    <2>2. QED  BY <1>4, <1>5, <2>1

LEMMA HostShows ==
    ASSUME RunInv, HostInv, ShowPanel \/ ChangeDevice \/ ClosePanel
    PROVE  HostInv'
  <1>1. HostProcess
    BY DEF HostProcess
  <1>2. run' = run /\ accepted' = accepted
    BY HostWorks, <1>1 DEF ShowPanel, ChangeDevice, ClosePanel
  <1>3. host.at \in {"panel", "shown"} /\ host.at \in Prepared /\ host.mode = "panel"
    BY DEF ShowPanel, ChangeDevice, ClosePanel, HostInv, Prepared
  <1>4. host.result.is # "report" /\ run.at = "wait" /\ host.mode = run.request.mode
    BY <1>3 DEF HostInv, ResultInv
  <1>5. CASE DriverFails("finish")
    BY <1>2, <1>3, <1>5, HostFails
  <1>6. CASE Conclude("shown", PanelClosed)
    <2>1. host' = [at |-> "shown", mode |-> host.mode, request |-> host.request,
                   result |-> PanelClosed, buffers |-> host.buffers]
      BY <1>3, <1>6 DEF HostInv, Conclude
    <2>2. ResultInv'
      BY <1>3, <2>1 DEF ResultInv, PanelClosed
    <2>3. QED  BY <1>2, <1>3, <1>4, <2>1, <2>2 DEF HostInv, Prepared
  <1>7. CASE host' = host
    <2>1. ResultInv'
      BY <1>3, <1>4, <1>7 DEF ResultInv, HostInv
    <2>2. QED  BY <1>2, <1>3, <1>4, <1>7, <2>1 DEF HostInv, Prepared, Triple
  <1>8. CASE Become("finish") /\ devices' = devices
    BY <1>2, <1>3, <1>4, <1>8, HostMoves DEF Prepared
  <1>9. QED  BY <1>5, <1>6, <1>7, <1>8 DEF ShowPanel, ChangeDevice, ClosePanel

LEMMA HostFinishes ==
    ASSUME RunInv, HostInv, FinishDriver
    PROVE  HostInv'
  <1>1. HostProcess
    BY DEF HostProcess
  <1>2. run' = run /\ devices' = devices
    BY HostWorks, <1>1 DEF FinishDriver
  <1>3. /\ host.at = "finish" /\ host.at \in Prepared /\ ResultInv
        /\ run.at = "wait" /\ host.mode = run.request.mode
        /\ (host.mode # "panel" => Triple(host.request) = Triple(run.request))
    BY DEF FinishDriver, HostInv, Prepared
  <1>4. CASE DriverFails("respond")
    BY <1>2, <1>3, <1>4, HostFails
  <1>5. CASE Become("respond")
    <2>1. host' = [at |-> "respond", mode |-> host.mode, request |-> host.request,
                   result |-> host.result, buffers |-> host.buffers]
      BY <1>3, <1>5 DEF HostInv, Become
    <2>2. host.result.is = "report" /\ host.mode = "validate" =>
             Triple(run.request) \in accepted'
      <3>1. SUFFICES ASSUME host.result.is = "report", host.mode = "validate"
                     PROVE  Triple(run.request) \in accepted'
        OBVIOUS
      <3>2. host'.result.is = "report"
        BY <2>1, <3>1
      <3>3. accepted' = accepted \union {Triple(host.request)}
        BY <3>1, <3>2 DEF FinishDriver, Triple
      <3>4. QED  BY <1>3, <3>1, <3>3
    <2>3. Report(run.request)' = Report(run.request) /\ Triple(run.request)' = Triple(run.request)
      BY <1>2 DEF Report, Triple
    <2>4. ResultInv'
      BY <1>2, <1>3, <2>1, <2>2, <2>3 DEF ResultInv
    <2>5. QED  BY <1>2, <1>3, <2>1, <2>4 DEF HostInv, Prepared, Triple
  <1>6. QED  BY <1>4, <1>5 DEF FinishDriver

LEMMA HostEnds ==
    ASSUME RunInv, HostInv, Respond \/ ExitHost \/ Crash \/ CrashInResponse \/ DriverPrints
    PROVE  HostInv'
  <1>1. HostProcess
    BY DEF HostProcess
  <1>2. run' = run /\ devices' = devices /\ accepted' = accepted
    BY HostWorks, <1>1 DEF Respond, ExitHost, Crash, CrashInResponse, DriverPrints
  <1>3. CASE \E code : host' = Dead(code)
    BY <1>3, HostGone
  <1>4. CASE host.at = "respond" /\ Become("flush")
    BY <1>2, <1>4, HostMoves DEF Prepared
  <1>5. CASE host' = host
    <2>1. ResultInv => ResultInv'
      BY <1>2, <1>5 DEF ResultInv, Report, Triple
    <2>2. QED  BY <1>2, <1>5, <2>1 DEF HostInv, Prepared, Triple
  <1>6. QED  BY <1>3, <1>4, <1>5 DEF Respond, ExitHost, Crash, CrashInResponse, DriverPrints

LEMMA HostStepHost ==
    ASSUME RunInv, HostInv, HostProcess
    PROVE  HostInv'
  BY HostReads, HostOpens, HostQueries, HostCreates, HostShows, HostFinishes, HostEnds
     DEF HostProcess

LEMMA HostGoesTo ==
    ASSUME RunInv, HostInv, HostProcess
    PROVE  host'.at \in {"dead"} \union Prepared
  <1>1. host.at \in {"read"} \union Prepared
    BY HostWorks
  <1>2. host.at \in Prepared =>
           host = [at |-> host.at, mode |-> host.mode, request |-> host.request,
                   result |-> host.result, buffers |-> host.buffers]
    BY DEF HostInv
  <1>3. CASE ReadRequest
    BY <1>3 DEF ReadRequest, Dead, Prepared
  <1>4. ASSUME NEW at \in Prepared, host.at \in Prepared,
               Become(at) \/ \E result : Conclude(at, result)
        PROVE  host'.at \in {"dead"} \union Prepared
    BY <1>2, <1>4 DEF Become, Conclude
  <1>5. CASE PrepareHost \/ ShowPanel \/ ClosePanel
    <2>1. /\ host.at \in Prepared
          /\ \/ host' = Dead(1) \/ Become("open") \/ Become("finish")
             \/ DriverFails("finish") \/ Conclude("shown", PanelClosed)
      BY <1>5 DEF PrepareHost, ShowPanel, ClosePanel, Prepared
    <2>2. QED  BY <1>4, <2>1 DEF DriverFails, Dead, Prepared
  <1>6. CASE OpenDriver
    <2>1. /\ host.at \in Prepared
          /\ \/ DriverFails("respond") \/ DriverFails("finish")
             \/ Become("panel") \/ Become("query")
      BY <1>6 DEF OpenDriver, Prepared
    <2>2. QED  BY <1>4, <2>1 DEF DriverFails, Prepared
  <1>7. CASE QueryDriver
    <2>1. /\ host.at \in Prepared
          /\ \/ DriverFails("finish")
             \/ \E result : Conclude("finish", result) \/ Conclude("create", result)
      BY <1>7 DEF QueryDriver, Prepared
    <2>2. QED  BY <1>4, <2>1 DEF DriverFails, Prepared
  <1>8. CASE CreateValidationBuffers
    BY <1>1, <1>2, <1>8 DEF CreateValidationBuffers, DriverFails, Conclude, Prepared
  <1>9. CASE FinishDriver \/ Respond
    <2>1. /\ host.at \in Prepared
          /\ \/ host' = Dead(1) \/ Become("respond") \/ Become("flush")
             \/ DriverFails("respond")
      BY <1>9 DEF FinishDriver, Respond, Prepared
    <2>2. QED  BY <1>4, <2>1 DEF DriverFails, Dead, Prepared
  <1>10. CASE ExitHost \/ Crash \/ CrashInResponse
    BY <1>10 DEF ExitHost, Crash, CrashInResponse, Dead
  <1>11. CASE ChangeDevice \/ DriverPrints
    BY <1>11 DEF ChangeDevice, DriverPrints, Prepared
  <1>12. QED
    BY <1>3, <1>5, <1>6, <1>7, <1>8, <1>9, <1>10, <1>11 DEF HostProcess

(* While the host says nothing, what has been heard stays what it is.      *)
LEMMA HostSilent ==
    ASSUME RunInv, HostInv, Heard, HostProcess, stdout' = stdout
    PROVE  Heard'
  <1>1. /\ host.at \in {"read"} \union Prepared /\ run' = run /\ reader' = reader
    BY HostWorks
  <1>2. PICK s : s = reader.bytes \o stdout
    OBVIOUS
  <1>3. s \in Seq(FieldSet) /\ reader.bytes \in Seq(FieldSet) /\ stdout \in Seq(FieldSet)
    BY <1>2 DEF Heard
  <1>4. s = reader'.bytes \o stdout'
    BY <1>1, <1>2
  <1>5. CASE host.at = "flush"
    <2>1. host' \in {Dead(0), Dead(1)} /\ devices' = devices /\ accepted' = accepted
      BY <1>5 DEF HostProcess, ReadRequest, PrepareHost, OpenDriver, QueryDriver,
           CreateValidationBuffers, ShowPanel, ChangeDevice, ClosePanel, FinishDriver,
           Respond, ExitHost, Crash, CrashInResponse, DriverPrints
    <2>2. host'.at = "dead"
      BY <2>1 DEF Dead
    <2>3. Honest(s)
      BY <1>2, <1>5 DEF Heard
    <2>4. Honest(s)'
      BY <1>1, <2>1, <2>3, StaysHonest
    <2>5. QED  BY <1>1, <1>3, <1>4, <2>2, <2>4 DEF Heard
  <1>6. CASE host.at # "flush"
    <2>1. OnlyNoise(s)
      BY <1>1, <1>2, <1>6 DEF Heard, Prepared
    <2>2. Honest(s)'
      BY <1>3, <2>1, NoiseHonest
    <2>3. QED  BY <1>1, <1>3, <1>4, <2>1, <2>2 DEF Heard
  <1>7. QED  BY <1>5, <1>6

LEMMA HostAnswers ==
    ASSUME TypesInv, RunInv, HostInv, Heard, Respond \/ CrashInResponse, stdout' # stdout,
           run.request.mode # "panel"
    PROVE  Heard'
  <1>1. HostProcess
    BY DEF HostProcess
  <1>2. /\ run' = run /\ reader' = reader /\ run.request \in Requests
        /\ devices' = devices /\ accepted' = accepted
    BY <1>1, HostWorks DEF Respond, CrashInResponse
  <1>3. host.at = "respond" /\ host.mode # "panel" /\ host.mode = run.request.mode
        /\ ResultInv
    BY DEF Respond, CrashInResponse, HostInv, Prepared
  <1>4. PICK noise \in Seq(FieldSet) : noise = reader.bytes \o stdout
    <2>1. reader.bytes \in Seq(FieldSet) /\ stdout \in Seq(FieldSet)
      BY DEF Heard
    <2>2. reader.bytes \o stdout \in Seq(FieldSet)
      BY <2>1
    <2>3. QED  BY <2>2
  <1>5. reader.bytes \in Seq(FieldSet) /\ stdout \in Seq(FieldSet) /\ OnlyNoise(noise)
    BY <1>3, <1>4 DEF Heard
  <1>6. Response # NoMessage
    <2>1. CASE Respond
      BY <2>1 DEF Respond
    <2>2. CASE CrashInResponse
      BY <2>2 DEF CrashInResponse, NoMessage
    <2>3. QED  BY <2>1, <2>2
  <1>7. /\ Response \in Seq(FieldSet) /\ Honest(noise \o Response)
        /\ SubSeq(Response, 1, Len(Response) - 1) \in Seq(FieldSet)
        /\ Honest(noise \o SubSeq(Response, 1, Len(Response) - 1))
    BY <1>2, <1>3, <1>5, <1>6, ResponseHonest
  <1>8. PICK s \in Seq(FieldSet) : stdout' = stdout \o s /\ Honest(noise \o s)
    BY <1>7 DEF Respond, CrashInResponse
  <1>9. PICK all : all = reader'.bytes \o stdout'
    OBVIOUS
  <1>10. all = noise \o s
    <2>1. PICK a \in Seq(FieldSet), b \in Seq(FieldSet) : a = reader.bytes /\ b = stdout
      BY <1>5
    <2>2. (a \o b) \o s = a \o (b \o s)
      BY ConcatAssociative
    <2>3. QED  BY <1>2, <1>4, <1>8, <1>9, <2>1, <2>2
  <1>11. stdout' \in Seq(FieldSet)
    BY <1>5, <1>8
  <1>12. Honest(all)'
    BY <1>2, <1>8, <1>10, StaysHonest
  <1>13. host'.at \in {"flush", "dead"}
    BY <1>3 DEF Respond, CrashInResponse, Become, HostInv, Prepared, Dead
  <1>14. QED  BY <1>2, <1>5, <1>9, <1>11, <1>12, <1>13 DEF Heard

LEMMA HostPrints ==
    ASSUME RunInv, HostInv, Heard, DriverPrints
    PROVE  Heard'
  <1>1. HostProcess
    BY DEF HostProcess
  <1>2. run' = run /\ reader' = reader /\ host' = host
        /\ host.at \in {"query", "shown"} /\ reader.bytes = <<>>
    BY <1>1, HostWorks DEF DriverPrints
  <1>3. PICK length \in Nat : stdout' = [i \in 1 .. length |-> Noise]
    BY DEF DriverPrints, kAsioProbeMaxFields
  <1>4. stdout' \in Seq(FieldSet)
    BY <1>3, FieldsTyped
  <1>5. reader'.bytes \o stdout' = stdout'
    BY <1>2, <1>4
  <1>6. PICK s : s = stdout'
    OBVIOUS
  <1>7. OnlyNoise(s)
    BY <1>3, <1>6 DEF OnlyNoise
  <1>8. reader'.bytes \in Seq(FieldSet)
    BY <1>2
  <1>9. QED  BY <1>2, <1>4, <1>5, <1>6, <1>7, <1>8 DEF Heard, OnlyNoise

LEMMA HostStream ==
    ASSUME TypesInv, RunInv, HostInv, StreamInv, HostProcess
    PROVE  StreamInv'
  <1>1. /\ run.at = "wait" /\ host.at \in {"read"} \union Prepared
        /\ run' = run /\ reader' = reader
    BY HostWorks
  <1>2. host'.at \in {"dead"} \union Prepared
    BY HostGoesTo
  <1>3. Listening => Heard'
    <2>1. SUFFICES ASSUME Listening PROVE Heard'
      OBVIOUS
    <2>2. Heard /\ run.request.mode # "panel"
      BY <2>1 DEF StreamInv, Listening
    <2>3. CASE stdout' = stdout
      BY <2>2, <2>3, HostSilent
    <2>4. CASE stdout' # stdout
      <3>1. Respond \/ CrashInResponse \/ DriverPrints
        BY <2>4 DEF HostProcess, ReadRequest, PrepareHost, OpenDriver, QueryDriver,
           CreateValidationBuffers, ShowPanel, ChangeDevice, ClosePanel, FinishDriver,
           ExitHost, Crash
      <3>2. QED  BY <2>2, <2>4, <3>1, HostAnswers, HostPrints
    <2>5. QED  BY <2>3, <2>4
  <1>4. Listening' <=> Listening
    BY <1>1 DEF Listening
  <1>5. reader.at # "done"
    BY <1>1 DEF StreamInv, Prepared
  <1>6. QED  BY <1>1, <1>2, <1>3, <1>4, <1>5 DEF StreamInv, Prepared

-----------------------------------------------------------------------------
(* The steps of Run, and of the reader.                                    *)
LEMMA RunShape ==
    ASSUME RunInv, run.at # "none"
    PROVE  /\ \A at, status :
                 [run EXCEPT !.at = at, !.status = status] =
                    [at |-> at, status |-> status, request |-> run.request,
                     bytes |-> run.bytes, exit |-> run.exit]
           /\ \A at :
                 [run EXCEPT !.at = at] =
                    [at |-> at, status |-> run.status, request |-> run.request,
                     bytes |-> run.bytes, exit |-> run.exit]
           /\ run.request \in Requests
  <1>1. PICK r : r = run
    OBVIOUS
  <1>2. r = [at |-> r.at, status |-> r.status, request |-> r.request,
             bytes |-> r.bytes, exit |-> r.exit] /\ r.request \in Requests
    BY <1>1 DEF RunInv
  <1>3. ASSUME NEW at, NEW status
        PROVE  /\ [r EXCEPT !.at = at, !.status = status] =
                    [at |-> at, status |-> status, request |-> r.request,
                     bytes |-> r.bytes, exit |-> r.exit]
               /\ [r EXCEPT !.at = at] =
                    [at |-> at, status |-> r.status, request |-> r.request,
                     bytes |-> r.bytes, exit |-> r.exit]
    <2>1. PICK a, b, c, d, e : /\ a = r.at /\ b = r.status /\ c = r.request
                               /\ d = r.bytes /\ e = r.exit
      OBVIOUS
    <2>2. r = [at |-> a, status |-> b, request |-> c, bytes |-> d, exit |-> e]
      BY <1>2, <2>1
    <2>3. [r EXCEPT !.at = at] =
             [at |-> at, status |-> b, request |-> c, bytes |-> d, exit |-> e]
      BY <2>2
    <2>4. [r EXCEPT !.at = at, !.status = status] =
             [at |-> at, status |-> status, request |-> c, bytes |-> d, exit |-> e]
      <3>1. PICK w : w = [r EXCEPT !.at = at, !.status = status]
        OBVIOUS
      <3>2. w = [at |-> at, status |-> status, request |-> c, bytes |-> d, exit |-> e]
        BY <2>2, <3>1
      <3>3. QED  BY <3>1, <3>2
    <2>5. QED  BY <2>1, <2>3, <2>4
  <1>4. QED  BY <1>1, <1>2, <1>3

LEMMA KillKeeps ==
    ASSUME RunInv, HostInv, StreamInv, run.at \in {"reader", "resume", "write", "wait"},
           NEW status, status # "exited", Kill(status), accepted' = accepted, devices' = devices
    PROVE  RunInv' /\ HostInv' /\ StreamInv' /\ run'.at = "killed"
           /\ run'.request = run.request
  <1>1. run' = [at |-> "killed", status |-> status, request |-> run.request,
                bytes |-> run.bytes, exit |-> run.exit] /\ run.request \in Requests
    BY RunShape DEF Kill
  <1>2. host' = Dead(1)
    BY DEF Kill, RunInv
  <1>3. HostInv'
    BY <1>2, HostGone
  <1>4. RunInv'
    BY <1>1, <1>2 DEF RunInv, RunPhases, Dead
  <1>5. stdout' = <<>> /\ reader' = [at |-> reader.at, bytes |-> <<>>, overflow |-> FALSE]
    BY DEF Kill, StreamInv
  <1>6. StreamInv'
    BY <1>1, <1>2, <1>5 DEF StreamInv, Listening, Dead
  <1>7. QED  BY <1>1, <1>3, <1>4, <1>6

(* A run goes on with a process that says nothing.                         *)
LEMMA CreateKeeps ==
    ASSUME RunInv, HostInv, StreamInv, CreateHost
    PROVE  RunInv' /\ HostInv' /\ StreamInv'
  <1>1. run.at = "create" /\ host.at = "none" /\ stdout = <<>> /\ reader.bytes = <<>>
        /\ devices' = devices /\ accepted' = accepted
    BY DEF CreateHost, RunInv, StreamInv, ToolStep
  <1>2. CASE Returns("create_failed") /\ UNCHANGED <<host, stdin, reader, job, stdout>>
    <2>1. run' = [at |-> "returned", status |-> "create_failed", request |-> run.request,
                  bytes |-> run.bytes, exit |-> run.exit] /\ run.request \in Requests
      BY <1>1, <1>2, RunShape DEF Returns
    <2>2. RunInv'
      BY <1>1, <1>2, <2>1 DEF RunInv, RunPhases
    <2>3. HostInv'
      BY <1>1, <1>2 DEF HostInv, Prepared
    <2>4. StreamInv'
      BY <1>1, <1>2, <2>1 DEF StreamInv, Listening
    <2>5. QED  BY <2>2, <2>3, <2>4
  <1>3. CASE /\ host' = [at |-> "suspended", mode |-> run.request.mode]
             /\ stdin' = [bytes |-> <<>>, closed |-> FALSE] /\ reader' = NoReader
             /\ Goes("job")
    <2>1. run' = [at |-> "job", status |-> run.status, request |-> run.request,
                  bytes |-> run.bytes, exit |-> run.exit] /\ run.request \in Requests
          /\ stdout' = stdout
      BY <1>1, <1>3, RunShape DEF Goes
    <2>2. RunInv'
      BY <1>1, <1>3, <2>1 DEF RunInv, RunPhases
    <2>3. HostInv'
      BY <1>1, <1>3, <2>1 DEF HostInv, Prepared
    <2>4. run.status # "exited"
      BY <1>1 DEF StreamInv
    <2>5. StreamInv'
      BY <1>1, <1>3, <2>1, <2>4 DEF StreamInv, Listening, NoReader
    <2>6. QED  BY <2>2, <2>3, <2>5
  <1>4. QED  BY <1>2, <1>3 DEF CreateHost

LEMMA AssignKeeps ==
    ASSUME RunInv, HostInv, StreamInv, AssignJob
    PROVE  RunInv' /\ HostInv' /\ StreamInv'
  <1>1. /\ run.at = "job" /\ host.at = "suspended" /\ stdout = <<>> /\ reader.bytes = <<>>
        /\ ~stdin.closed /\ run.status # "exited"
        /\ UNCHANGED <<stdin, stdout, reader, devices, accepted>>
        /\ host = [at |-> "suspended", mode |-> run.request.mode]
    BY DEF AssignJob, RunInv, StreamInv, HostInv, ToolStep
  <1>2. CASE job' = TRUE /\ run' = [run EXCEPT !.at = "reader"] /\ UNCHANGED host
    <2>1. run' = [at |-> "reader", status |-> run.status, request |-> run.request,
                  bytes |-> run.bytes, exit |-> run.exit] /\ run.request \in Requests
      BY <1>1, <1>2, RunShape
    <2>2. RunInv'
      BY <1>1, <1>2, <2>1 DEF RunInv, RunPhases
    <2>3. HostInv'
      BY <1>1, <1>2, <2>1 DEF HostInv, Prepared
    <2>4. StreamInv'
      BY <1>1, <1>2, <2>1 DEF StreamInv, Listening
    <2>5. QED  BY <2>2, <2>3, <2>4
  <1>3. CASE host' = Dead(1) /\ Returns("job_failed")
    <2>1. run' = [at |-> "returned", status |-> "job_failed", request |-> run.request,
                  bytes |-> run.bytes, exit |-> run.exit] /\ run.request \in Requests
      BY <1>1, <1>3, RunShape DEF Returns
    <2>2. RunInv'
      BY <1>1, <1>3, <2>1 DEF RunInv, RunPhases, Dead
    <2>3. HostInv'
      BY <1>3, HostGone
    <2>4. StreamInv'
      BY <1>1, <1>3, <2>1 DEF StreamInv, Listening, Dead
    <2>5. QED  BY <2>2, <2>3, <2>4
  <1>4. QED  BY <1>2, <1>3 DEF AssignJob

LEMMA StartKeeps ==
    ASSUME RunInv, HostInv, StreamInv, StartReader \/ ResumeHost
    PROVE  RunInv' /\ HostInv' /\ StreamInv'
  <1>1. /\ run.at \in {"reader", "resume"} /\ host.at = "suspended"
        /\ stdout = <<>> /\ reader.bytes = <<>>
        /\ ~stdin.closed /\ run.status # "exited" /\ job
        /\ UNCHANGED <<stdin, devices, accepted>>
        /\ host = [at |-> "suspended", mode |-> run.request.mode]
        /\ reader = [at |-> reader.at, bytes |-> reader.bytes, overflow |-> reader.overflow]
    BY DEF StartReader, ResumeHost, RunInv, StreamInv, HostInv, ToolStep
  <1>2. CASE \E status \in {"io_failed", "create_failed"} : Kill(status)
    BY <1>1, <1>2, KillKeeps
  <1>3. CASE /\ reader' = [reader EXCEPT !.at = "draining"] /\ Goes("resume")
             /\ UNCHANGED host
    <2>1. run' = [at |-> "resume", status |-> run.status, request |-> run.request,
                  bytes |-> run.bytes, exit |-> run.exit] /\ run.request \in Requests
          /\ stdout' = stdout /\ job' = job
          /\ reader' = [at |-> "draining", bytes |-> reader.bytes, overflow |-> reader.overflow]
      BY <1>1, <1>3, RunShape DEF Goes
    <2>2. RunInv'
      BY <1>1, <1>3, <2>1 DEF RunInv, RunPhases
    <2>3. HostInv'
      BY <1>1, <1>3, <2>1 DEF HostInv, Prepared
    <2>4. StreamInv'
      BY <1>1, <1>3, <2>1 DEF StreamInv, Listening
    <2>5. QED  BY <2>2, <2>3, <2>4
  <1>4. CASE /\ run.at = "resume" /\ host' = [host EXCEPT !.at = "read"] /\ Goes("write")
             /\ UNCHANGED reader
    <2>1. run' = [at |-> "write", status |-> run.status, request |-> run.request,
                  bytes |-> run.bytes, exit |-> run.exit] /\ run.request \in Requests
          /\ stdout' = stdout /\ job' = job /\ host' = [at |-> "read", mode |-> run.request.mode]
      BY <1>1, <1>4, RunShape DEF Goes
    <2>2. RunInv'
      BY <1>1, <2>1 DEF RunInv, RunPhases
    <2>3. HostInv'
      BY <1>1, <2>1 DEF HostInv, Prepared
    <2>4. reader.at # "done"
      BY <1>1 DEF StreamInv
    <2>5. StreamInv'
      BY <1>1, <1>4, <2>1, <2>4 DEF StreamInv, Listening
    <2>6. QED  BY <2>2, <2>3, <2>5
  <1>5. QED  BY <1>2, <1>3, <1>4 DEF StartReader, ResumeHost

LEMMA WriteKeeps ==
    ASSUME RunInv, HostInv, StreamInv, WriteRequest
    PROVE  RunInv' /\ HostInv' /\ StreamInv'
  <1>1. /\ run.at = "write" /\ run.status # "exited" /\ job
        /\ UNCHANGED <<devices, accepted>>
    BY DEF WriteRequest, RunInv, StreamInv, ToolStep
  <1>2. CASE Kill("io_failed")
    BY <1>1, <1>2, KillKeeps
  <1>3. CASE /\ stdin' = [bytes |-> IF run.request.mode = "panel"
                                    THEN EncodeAsioControlPanelRequest(run.request)
                                    ELSE EncodeAsioProbeRequest(run.request),
                          closed |-> TRUE]
             /\ Goes("wait") /\ UNCHANGED <<host, reader>>
    <2>1. run' = [at |-> "wait", status |-> run.status, request |-> run.request,
                  bytes |-> run.bytes, exit |-> run.exit] /\ run.request \in Requests
          /\ stdout' = stdout /\ job' = job
      BY <1>1, <1>3, RunShape DEF Goes
    <2>2. run'.request.mode # "panel" => stdin'.bytes = EncodeAsioProbeRequest(run'.request)
      BY <1>3, <2>1
    <2>3. RunInv'
      BY <1>1, <2>1, <2>2 DEF RunInv, RunPhases
    <2>4. host.at = "read"
      BY <1>1 DEF RunInv
    <2>5. HostInv'
      BY <1>1, <1>3, <2>1, <2>4 DEF HostInv, Prepared
    <2>6. stdout = <<>> /\ reader.bytes = <<>>
      BY <2>4 DEF StreamInv
    <2>7. Heard'
      BY <1>3, <2>1, <2>4, <2>6 DEF Heard, OnlyNoise
    <2>8. StreamInv'
      BY <1>1, <1>3, <2>1, <2>4, <2>6, <2>7 DEF StreamInv
    <2>9. QED  BY <2>3, <2>5, <2>8
  <1>4. QED  BY <1>2, <1>3 DEF WriteRequest

LEMMA WaitKeeps ==
    ASSUME RunInv, HostInv, StreamInv,
           HostExited \/ TimesOut \/ IsCancelled \/ WaitFails
    PROVE  RunInv' /\ HostInv' /\ StreamInv'
  <1>1. run.at = "wait" /\ run.status # "exited" /\ UNCHANGED <<devices, accepted>>
    BY DEF HostExited, TimesOut, IsCancelled, WaitFails, StreamInv, ToolStep
  <1>2. CASE \E status \in {"timed_out", "cancelled", "io_failed"} : Kill(status)
    BY <1>1, <1>2, KillKeeps
  <1>3. CASE HostExited
    <2>1. /\ host.at = "dead" /\ UNCHANGED <<host, stdin, reader, job, stdout>>
          /\ run' = [at |-> "collect", status |-> run.status, request |-> run.request,
                     bytes |-> run.bytes, exit |-> run.exit] /\ run.request \in Requests
      BY <1>1, <1>3, RunShape DEF HostExited, Goes
    <2>2. RunInv'
      BY <1>1, <2>1 DEF RunInv, RunPhases
    <2>3. HostInv'
      BY <2>1 DEF HostInv, Prepared
    <2>4. Listening' => Listening
      BY <1>1, <2>1 DEF Listening
    <2>5. Listening => Heard'
      <3>1. SUFFICES ASSUME Listening PROVE Heard'
        OBVIOUS
      <3>2. Heard
        BY <3>1 DEF StreamInv
      <3>3. PICK s : s = reader.bytes \o stdout
        OBVIOUS
      <3>4. Honest(s)
        BY <2>1, <3>2, <3>3 DEF Heard
      <3>5. Honest(s)'
        BY <1>1, <2>1, <3>4, StaysHonest
      <3>6. s = reader'.bytes \o stdout'
        BY <2>1, <3>3
      <3>7. QED  BY <2>1, <3>2, <3>5, <3>6 DEF Heard
    <2>6. StreamInv'
      BY <1>1, <2>1, <2>4, <2>5 DEF StreamInv
    <2>7. QED  BY <2>2, <2>3, <2>6
  <1>4. QED  BY <1>2, <1>3 DEF TimesOut, IsCancelled, WaitFails

LEMMA ReturnKeeps ==
    ASSUME RunInv, HostInv, StreamInv, AfterKill \/ CollectOutput
    PROVE  RunInv' /\ HostInv' /\ StreamInv'
  <1>1. /\ run.at \in {"killed", "collect"} /\ run.status # "exited"
        /\ UNCHANGED <<devices, accepted, host, stdin, stdout, reader>> /\ host.at = "dead"
    BY DEF AfterKill, CollectOutput, StreamInv, ToolStep, Goes, RunInv
  <1>2. HostInv'
    BY <1>1 DEF HostInv, Prepared
  <1>3. CASE AfterKill
    <2>1. run' = [at |-> "returned", status |-> run.status, request |-> run.request,
                  bytes |-> run.bytes, exit |-> run.exit] /\ run.request \in Requests
      BY <1>1, <1>3, RunShape DEF AfterKill, Goes
    <2>2. RunInv'
      BY <1>1, <2>1 DEF RunInv, RunPhases
    <2>3. StreamInv'
      BY <1>1, <2>1 DEF StreamInv, Listening
    <2>4. QED  BY <1>2, <2>2, <2>3
  <1>4. CASE CollectOutput
    <2>1. PICK status : status = CASE reader.at = "failed" -> "io_failed"
                                   [] reader.overflow      -> "output_too_large"
                                   [] OTHER                -> "exited"
      OBVIOUS
    <2>2. run' = [at |-> "returned", status |-> status, request |-> run.request,
                  bytes |-> reader.bytes, exit |-> host.exit] /\ run.request \in Requests
      <3>1. run.at # "none"
        BY <1>1
      <3>2. run' = [run EXCEPT !.at = "returned", !.exit = host.exit, !.bytes = reader.bytes,
                       !.status = status]
        BY <1>4, <2>1 DEF CollectOutput
      <3>3. PICK a, b, c, d, e :
                /\ run = [at |-> a, status |-> b, request |-> c, bytes |-> d, exit |-> e]
                /\ c = run.request
        BY <3>1 DEF RunInv
      <3>4. QED  BY <3>1, <3>2, <3>3 DEF RunInv
    <2>3. RunInv'
      BY <1>1, <2>2 DEF RunInv, RunPhases
    <2>4. status = "exited" /\ run.request.mode # "panel" => Honest(reader.bytes)'
      <3>1. SUFFICES ASSUME status = "exited", run.request.mode # "panel"
                     PROVE  Honest(reader.bytes)'
        OBVIOUS
      <3>2. reader.at = "done" /\ ~reader.overflow /\ run.at = "collect"
        <4>1. reader.at \in {"done", "failed"} /\ run.at = "collect"
          BY <1>4 DEF CollectOutput
        <4>2. QED  BY <2>1, <3>1, <4>1
      <3>3. Heard /\ stdout = <<>>
        BY <3>1, <3>2 DEF StreamInv, Listening
      <3>4. PICK s : s = reader.bytes
        OBVIOUS
      <3>5. reader.bytes \o stdout = s
        BY <3>3, <3>4 DEF Heard
      <3>6. Honest(s)
        BY <1>1, <3>3, <3>5 DEF Heard
      <3>7. Honest(s)'
        BY <1>1, <2>2, <3>6, StaysHonest
      <3>8. s = reader'.bytes
        BY <1>1, <3>4
      <3>9. QED  BY <3>7, <3>8 DEF Honest
    <2>5. status = "exited" /\ run'.request.mode # "panel" => Honest(run.bytes)'
      BY <1>1, <2>2, <2>4 DEF Honest
    <2>6. StreamInv'
      BY <1>1, <2>2, <2>5 DEF StreamInv, Listening
    <2>7. QED  BY <1>2, <2>3, <2>6
  <1>5. QED  BY <1>3, <1>4

LEMMA ProcessKeeps ==
    ASSUME RunInv, HostInv, StreamInv, ProcessStep
    PROVE  RunInv' /\ HostInv' /\ StreamInv'
  BY CreateKeeps, AssignKeeps, StartKeeps, WriteKeeps, WaitKeeps, ReturnKeeps
     DEF ProcessStep, RunStep

(* The reader hears what is written, in order.                             *)
LEMMA ReaderKeeps ==
    ASSUME RunInv, HostInv, StreamInv, ReaderStep
    PROVE  RunInv' /\ HostInv' /\ StreamInv'
  <1>1. UNCHANGED <<devices, host, stdin, job, cancel, run, accepted>>
        /\ reader.at = "draining"
    BY DEF ReaderStep, Drain, EndOfOutput, ReaderFails
  <1>2. RunInv'
    BY <1>1 DEF RunInv
  <1>3. HostInv'
    <2>1. ResultInv => ResultInv'
      BY <1>1 DEF ResultInv, Report, Triple
    <2>2. QED  BY <1>1, <2>1 DEF HostInv, Prepared, Triple
  <1>4. reader = [at |-> reader.at, bytes |-> reader.bytes, overflow |-> reader.overflow]
    BY DEF StreamInv
  <1>5. ASSUME NEW bytes, Honest(bytes)  PROVE Honest(bytes)'
    BY <1>1, <1>5, StaysHonest
  <1>6. Honest(run.bytes) => Honest(run.bytes)'
    BY <1>1 DEF Honest, Report, Triple
  <1>7. CASE Drain
    <2>1. stdout # <<>> /\ stdout' = <<>>
      BY <1>7 DEF Drain
    <2>2. PICK bytes, overflow : reader' = [at |-> "draining", bytes |-> bytes,
                                            overflow |-> overflow]
                /\ (~overflow => ~reader.overflow /\ bytes = reader.bytes \o stdout)
      BY <1>1, <1>4, <1>7 DEF Drain
    <2>3. host.at \notin {"none", "suspended", "read"}
      BY <2>1 DEF StreamInv
    <2>4. Listening' => Heard'
      <3>1. SUFFICES ASSUME Listening' PROVE Heard'
        OBVIOUS
      <3>2. ~overflow /\ Listening
        BY <1>1, <2>2, <3>1 DEF Listening
      <3>3. Heard /\ bytes = reader.bytes \o stdout
        BY <2>2, <3>2 DEF StreamInv
      <3>4. bytes \in Seq(FieldSet)
        <4>1. reader.bytes \in Seq(FieldSet) /\ stdout \in Seq(FieldSet)
          BY <3>3 DEF Heard
        <4>2. QED  BY <3>3, <4>1
      <3>5. reader'.bytes \o stdout' = bytes /\ reader'.bytes = bytes
        BY <2>1, <2>2, <3>4
      <3>6. host.at \in {"flush", "dead"} => Honest(bytes)'
        BY <1>5, <3>3 DEF Heard
      <3>7. host.at \notin {"flush", "dead"} => OnlyNoise(bytes)
        BY <3>3 DEF Heard
      <3>8. QED  BY <1>1, <2>1, <3>4, <3>5, <3>6, <3>7 DEF Heard
    <2>5. StreamInv'
      BY <1>1, <1>6, <2>1, <2>2, <2>3, <2>4 DEF StreamInv
    <2>6. QED  BY <1>2, <1>3, <2>5
  <1>8. CASE EndOfOutput
    <2>1. stdout' = stdout /\ stdout = <<>> /\ host.at = "dead"
          /\ reader' = [at |-> "done", bytes |-> reader.bytes, overflow |-> reader.overflow]
      BY <1>4, <1>8 DEF EndOfOutput
    <2>2. Listening' => Heard'
      <3>1. SUFFICES ASSUME Listening' PROVE Heard'
        OBVIOUS
      <3>2. Listening
        BY <1>1, <2>1, <3>1 DEF Listening
      <3>3. Heard
        BY <3>2 DEF StreamInv
      <3>4. PICK s : s = reader.bytes \o stdout
        OBVIOUS
      <3>5. Honest(s)'
        BY <1>5, <2>1, <3>3, <3>4 DEF Heard
      <3>6. s = reader'.bytes \o stdout' /\ reader'.bytes = reader.bytes
        BY <2>1, <3>4
      <3>7. QED  BY <1>1, <2>1, <3>3, <3>5, <3>6 DEF Heard
    <2>3. StreamInv'
      BY <1>1, <1>6, <2>1, <2>2 DEF StreamInv
    <2>4. QED  BY <1>2, <1>3, <2>3
  <1>9. CASE ReaderFails
    <2>1. stdout' = stdout
          /\ reader' = [at |-> "failed", bytes |-> <<>>, overflow |-> FALSE]
      BY <1>9 DEF ReaderFails
    <2>2. StreamInv'
      BY <1>1, <1>6, <2>1 DEF StreamInv, Listening
    <2>3. QED  BY <1>2, <1>3, <2>2
  <1>10. QED  BY <1>7, <1>8, <1>9 DEF ReaderStep

LEMMA RunGoesOn ==
    ASSUME RunInv, ProcessStep
    PROVE  run.at # "none" /\ run'.at # "none" /\ run'.request = run.request
  <1>1. run.at # "none" /\ run.at # "returned"
    BY DEF ProcessStep, RunStep, CreateHost, AssignJob, StartReader, ResumeHost,
           WriteRequest, HostExited, TimesOut, IsCancelled, WaitFails, AfterKill,
           CollectOutput
  <1>2. PICK a, b, c, d, e :
            /\ run = [at |-> a, status |-> b, request |-> c, bytes |-> d, exit |-> e]
            /\ c = run.request
    BY <1>1 DEF RunInv
  <1>3. CASE CollectOutput
    BY <1>2, <1>3 DEF CollectOutput
  <1>4. CASE ~CollectOutput
    <2>1. \/ \E at \in RunPhases \ {"none"} : run' = [run EXCEPT !.at = at]
          \/ \E at \in RunPhases \ {"none"} : \E status :
                 run' = [run EXCEPT !.at = at, !.status = status]
      BY <1>4 DEF ProcessStep, RunStep, CreateHost, AssignJob, StartReader, ResumeHost,
           WriteRequest, HostExited, TimesOut, IsCancelled, WaitFails, AfterKill,
           Goes, Kill, Returns, RunPhases
    <2>2. CASE \E at \in RunPhases \ {"none"} : run' = [run EXCEPT !.at = at]
      <3>1. PICK at \in RunPhases \ {"none"} : run' = [run EXCEPT !.at = at]
        BY <2>2
      <3>2. run' = [at |-> at, status |-> b, request |-> c, bytes |-> d, exit |-> e]
        BY <1>2, <3>1
      <3>3. QED  BY <1>1, <1>2, <3>2
    <2>3. CASE \E at \in RunPhases \ {"none"} : \E status :
                   run' = [run EXCEPT !.at = at, !.status = status]
      <3>1. PICK at \in RunPhases \ {"none"} : \E status :
                run' = [run EXCEPT !.at = at, !.status = status]
        BY <2>3
      <3>2. PICK status : run' = [run EXCEPT !.at = at, !.status = status]
        BY <3>1
      <3>3. run' = [at |-> at, status |-> status, request |-> c, bytes |-> d, exit |-> e]
        BY <1>2, <3>2
      <3>4. QED  BY <1>1, <1>2, <3>3
    <2>4. QED  BY <2>1, <2>2, <2>3
  <1>5. QED  BY <1>3, <1>4

-----------------------------------------------------------------------------
(* The page and the process it starts.                                     *)
LEMMA QuietProcess ==
    ASSUME ProcessInv, UNCHANGED <<devices, host, stdin, stdout, reader, job, run, accepted>>
    PROVE  ProcessInv'
  <1>1. RunInv'
    BY DEF ProcessInv, RunInv
  <1>2. HostInv'
    <2>1. ResultInv => ResultInv'
      BY DEF ResultInv, Report, Triple
    <2>2. QED  BY <2>1 DEF ProcessInv, HostInv, Prepared, Triple
  <1>3. StreamInv'
    <2>1. ASSUME NEW bytes, Honest(bytes)  PROVE Honest(bytes)'
      BY <2>1, StaysHonest
    <2>2. Honest(run.bytes) => Honest(run.bytes)'
      BY DEF Honest, Report, Triple
    <2>3. Heard => Heard'
      <3>1. PICK s : s = reader.bytes \o stdout
        OBVIOUS
      <3>2. Honest(s) => Honest(s)'
        BY <2>1
      <3>3. s = reader'.bytes \o stdout'
        BY <3>1
      <3>4. QED  BY <3>1, <3>2, <3>3 DEF Heard, OnlyNoise
    <2>4. QED  BY <2>2, <2>3 DEF ProcessInv, StreamInv, Listening
  <1>4. QED  BY <1>1, <1>2, <1>3 DEF ProcessInv

LEMMA BeginKeeps ==
    ASSUME ProcessInv, run.at = "none", NEW request \in Requests, BeginRun(request),
           HostUntouched
    PROVE  ProcessInv' /\ run'.at = "create" /\ run'.request = request
           /\ devices' = devices /\ accepted' = accepted
  <1>1. host.at = "none"
    BY DEF ProcessInv, RunInv
  <1>2. run' = [at |-> "create", status |-> "none", request |-> request,
                bytes |-> <<>>, exit |-> 0]
        /\ UNCHANGED <<devices, host, stdin, stdout, reader, job, accepted>>
    BY DEF BeginRun, HostUntouched
  <1>3. RunInv'
    BY <1>1, <1>2 DEF RunInv, RunPhases
  <1>4. HostInv'
    BY <1>1, <1>2 DEF HostInv, Prepared
  <1>5. StreamInv'
    BY <1>1, <1>2 DEF ProcessInv, StreamInv, Listening
  <1>6. QED  BY <1>2, <1>3, <1>4, <1>5 DEF ProcessInv

LEMMA CloseKeeps ==
    ASSUME ProcessInv, CloseHandles
    PROVE  ProcessInv' /\ run'.at = "none" /\ devices' = devices /\ accepted' = accepted
  <1>1. /\ run.at = "returned" /\ run' = [at |-> "none"]
        /\ host' = (IF HostAlive THEN host ELSE NoHost)
        /\ stdout' = <<>> /\ reader' = [at |-> "none", bytes |-> <<>>, overflow |-> FALSE]
        /\ UNCHANGED <<devices, accepted>>
    BY DEF CloseHandles, AtRestRun, NoReader
  <1>2. host' = [at |-> "none"]
    BY <1>1 DEF ProcessInv, RunInv, HostAlive, NoHost
  <1>3. RunInv'
    BY <1>1, <1>2 DEF RunInv, RunPhases
  <1>4. HostInv'
    BY <1>2 DEF HostInv, Prepared
  <1>5. StreamInv'
    BY <1>1, <1>2 DEF StreamInv, Listening
  <1>6. QED  BY <1>1, <1>3, <1>4, <1>5 DEF ProcessInv

LEMMA Whole ==
    ASSUME EditorInv', ProcessInv', InspectionCurrent', SavedWasAccepted'
    PROVE  ToolInv'
  BY DEF ToolInv, ProcessInv, RunInv, ToolTruthful, NoOrphan, HostAlive

(* The documents of the page, and what is asked about them.                *)
LEMMA RequestFor ==
    ASSUME NEW mode \in Modes, NEW document \in Documents
    PROVE  /\ Request(mode, document) \in Requests
           /\ Request(mode, document).mode = mode
           /\ Request(mode, document).driver = document.driver
           /\ Request(mode, document).frames = document.frames
           /\ Request(mode, document).base = document.base
           /\ Triple(Request(mode, document)) = Triple(document)
  BY DEF Request, Documents, Requests, Triple

(* What the page says stays true while the process goes on, as long as no  *)
(* panel changes the device.                                               *)
LEMMA QuietEditor ==
    ASSUME EditorInv, InspectionCurrent, SavedWasAccepted, UNCHANGED editorVars,
           devices' = devices, accepted \subseteq accepted',
           run'.at = "none" <=> run.at = "none",
           run.at # "none" => run'.request = run.request
    PROVE  EditorInv' /\ InspectionCurrent' /\ SavedWasAccepted'
  <1>1. UNCHANGED <<tool, config, dirty, inspection, operation, worker, file>>
    BY DEF editorVars
  <1>2. TypesInv'
    BY <1>1 DEF EditorInv, TypesInv
  <1>3. WorkerInv'
    BY <1>1 DEF EditorInv, WorkerInv, Completed, OnAsioPage
  <1>4. InspectionInv'
    BY <1>1 DEF EditorInv, WorkerInv, InspectionInv, Report
  <1>5. PanelInv'
    BY <1>1 DEF EditorInv, WorkerInv, PanelInv
  <1>6. SaveInv'
    BY <1>1 DEF EditorInv, WorkerInv, SaveInv
  <1>7. InspectionCurrent'
    BY <1>1 DEF InspectionCurrent, Report, OnAsioPage
  <1>8. SavedWasAccepted'
    BY <1>1 DEF SavedWasAccepted
  <1>9. QED  BY <1>2, <1>3, <1>4, <1>5, <1>6, <1>7, <1>8 DEF EditorInv

(* A panel is shown while the page waits for it, and says nothing of an    *)
(* inspection.                                                             *)
LEMMA PanelEditor ==
    ASSUME ToolInv, ChangeDevice, UNCHANGED editorVars
    PROVE  EditorInv' /\ InspectionCurrent' /\ SavedWasAccepted'
  <1>1. /\ UNCHANGED <<tool, config, dirty, inspection, operation, worker, file>>
        /\ UNCHANGED <<run, accepted>> /\ host.at = "shown"
    BY DEF editorVars, ChangeDevice, HostStep
  <1>2. run.at = "wait" /\ run.request.mode = "panel"
    BY <1>1 DEF ToolInv, ProcessInv, HostInv, Prepared
  <1>3. worker.at \in {"running", "validate"} /\ operation # "idle"
    BY <1>2 DEF ToolInv, EditorInv, WorkerInv, NoWorker
  <1>4. config \in Documents /\ (operation = "save" => worker.document \in Documents)
    BY <1>3 DEF ToolInv, EditorInv, TypesInv, WorkerInv, Completed
  <1>5. operation = "control_panel"
    <2>1. operation # "inspection"
      <3>1. SUFFICES ASSUME operation = "inspection" PROVE FALSE
        OBVIOUS
      <3>2. run.request = Request("inspect", config)
        BY <1>3, <3>1 DEF ToolInv, EditorInv, WorkerInv, InspectionInv, Completed
      <3>3. QED  BY <1>2, <1>4, <3>2, RequestFor DEF Modes
    <2>2. operation # "save"
      <3>1. SUFFICES ASSUME operation = "save" PROVE FALSE
        OBVIOUS
      <3>2. run.request = Request("validate", worker.document)
        BY <1>3, <3>1 DEF ToolInv, EditorInv, WorkerInv, SaveInv, Completed
      <3>3. QED  BY <1>2, <1>4, <3>1, <3>2, RequestFor DEF Modes
    <2>3. QED  BY <1>3, <2>1, <2>2 DEF ToolInv, EditorInv, WorkerInv
  <1>6. TypesInv'
    <2>1. PICK preferred \in PreferredFrames, rate \in Rates :
              devices' = [devices EXCEPT ![host.request.driver] =
                            [preferred |-> preferred, rate |-> rate]]
      BY DEF ChangeDevice
    <2>2. devices' \in Devices
      BY <2>1 DEF ToolInv, EditorInv, TypesInv, Devices
    <2>3. QED  BY <1>1, <2>2 DEF ToolInv, EditorInv, TypesInv
  <1>7. WorkerInv' /\ InspectionInv' /\ PanelInv' /\ SaveInv'
    BY <1>1, <1>5 DEF ToolInv, EditorInv, WorkerInv, InspectionInv, PanelInv, SaveInv,
           Completed, OnAsioPage
  <1>8. InspectionCurrent'
    BY <1>1, <1>5 DEF ToolInv, EditorInv, PanelInv, InspectionCurrent
  <1>9. SavedWasAccepted'
    BY <1>1 DEF ToolInv, ToolTruthful, SavedWasAccepted
  <1>10. QED  BY <1>6, <1>7, <1>8, <1>9 DEF EditorInv

LEMMA OutsideKeeps ==
    ASSUME ToolInv, HostProcess \/ ProcessStep \/ ReaderStep, UNCHANGED editorVars
    PROVE  ToolInv'
  <1>1. ProcessInv'
    <2>1. TypesInv /\ RunInv /\ HostInv /\ StreamInv
      BY DEF ToolInv, ProcessInv, EditorInv
    <2>2. RunInv' /\ HostInv' /\ StreamInv'
      BY <2>1, HostRun, HostStepHost, HostStream, ProcessKeeps, ReaderKeeps
    <2>3. QED  BY <2>2 DEF ProcessInv
  <1>2. CASE ChangeDevice
    BY <1>1, <1>2, PanelEditor, Whole
  <1>3. CASE ~ChangeDevice
    <2>1. devices' = devices /\ accepted \subseteq accepted'
      BY <1>3 DEF HostProcess, ReadRequest, PrepareHost, OpenDriver, QueryDriver,
           CreateValidationBuffers, ShowPanel, ClosePanel, FinishDriver, Respond,
           ExitHost, Crash, CrashInResponse, DriverPrints, ProcessStep, RunStep,
           CreateHost, AssignJob, StartReader, ResumeHost, WriteRequest, HostExited,
           TimesOut, IsCancelled, WaitFails, AfterKill, CollectOutput, ToolStep,
           ReaderStep, Drain, EndOfOutput, ReaderFails
    <2>2. /\ run'.at = "none" <=> run.at = "none"
          /\ run.at # "none" => run'.request = run.request
      <3>1. CASE HostProcess
        BY <3>1, HostWorks DEF ToolInv, ProcessInv
      <3>2. CASE ReaderStep
        BY <3>2 DEF ReaderStep, Drain, EndOfOutput, ReaderFails
      <3>3. CASE ProcessStep
        BY <3>3, RunGoesOn DEF ToolInv, ProcessInv
      <3>4. QED  BY <3>1, <3>2, <3>3
    <2>3. EditorInv' /\ InspectionCurrent' /\ SavedWasAccepted'
      BY <2>1, <2>2, QuietEditor DEF ToolInv, ToolTruthful
    <2>4. QED  BY <1>1, <2>3, Whole
  <1>4. QED  BY <1>2, <1>3

-----------------------------------------------------------------------------
(* The page.                                                               *)
LEMMA DocumentWith ==
    ASSUME NEW document \in Documents
    PROVE  /\ \A x \in {"wasapi_exclusive", "asio"} :
                 [document EXCEPT !.backend = x] \in Documents
           /\ \A x \in Values : /\ [document EXCEPT !.driver = x] \in Documents
                                /\ [document EXCEPT !.frames = x] \in Documents
                                /\ [document EXCEPT !.base = x] \in Documents
  BY DEF Documents

(* An edit gives up the inspection.                                        *)
LEMMA SetKeeps ==
    ASSUME ToolInv, NEW document \in Documents, Set(document)
    PROVE  ToolInv'
  <1>1. /\ UNCHANGED <<tool, operation, worker, file, operations>>
        /\ UNCHANGED <<devices, host, stdin, stdout, reader, job, cancel, run, accepted>>
        /\ operation = "idle" /\ config' = document /\ dirty' = TRUE
        /\ inspection' = Uninspected
    BY DEF Set, Busy, Edit, hostVars
  <1>2. ProcessInv'
    BY <1>1, QuietProcess DEF ToolInv
  <1>3. EditorInv'
    BY <1>1 DEF ToolInv, EditorInv, TypesInv, WorkerInv, InspectionInv, PanelInv, SaveInv
  <1>4. InspectionCurrent'
    BY <1>1 DEF InspectionCurrent, Uninspected
  <1>5. SavedWasAccepted'
    BY <1>1 DEF ToolInv, ToolTruthful, SavedWasAccepted
  <1>6. QED  BY <1>2, <1>3, <1>4, <1>5, Whole

LEMMA SettersKeep ==
    ASSUME ToolInv, SetBackend \/ SetDriverName \/ SetBufferFrames \/ SetOutputBaseChannel
    PROVE  ToolInv'
  <1>1. config \in Documents
    BY DEF ToolInv, EditorInv, TypesInv
  <1>2. Names \subseteq Values /\ Frames \subseteq Values /\ Bases \subseteq Values
    BY DEF Values
  <1>3. PICK document \in Documents : Set(document)
    BY <1>1, <1>2, DocumentWith
       DEF SetBackend, SetDriverName, SetBufferFrames, SetOutputBaseChannel
  <1>4. QED  BY <1>3, SetKeeps

(* A captured binding is none of the driver's business.                    *)
LEMMA CaptureKeeps ==
    ASSUME ToolInv, ApplyCompletedCapture
    PROVE  ToolInv'
  <1>1. /\ UNCHANGED <<tool, operation, worker, file, operations, inspection>>
        /\ UNCHANGED <<devices, host, stdin, stdout, reader, job, cancel, run, accepted>>
        /\ dirty' = TRUE
    BY DEF ApplyCompletedCapture, Edit, hostVars
  <1>2. config \in Documents /\ config' = [config EXCEPT !.binding = 1 - @]
    BY DEF ToolInv, EditorInv, TypesInv, ApplyCompletedCapture
  <1>3. /\ config' \in Documents /\ config'.backend = config.backend
        /\ config'.driver = config.driver /\ config'.frames = config.frames
        /\ config'.base = config.base
    BY <1>2 DEF Documents
  <1>4. \A mode \in Modes : Request(mode, config)' = Request(mode, config)
    BY <1>3 DEF Request
  <1>5. ProcessInv'
    BY <1>1, QuietProcess DEF ToolInv
  <1>6. TypesInv' /\ WorkerInv' /\ PanelInv' /\ SaveInv'
    BY <1>1, <1>3 DEF ToolInv, EditorInv, TypesInv, WorkerInv, PanelInv, SaveInv,
           Completed, OnAsioPage
  <1>7. Request("inspect", config)' = Request("inspect", config)
    BY <1>4 DEF Modes
  <1>8. Report(Request("inspect", config))' = Report(Request("inspect", config))
    BY <1>1, <1>7 DEF Report
  <1>9. InspectionInv'
    BY <1>1, <1>3, <1>7, <1>8 DEF ToolInv, EditorInv, InspectionInv
  <1>10. InspectionCurrent'
    BY <1>1, <1>3, <1>8 DEF ToolInv, ToolTruthful, InspectionCurrent, OnAsioPage
  <1>11. SavedWasAccepted'
    BY <1>1 DEF ToolInv, ToolTruthful, SavedWasAccepted
  <1>12. QED  BY <1>5, <1>6, <1>9, <1>10, <1>11, Whole DEF EditorInv

(* The page asks for an inspection.                                        *)
LEMMA InspectKeeps ==
    ASSUME ToolInv, PressInspect
    PROVE  ToolInv'
  <1>1. operation = "idle" /\ OnAsioPage /\ Inspect /\ config \in Documents
        /\ worker = NoWorker /\ run.at = "none"
    BY DEF PressInspect, Busy, ToolInv, EditorInv, TypesInv, WorkerInv, NoWorker
  <1>2. SavedWasAccepted /\ TypesInv /\ ProcessInv
    BY DEF ToolInv, ToolTruthful, EditorInv
  <1>3. CASE StartFails /\ inspection' = [state |-> "failed", report |-> Failure("driver")]
    <2>1. /\ UNCHANGED <<tool, config, dirty, operation, worker, file>>
          /\ UNCHANGED <<devices, host, stdin, stdout, reader, job, cancel, run, accepted>>
          /\ inspection'.state = "failed"
      BY <1>3 DEF StartFails, hostVars
    <2>2. EditorInv'
      BY <1>1, <2>1 DEF ToolInv, EditorInv, TypesInv, WorkerInv, InspectionInv, PanelInv,
             SaveInv
    <2>3. InspectionCurrent' /\ SavedWasAccepted'
      BY <1>2, <2>1 DEF InspectionCurrent, SavedWasAccepted
    <2>4. QED  BY <1>2, <2>1, <2>2, <2>3, QuietProcess, Whole
  <1>4. CASE /\ inspection' = [state |-> "probing", report |-> Failure("driver")]
             /\ Starts("inspection", [at |-> "running"])
             /\ BeginRun(Request("inspect", config))
             /\ HostUntouched /\ UNCHANGED cancel
    <2>1. /\ UNCHANGED <<tool, config, dirty, file>> /\ operation' = "inspection"
          /\ worker' = [at |-> "running"] /\ inspection'.state = "probing"
      BY <1>4 DEF Starts
    <2>2. ProcessInv' /\ run'.at = "create" /\ run'.request = Request("inspect", config)
          /\ devices' = devices /\ accepted' = accepted
      BY <1>1, <1>2, <1>4, RequestFor, BeginKeeps DEF Modes
    <2>3. Request("inspect", config)' = Request("inspect", config)
      BY <2>1
    <2>4. EditorInv'
      BY <1>1, <1>2, <2>1, <2>2, <2>3 DEF EditorInv, TypesInv, WorkerInv, InspectionInv,
             PanelInv, SaveInv, OnAsioPage
    <2>5. InspectionCurrent' /\ SavedWasAccepted'
      BY <1>2, <2>1, <2>2 DEF InspectionCurrent, SavedWasAccepted
    <2>6. QED  BY <2>2, <2>4, <2>5, Whole
  <1>5. QED  BY <1>1, <1>3, <1>4 DEF Inspect

LEMMA PanelKeeps ==
    ASSUME ToolInv, PressControlPanel
    PROVE  ToolInv'
  <1>0. operation = "idle" /\ OnAsioPage /\ inspection' = Uninspected
    BY DEF PressControlPanel, Busy
  <1>1. operation = "idle" /\ OnAsioPage /\ config \in Documents
        /\ worker = NoWorker /\ run.at = "none" /\ inspection' = Uninspected
    BY <1>0 DEF ToolInv, EditorInv, TypesInv, WorkerInv, NoWorker
  <1>2. SavedWasAccepted /\ TypesInv /\ ProcessInv
    BY DEF ToolInv, ToolTruthful, EditorInv
  <1>3. InspectionCurrent'
    BY <1>1 DEF InspectionCurrent, Uninspected
  <1>4. CASE StartFails
    <2>1. /\ UNCHANGED <<tool, config, dirty, operation, worker, file>>
          /\ UNCHANGED <<devices, host, stdin, stdout, reader, job, cancel, run, accepted>>
      BY <1>4 DEF StartFails, hostVars
    <2>2. EditorInv'
      BY <1>1, <2>1 DEF ToolInv, EditorInv, TypesInv, WorkerInv, InspectionInv, PanelInv,
             SaveInv
    <2>3. SavedWasAccepted'
      BY <1>2, <2>1 DEF SavedWasAccepted
    <2>4. QED  BY <1>2, <1>3, <2>1, <2>2, <2>3, QuietProcess, Whole
  <1>5. CASE /\ Starts("control_panel", [at |-> "running"])
             /\ BeginRun(Request("panel", config)) /\ HostUntouched
    <2>1. /\ UNCHANGED <<tool, config, dirty, file>> /\ operation' = "control_panel"
          /\ worker' = [at |-> "running"]
      BY <1>5 DEF Starts
    <2>2. ProcessInv' /\ run'.at = "create" /\ run'.request.mode = "panel"
          /\ devices' = devices /\ accepted' = accepted
      BY <1>1, <1>2, <1>5, RequestFor, BeginKeeps DEF Modes
    <2>3. EditorInv'
      BY <1>1, <1>2, <2>1, <2>2 DEF EditorInv, TypesInv, WorkerInv, InspectionInv,
             PanelInv, SaveInv, OnAsioPage, Uninspected
    <2>4. SavedWasAccepted'
      BY <1>2, <2>1, <2>2 DEF SavedWasAccepted
    <2>5. QED  BY <1>3, <2>2, <2>3, <2>4, Whole
  <1>6. QED  BY <1>4, <1>5 DEF PressControlPanel

LEMMA SaveKeeps ==
    ASSUME ToolInv, PressSave
    PROVE  ToolInv'
  <1>1. operation = "idle" /\ config \in Documents /\ dirty
        /\ worker = NoWorker /\ run.at = "none"
    BY DEF PressSave, Busy, ToolInv, EditorInv, TypesInv, WorkerInv, NoWorker
  <1>2. /\ UNCHANGED <<tool, config, dirty, inspection, file>>
        /\ UNCHANGED <<devices, host, stdin, stdout, reader, job, cancel, run, accepted>>
        /\ \/ operation' = "save" /\ worker' = [at |-> "compile", document |-> config]
           \/ UNCHANGED <<operation, worker>>
    BY DEF PressSave, Starts, StartFails, hostVars
  <1>3. ProcessInv'
    BY <1>2, QuietProcess DEF ToolInv
  <1>4. TypesInv' /\ WorkerInv' /\ InspectionInv' /\ PanelInv' /\ SaveInv'
    BY <1>1, <1>2 DEF ToolInv, EditorInv, TypesInv, WorkerInv, InspectionInv, PanelInv,
           SaveInv, NoWorker
  <1>5. InspectionCurrent'
    BY <1>2 DEF ToolInv, ToolTruthful, InspectionCurrent, Report, OnAsioPage
  <1>6. SavedWasAccepted'
    BY <1>2 DEF ToolInv, ToolTruthful, SavedWasAccepted
  <1>7. QED  BY <1>3, <1>4, <1>5, <1>6, Whole DEF EditorInv

-----------------------------------------------------------------------------
(* The worker's thread.                                                    *)
LEMMA ReadResult ==
    ASSUME NEW bytes
    PROVE  \/ DecodeAsioProbeResult(bytes) = Malformed
           \/ DecodeAsioProbeResult(bytes).is \in {"failure", "report"}
  <1>1. \A content : \/ ReadReport(content) = Malformed
                     \/ ReadReport(content).is = "report"
    <2>1. TAKE content
    <2>2. QED  BY DEF ReadReport
  <1>2. \A content : \/ ReadFailure(content) = Malformed
                     \/ ReadFailure(content).is = "failure"
    BY DEF ReadFailure, Failure
  <1>3. QED  BY <1>1, <1>2 DEF DecodeAsioProbeResult

LEMMA ProbeAnswers ==
    ASSUME ProcessInv, run.at = "returned", run.request.mode # "panel"
    PROVE  /\ ProbeResult.is \in {"failure", "report"}
           /\ ProbeResult.is = "report" =>
                 /\ run.request.driver \in DOMAIN Installed
                 /\ run.request.mode = "inspect" => ProbeResult = Report(run.request)
                 /\ run.request.mode = "validate" => Triple(run.request) \in accepted
  <1>1. PICK decoded : decoded = DecodeAsioProbeResult(run.bytes)
    OBVIOUS
  <1>2. decoded = Malformed \/ decoded.is \in {"failure", "report"}
    BY <1>1, ReadResult
  <1>3. ProbeResult = IF run.status = "exited" /\ decoded # Malformed
                      THEN decoded ELSE Failure("protocol")
    BY <1>1 DEF ProbeResult
  <1>4. Failure("protocol").is = "failure"
    BY DEF Failure
  <1>5. run.status = "exited" => Honest(run.bytes)
    BY DEF ProcessInv, StreamInv
  <1>6. run.status = "exited" /\ decoded.is = "report" =>
           /\ run.request.driver \in DOMAIN Installed
           /\ run.request.mode = "inspect" => decoded = Report(run.request)
           /\ run.request.mode = "validate" => Triple(run.request) \in accepted
    BY <1>1, <1>5 DEF Honest
  <1>7. QED  BY <1>2, <1>3, <1>4, <1>6

LEMMA ProbeFinishes ==
    ASSUME ToolInv, FinishProbe
    PROVE  ToolInv'
  <1>1. /\ operation = "inspection" /\ worker.at = "running"
        /\ UNCHANGED <<tool, config, dirty, inspection, operation, file>>
        /\ worker' = [at |-> "completed", result |-> ProbeResult] /\ CloseHandles
    BY DEF FinishProbe, WorkerStep, Completes
  <1>2. ProcessInv' /\ run'.at = "none" /\ devices' = devices /\ accepted' = accepted
    BY <1>1, CloseKeeps DEF ToolInv
  <1>3. /\ run.request = Request("inspect", config) /\ config \in Documents
        /\ run.at = "returned" /\ OnAsioPage
    BY <1>1 DEF ToolInv, EditorInv, TypesInv, WorkerInv, InspectionInv, CloseHandles
  <1>4. run.request.mode = "inspect" /\ run.request.driver = config.driver
    BY <1>3, RequestFor DEF Modes
  <1>5. PICK result : result = ProbeResult
    OBVIOUS
  <1>6. /\ result.is \in {"failure", "report"}
        /\ result.is = "report" => /\ config.driver \in DOMAIN Installed
                                   /\ result = Report(Request("inspect", config))
    BY <1>3, <1>4, <1>5, ProbeAnswers DEF ToolInv
  <1>7. Report(Request("inspect", config))' = Report(Request("inspect", config))
    BY <1>1, <1>2 DEF Report, Request
  <1>8. worker' = [at |-> "completed", result |-> result]
    BY <1>1, <1>5
  <1>9. TypesInv' /\ WorkerInv' /\ PanelInv' /\ SaveInv'
    BY <1>1, <1>2, <1>3, <1>8 DEF ToolInv, EditorInv, TypesInv, WorkerInv, PanelInv, SaveInv,
           Completed, OnAsioPage
  <1>10. InspectionInv'
    BY <1>1, <1>6, <1>7, <1>8 DEF InspectionInv
  <1>11. InspectionCurrent'
    BY <1>1, <1>7 DEF ToolInv, ToolTruthful, InspectionCurrent, OnAsioPage
  <1>12. SavedWasAccepted'
    BY <1>1, <1>2 DEF ToolInv, ToolTruthful, SavedWasAccepted
  <1>13. QED  BY <1>2, <1>9, <1>10, <1>11, <1>12, Whole DEF EditorInv

LEMMA PanelFinishes ==
    ASSUME ToolInv, FinishPanel
    PROVE  ToolInv'
  <1>1. /\ operation = "control_panel" /\ worker.at = "running"
        /\ UNCHANGED <<tool, config, dirty, inspection, operation, file>>
        /\ worker' = [at |-> "completed", result |-> PanelResult] /\ CloseHandles
    BY DEF FinishPanel, WorkerStep, Completes
  <1>2. ProcessInv' /\ run'.at = "none" /\ devices' = devices /\ accepted' = accepted
    BY <1>1, CloseKeeps DEF ToolInv
  <1>3. PICK result : worker' = [at |-> "completed", result |-> result]
    BY <1>1
  <1>4. TypesInv' /\ WorkerInv' /\ InspectionInv' /\ PanelInv' /\ SaveInv'
    BY <1>1, <1>2, <1>3 DEF ToolInv, EditorInv, TypesInv, WorkerInv, InspectionInv,
           PanelInv, SaveInv, Completed, OnAsioPage
  <1>5. InspectionCurrent'
    BY <1>1 DEF ToolInv, EditorInv, PanelInv, InspectionCurrent
  <1>6. SavedWasAccepted'
    BY <1>1, <1>2 DEF ToolInv, ToolTruthful, SavedWasAccepted
  <1>7. QED  BY <1>2, <1>4, <1>5, <1>6, Whole DEF EditorInv

(* A document is saved after its validation, when it selects ASIO.         *)
LEMMA SaveUnderWay ==
    ASSUME ToolInv, worker.at \in {"compile", "validate", "write"}
    PROVE  /\ operation = "save" /\ dirty /\ worker.document \in Documents
           /\ worker = [at |-> worker.at, document |-> worker.document]
           /\ InspectionCurrent /\ SavedWasAccepted /\ TypesInv /\ ProcessInv
           /\ run.at = "none" <=> worker.at # "validate"
  BY DEF ToolInv, EditorInv, WorkerInv, Completed, NoWorker, ToolTruthful

LEMMA CompileKeeps ==
    ASSUME ToolInv, CompileAndValidate
    PROVE  ToolInv'
  <1>1. /\ worker.at = "compile"
        /\ UNCHANGED <<tool, config, dirty, inspection, operation, file>>
    BY DEF CompileAndValidate, WorkerStep
  <1>2. PICK document \in Documents : worker = [at |-> "compile", document |-> document]
    BY <1>1, SaveUnderWay
  <1>3. /\ operation = "save" /\ dirty /\ run.at = "none"
        /\ InspectionCurrent /\ SavedWasAccepted /\ TypesInv /\ ProcessInv
    BY <1>1, SaveUnderWay
  <1>4. CASE document.backend = "asio"
    <2>1. /\ worker' = [at |-> "validate", document |-> document]
          /\ BeginRun(Request("validate", document)) /\ HostUntouched
      BY <1>2, <1>4 DEF CompileAndValidate
    <2>2. ProcessInv' /\ run'.at = "create" /\ run'.request = Request("validate", document)
          /\ devices' = devices /\ accepted' = accepted
      BY <1>3, <2>1, RequestFor, BeginKeeps DEF Modes
    <2>3. EditorInv'
      BY <1>1, <1>3, <2>1, <2>2 DEF EditorInv, TypesInv, WorkerInv, InspectionInv,
             PanelInv, SaveInv
    <2>4. InspectionCurrent' /\ SavedWasAccepted'
      BY <1>1, <1>3, <2>2 DEF InspectionCurrent, SavedWasAccepted, Report, OnAsioPage
    <2>5. QED  BY <2>2, <2>3, <2>4, Whole
  <1>5. CASE document.backend # "asio"
    <2>1. /\ worker' = [at |-> "write", document |-> document]
          /\ UNCHANGED <<devices, host, stdin, stdout, reader, job, cancel, run, accepted>>
      BY <1>2, <1>5 DEF CompileAndValidate, hostVars
    <2>2. EditorInv'
      BY <1>1, <1>3, <1>5, <2>1 DEF EditorInv, TypesInv, WorkerInv, InspectionInv,
             PanelInv, SaveInv
    <2>3. InspectionCurrent' /\ SavedWasAccepted'
      BY <1>1, <1>3, <2>1 DEF InspectionCurrent, SavedWasAccepted, Report, OnAsioPage
    <2>4. QED  BY <1>3, <2>1, <2>2, <2>3, QuietProcess, Whole
  <1>6. QED  BY <1>4, <1>5

LEMMA ValidationKeeps ==
    ASSUME ToolInv, FinishValidation
    PROVE  ToolInv'
  <1>1. /\ worker.at = "validate" /\ CloseHandles
        /\ UNCHANGED <<tool, config, dirty, inspection, operation, file>>
    BY DEF FinishValidation, WorkerStep
  <1>2. PICK document \in Documents : worker = [at |-> "validate", document |-> document]
    BY <1>1, SaveUnderWay
  <1>3. /\ operation = "save" /\ dirty
        /\ InspectionCurrent /\ SavedWasAccepted /\ TypesInv /\ ProcessInv
    BY <1>1, SaveUnderWay
  <1>4. ProcessInv' /\ run'.at = "none" /\ devices' = devices /\ accepted' = accepted
    BY <1>1, <1>3, CloseKeeps
  <1>5. run.request = Request("validate", document) /\ run.at = "returned"
    BY <1>1, <1>2, <1>3 DEF ToolInv, EditorInv, SaveInv, CloseHandles
  <1>6. run.request.mode = "validate" /\ Triple(run.request) = Triple(document)
    BY <1>5, RequestFor DEF Modes
  <1>7. \/ worker' = [at |-> "write", document |-> document]
           /\ Triple(document) \in accepted
        \/ worker' = [at |-> "completed", result |-> Failure("protocol")]
    <2>1. CASE ProbeResult.is = "report" /\ CapabilityFits(worker.document, ProbeResult)
      <3>1. worker' = [worker EXCEPT !.at = "write"]
        BY <2>1 DEF FinishValidation
      <3>2. Triple(run.request) \in accepted
        BY <1>3, <1>5, <1>6, <2>1, ProbeAnswers
      <3>3. QED  BY <1>2, <1>6, <3>1, <3>2
    <2>2. CASE ~(ProbeResult.is = "report" /\ CapabilityFits(worker.document, ProbeResult))
      BY <2>2 DEF FinishValidation, Completes
    <2>3. QED  BY <2>1, <2>2
  <1>8. EditorInv'
    <2>1. TypesInv' /\ WorkerInv' /\ InspectionInv' /\ PanelInv'
      BY <1>1, <1>3, <1>4, <1>7 DEF TypesInv, WorkerInv, InspectionInv, PanelInv, Completed
    <2>2. SaveInv'
      BY <1>1, <1>3, <1>4, <1>7 DEF SaveInv, Failure, Succeeded, Triple
    <2>3. QED  BY <2>1, <2>2 DEF EditorInv
  <1>9. InspectionCurrent' /\ SavedWasAccepted'
    BY <1>1, <1>3, <1>4 DEF InspectionCurrent, SavedWasAccepted, Report, OnAsioPage
  <1>10. QED  BY <1>4, <1>8, <1>9, Whole

LEMMA WriteDocumentKeeps ==
    ASSUME ToolInv, WriteConfigDocument
    PROVE  ToolInv'
  <1>1. /\ worker.at = "write"
        /\ UNCHANGED <<tool, config, dirty, inspection, operation>>
        /\ UNCHANGED <<devices, host, stdin, stdout, reader, job, cancel, run, accepted>>
    BY DEF WriteConfigDocument, WorkerStep, hostVars
  <1>2. PICK document \in Documents : worker = [at |-> "write", document |-> document]
    BY <1>1, SaveUnderWay
  <1>3. /\ operation = "save" /\ dirty /\ run.at = "none"
        /\ InspectionCurrent /\ SavedWasAccepted /\ TypesInv /\ ProcessInv
    BY <1>1, SaveUnderWay
  <1>4. document.backend = "asio" => Triple(document) \in accepted
    BY <1>2, <1>3 DEF ToolInv, EditorInv, SaveInv
  <1>5. /\ \/ file' = document /\ worker' = [at |-> "completed", result |-> Succeeded]
           \/ file' \in {file, NoFile}
              /\ worker' = [at |-> "completed", result |-> Failure("driver")]
    BY <1>2 DEF WriteConfigDocument, Completes
  <1>6. Succeeded # Failure("driver") /\ document # NoFile
    <2>1. Succeeded.is # Failure("driver").is
      BY DEF Succeeded, Failure
    <2>2. document.backend # NoFile.backend
      BY DEF Documents, NoFile
    <2>3. QED  BY <2>1, <2>2
  <1>7. EditorInv'
    <2>1. TypesInv' /\ WorkerInv' /\ InspectionInv' /\ PanelInv'
      BY <1>1, <1>3, <1>5 DEF TypesInv, WorkerInv, InspectionInv, PanelInv, Completed
    <2>2. SaveInv'
      BY <1>1, <1>3, <1>5, <1>6 DEF SaveInv
    <2>3. QED  BY <2>1, <2>2 DEF EditorInv
  <1>8. InspectionCurrent'
    BY <1>1, <1>3 DEF InspectionCurrent, Report, OnAsioPage
  <1>9. SavedWasAccepted'
    <2>1. file.backend = "asio" => Triple(file) \in accepted
      BY <1>3 DEF SavedWasAccepted, Triple
    <2>2. NoFile.backend # "asio"
      BY DEF NoFile
    <2>3. PICK new : new = file'
      OBVIOUS
    <2>4. new.backend = "asio" => Triple(new) \in accepted
      BY <1>4, <1>5, <2>1, <2>2, <2>3
    <2>5. QED  BY <1>1, <1>3, <2>3, <2>4 DEF SavedWasAccepted, Triple
  <1>10. QED  BY <1>1, <1>3, <1>7, <1>8, <1>9, QuietProcess, Whole

LEMMA WorkerKeeps ==
    ASSUME ToolInv, WorkerThread
    PROVE  ToolInv'
  BY ProbeFinishes, PanelFinishes, CompileKeeps, ValidationKeeps, WriteDocumentKeeps
     DEF WorkerThread

-----------------------------------------------------------------------------
(* The turn of the loop that finds an operation completed.                 *)
LEMMA InspectionTaken ==
    ASSUME ToolInv, TakeInspection
    PROVE  ToolInv'
  <1>1. /\ operation = "inspection" /\ worker.at = "completed" /\ operation' = "idle"
        /\ worker' = NoWorker /\ UNCHANGED <<tool, file>>
        /\ UNCHANGED <<devices, host, stdin, stdout, reader, job, cancel, run, accepted>>
    BY DEF TakeInspection, Takes, hostVars
  <1>2. /\ InspectionCurrent /\ SavedWasAccepted /\ TypesInv /\ run.at = "none"
        /\ config \in Documents /\ OnAsioPage
    BY <1>1 DEF ToolInv, ToolTruthful, EditorInv, TypesInv, WorkerInv
  <1>3. ProcessInv'
    BY <1>1, QuietProcess DEF ToolInv
  <1>4. CASE UNCHANGED <<config, dirty>> /\ inspection' \in
                {inspection, [state |-> "failed", report |-> worker.result]}
    <2>1. EditorInv'
      BY <1>1, <1>2, <1>4 DEF EditorInv, TypesInv, WorkerInv, InspectionInv, PanelInv,
             SaveInv, NoWorker
    <2>2. InspectionCurrent'
      BY <1>1, <1>2, <1>4 DEF InspectionCurrent, Report, OnAsioPage
    <2>3. SavedWasAccepted'
      BY <1>1, <1>2, <1>4 DEF SavedWasAccepted
    <2>4. QED  BY <1>3, <2>1, <2>2, <2>3, Whole
  <1>5. ASSUME NEW report, report = worker.result, report.is # "failure",
               report.effective # 0, config.frames \in {0, report.effective},
               inspection' = [state |-> "valid", report |-> report],
               config' = [config EXCEPT !.frames = report.effective],
               dirty' = (dirty \/ config.frames = 0)
        PROVE  ToolInv'
    <2>1. config.driver \in DOMAIN Installed /\ report = Report(Request("inspect", config))
      BY <1>1, <1>5 DEF ToolInv, EditorInv, InspectionInv
    <2>2. /\ Request("inspect", config).driver = config.driver
          /\ Request("inspect", config).frames = config.frames
          /\ Request("inspect", config).base = config.base
          /\ Request("inspect", config) \in Requests
      BY <1>2, RequestFor DEF Modes
    <2>3. report.effective \in Values
      <3>1. report \in Reports
        BY <1>2, <2>1, <2>2, ReportTyped DEF Requests
      <3>2. QED  BY <3>1 DEF Reports
    <2>4. /\ config' \in Documents /\ config'.frames = report.effective
          /\ config'.backend = config.backend /\ config'.driver = config.driver
          /\ config'.base = config.base
      BY <1>2, <1>5, <2>3 DEF Documents
    <2>5. /\ Request("inspect", config)'.driver = config.driver
          /\ Request("inspect", config)'.frames = report.effective
          /\ Request("inspect", config)'.base = config.base
      BY <2>4 DEF Request
    <2>6. Report(Request("inspect", config))' = report
      BY <1>1, <1>5, <2>1, <2>2, <2>5 DEF Report
    <2>7. InspectionCurrent'
      BY <1>2, <1>5, <2>4, <2>6 DEF InspectionCurrent, OnAsioPage
    <2>8. ~dirty' => ~dirty /\ config' = config
      <3>1. SUFFICES ASSUME ~dirty' PROVE ~dirty /\ config' = config
        OBVIOUS
      <3>2. ~dirty /\ config.frames # 0
        BY <1>5, <3>1
      <3>3. config.frames = report.effective
        BY <1>5, <3>2
      <3>4. QED  BY <1>2, <1>5, <3>2, <3>3 DEF Documents
    <2>9. SavedWasAccepted'
      BY <1>1, <1>2, <2>8 DEF SavedWasAccepted
    <2>10. EditorInv'
      BY <1>1, <1>2, <2>4 DEF EditorInv, TypesInv, WorkerInv, InspectionInv, PanelInv,
             SaveInv, NoWorker
    <2>11. QED  BY <1>3, <2>7, <2>9, <2>10, Whole
  <1>6. QED  BY <1>4, <1>5 DEF TakeInspection

LEMMA PanelTaken ==
    ASSUME ToolInv, TakeControlPanel
    PROVE  ToolInv'
  <1>1. /\ operation = "control_panel" /\ worker.at = "completed"
        /\ UNCHANGED <<tool, config, dirty, file>>
    BY DEF TakeControlPanel, Takes
  <1>2. /\ inspection.state # "valid" /\ SavedWasAccepted /\ TypesInv /\ run.at = "none"
        /\ ProcessInv /\ config \in Documents /\ OnAsioPage
    BY <1>1 DEF ToolInv, ToolTruthful, EditorInv, TypesInv, WorkerInv, PanelInv
  <1>3. CASE /\ inspection' = [state |-> "probing", report |-> Failure("driver")]
             /\ operation' = "inspection" /\ worker' = [at |-> "running"]
             /\ BeginRun(Request("inspect", config)) /\ HostUntouched
    <2>1. ProcessInv' /\ run'.at = "create" /\ run'.request = Request("inspect", config)
          /\ devices' = devices /\ accepted' = accepted
      BY <1>2, <1>3, RequestFor, BeginKeeps DEF Modes
    <2>2. Request("inspect", config)' = Request("inspect", config)
      BY <1>1
    <2>3. EditorInv'
      BY <1>1, <1>2, <1>3, <2>1, <2>2 DEF EditorInv, TypesInv, WorkerInv, InspectionInv,
             PanelInv, SaveInv, OnAsioPage
    <2>4. InspectionCurrent' /\ SavedWasAccepted'
      BY <1>1, <1>2, <1>3, <2>1 DEF InspectionCurrent, SavedWasAccepted
    <2>5. QED  BY <2>1, <2>3, <2>4, Whole
  <1>4. CASE /\ operation' = "idle" /\ worker' = NoWorker /\ UNCHANGED hostVars
             /\ inspection' \in {inspection,
                                 [state |-> "failed", report |-> Failure("driver")]}
    <2>1. UNCHANGED <<devices, host, stdin, stdout, reader, job, cancel, run, accepted>>
          /\ inspection'.state # "valid"
      BY <1>2, <1>4 DEF hostVars
    <2>2. EditorInv'
      BY <1>1, <1>2, <1>4, <2>1 DEF EditorInv, TypesInv, WorkerInv, InspectionInv,
             PanelInv, SaveInv, NoWorker
    <2>3. InspectionCurrent' /\ SavedWasAccepted'
      BY <1>1, <1>2, <2>1 DEF InspectionCurrent, SavedWasAccepted
    <2>4. QED  BY <1>2, <2>1, <2>2, <2>3, QuietProcess, Whole
  <1>5. QED  BY <1>3, <1>4 DEF TakeControlPanel

LEMMA SaveTaken ==
    ASSUME ToolInv, TakeSave
    PROVE  ToolInv'
  <1>1. /\ operation = "save" /\ worker.at = "completed" /\ operation' = "idle"
        /\ worker' = NoWorker /\ UNCHANGED <<tool, file>>
        /\ UNCHANGED <<devices, host, stdin, stdout, reader, job, cancel, run, accepted>>
        /\ \/ /\ worker.result = Succeeded
              /\ config' = file /\ dirty' = FALSE /\ inspection' = Uninspected
           \/ UNCHANGED <<config, dirty, inspection>>
    BY DEF TakeSave, Takes, hostVars
  <1>2. /\ InspectionCurrent /\ SavedWasAccepted /\ TypesInv /\ run.at = "none"
        /\ worker.result = Succeeded => file # NoFile
    BY <1>1 DEF ToolInv, ToolTruthful, EditorInv, WorkerInv, SaveInv
  <1>3. ProcessInv'
    BY <1>1, QuietProcess DEF ToolInv
  <1>4. EditorInv'
    BY <1>1, <1>2 DEF EditorInv, TypesInv, WorkerInv, InspectionInv, PanelInv, SaveInv,
           NoWorker
  <1>5. InspectionCurrent'
    BY <1>1, <1>2 DEF InspectionCurrent, Report, OnAsioPage, Uninspected
  <1>6. SavedWasAccepted'
    BY <1>1, <1>2 DEF SavedWasAccepted
  <1>7. QED  BY <1>3, <1>4, <1>5, <1>6, Whole

(* The window closes, and the thread is joined.                            *)
LEMMA CloseWindowKeeps ==
    ASSUME ToolInv, CloseWindow
    PROVE  ToolInv'
  <1>1. /\ UNCHANGED <<config, dirty, inspection, operation, worker, file>>
        /\ UNCHANGED <<devices, host, stdin, stdout, reader, job, run, accepted>>
    BY DEF CloseWindow
  <1>2. ProcessInv'
    BY <1>1, QuietProcess DEF ToolInv
  <1>3. Report(Request("inspect", config))' = Report(Request("inspect", config))
    BY <1>1 DEF Report, Request
  <1>4. EditorInv'
    BY <1>1, <1>3 DEF ToolInv, EditorInv, TypesInv, WorkerInv, InspectionInv, PanelInv,
           SaveInv, Completed, OnAsioPage
  <1>5. InspectionCurrent'
    BY <1>1, <1>3 DEF ToolInv, ToolTruthful, InspectionCurrent, OnAsioPage
  <1>6. SavedWasAccepted'
    BY <1>1 DEF ToolInv, ToolTruthful, SavedWasAccepted
  <1>7. QED  BY <1>2, <1>4, <1>5, <1>6, Whole

LEMMA JoinKeeps ==
    ASSUME ToolInv, JoinWorker
    PROVE  ToolInv'
  <1>1. /\ UNCHANGED <<config, dirty, inspection, file>>
        /\ UNCHANGED <<devices, host, stdin, stdout, reader, job, cancel, run, accepted>>
        /\ worker.at \in {"none", "completed"} /\ operation' = "idle" /\ worker' = NoWorker
    BY DEF JoinWorker, hostVars
  <1>2. ProcessInv'
    BY <1>1, QuietProcess DEF ToolInv
  <1>3. EditorInv'
    BY <1>1 DEF ToolInv, EditorInv, TypesInv, WorkerInv, InspectionInv, PanelInv,
           SaveInv, NoWorker
  <1>4. Report(Request("inspect", config))' = Report(Request("inspect", config))
    BY <1>1 DEF Report, Request
  <1>5. InspectionCurrent'
    BY <1>1, <1>4 DEF ToolInv, ToolTruthful, InspectionCurrent, OnAsioPage
  <1>6. SavedWasAccepted'
    BY <1>1 DEF ToolInv, ToolTruthful, SavedWasAccepted
  <1>7. QED  BY <1>2, <1>3, <1>5, <1>6, Whole

LEMMA LoopKeeps ==
    ASSUME ToolInv, Loop
    PROVE  ToolInv'
  BY SettersKeep, CaptureKeeps, InspectKeeps, PanelKeeps, SaveKeeps, InspectionTaken,
     PanelTaken, SaveTaken, CloseWindowKeeps, JoinKeeps DEF Loop

LEMMA ToolStarts == ToolInit => ToolInv
  <1>1. SUFFICES ASSUME ToolInit PROVE ToolInv
    OBVIOUS
  <1>2. /\ run.at = "none" /\ host.at = "none" /\ stdout = <<>> /\ reader = NoReader
        /\ devices \in [DOMAIN Installed -> [preferred : PreferredFrames,
                                            rate : SupportedRates]]
    BY <1>1 DEF ToolInit, HostInit, AtRestRun, NoHost
  <1>3. ProcessInv
    <2>1. RunInv
      BY <1>2 DEF RunInv, RunPhases
    <2>2. HostInv
      BY <1>2 DEF HostInv, Prepared
    <2>3. StreamInv
      BY <1>2 DEF StreamInv, Listening, NoReader
    <2>4. QED  BY <2>1, <2>2, <2>3 DEF ProcessInv
  <1>4. config \in Documents /\ file \in Documents
    <2>1. "" \in Values /\ 0 \in Values
      BY DEF Values
    <2>2. QED  BY <1>1, <2>1 DEF ToolInit, Documents
  <1>5. devices \in Devices
    BY <1>2 DEF Devices
  <1>6. EditorInv
    <2>1. operation = "idle" /\ worker = NoWorker
      BY <1>1 DEF ToolInit
    <2>2. QED
      BY <1>2, <1>4, <1>5, <2>1 DEF EditorInv, TypesInv, WorkerInv, InspectionInv,
         PanelInv, SaveInv, NoWorker
  <1>7. ToolTruthful
    BY <1>1, <1>2 DEF ToolInit, ToolTruthful, InspectionCurrent, SavedWasAccepted, NoOrphan,
       HostAlive, Uninspected
  <1>8. QED  BY <1>3, <1>6, <1>7 DEF ToolInv

LEMMA ToolKeeps == ToolInv /\ [ToolNext]_toolVars => ToolInv'
  <1>1. SUFFICES ASSUME ToolInv, [ToolNext]_toolVars PROVE ToolInv'
    OBVIOUS
  <1>2. CASE UNCHANGED toolVars
    <2>1. UNCHANGED editorVars
          /\ UNCHANGED <<devices, host, stdin, stdout, reader, job, cancel, run, accepted>>
      BY <1>2 DEF toolVars, hostVars
    <2>2. ProcessInv'
      BY <1>1, <2>1, QuietProcess DEF ToolInv
    <2>3. EditorInv' /\ InspectionCurrent' /\ SavedWasAccepted'
      BY <1>1, <2>1, QuietEditor DEF ToolInv, ToolTruthful
    <2>4. QED  BY <2>2, <2>3, Whole
  <1>3. QED  BY <1>1, <1>2, LoopKeeps, WorkerKeeps, OutsideKeeps DEF ToolNext

(* The configuration tool tells the truth about the driver, for any        *)
(* drivers, names and sizes, and any number of edits and operations,       *)
(* although the driver may print, crash or hang in its process: what the   *)
(* page shows as valid is what the driver would answer now                 *)
(* (AudioBackendEditorModel::CompleteInspection), a saved ASIO document    *)
(* was accepted by the driver (ValidateAndWriteConfig), and no process     *)
(* outlives its operation (AsioIsolatedProcess::Run).                      *)
THEOREM ToolIsTruthful == ToolSpec => []ToolTruthful
  <1>1. ToolInv => ToolTruthful
    BY DEF ToolInv
  <1>2. QED  BY <1>1, ToolStarts, ToolKeeps, PTL DEF ToolSpec

-----------------------------------------------------------------------------
(* AsioSession.                                                            *)
(* What there is of the session, at each step of its owner thread.         *)
OwnerInv ==
    /\ owner \in {"none", "load", "buffers", "publish", "start", "serve",
                  "pump", "stop", "dispose", "ended"}
    /\ owner \in {"none", "load", "ended"} =>
          driver = "none" /\ ~callback_target
    /\ owner = "buffers" => driver = "loaded" /\ session /\ ~callback_target
    /\ owner = "publish" => driver = "buffers" /\ session /\ ~callback_target
    /\ owner \in {"start", "dispose"} =>
          driver = "buffers" /\ session /\ callback_target
    /\ owner \in {"serve", "pump", "stop"} =>
          driver = "started" /\ session /\ callback_target

(* The flag belongs to the one call that fills a buffer.                   *)
CallsInv ==
    /\ callback \in [Callbacks -> {"idle", "entered", "filling"}]
    /\ \A c \in Callbacks : callback[c] # "idle" => driver = "started"
    /\ \A c \in Callbacks : callback[c] = "filling" => callback_active
    /\ \A c, d \in Callbacks :
          callback[c] = "filling" /\ callback[d] = "filling" => c = d

SessionInv == ~fatal => OwnerInv /\ CallsInv

LEMMA OwnerStepInv ==
    ASSUME OwnerInv, CallsInv, OwnerThread
    PROVE  SessionInv'
  <1>1. UNCHANGED <<callback_active, callback>>
    BY DEF OwnerThread, LoadDriver, CreateBuffers, PublishTarget, StartDriver,
           PublishServices, LeaveMessageLoop, StopDriver, ReleaseSession,
           callbackVars
  <1>2. CASE LoadDriver \/ CreateBuffers \/ PublishTarget
    <2>1. ~fatal' => OwnerInv'
      BY <1>2 DEF LoadDriver, CreateBuffers, PublishTarget, Fatal, OwnerInv,
                  driverVars, callbackVars
    <2>2. driver # "started"
      BY <1>2 DEF LoadDriver, CreateBuffers, PublishTarget, OwnerInv
    <2>3. CallsInv'
      BY <1>1, <2>2 DEF CallsInv
    <2>4. QED  BY <2>1, <2>3 DEF SessionInv
  <1>3. CASE StartDriver \/ PublishServices \/ LeaveMessageLoop
    <2>1. ~fatal' => OwnerInv'
      BY <1>3 DEF StartDriver, PublishServices, LeaveMessageLoop, Fatal, OwnerInv,
                  driverVars, callbackVars, asioEvents
    <2>2. driver = "started" => driver' = "started"
      BY <1>3 DEF StartDriver, PublishServices, LeaveMessageLoop, driverVars
    <2>3. CallsInv'
      BY <1>1, <2>2 DEF CallsInv
    <2>4. QED  BY <2>1, <2>3 DEF SessionInv
  <1>4. CASE StopDriver
    <2>1. ~fatal' => OwnerInv'
      BY <1>4 DEF StopDriver, Fatal, OwnerInv, callbackVars, asioEvents
    <2>2. ~fatal' => CallsInv'
      BY <1>1, <1>4 DEF StopDriver, Fatal, CallsInv
    <2>3. QED  BY <2>1, <2>2 DEF SessionInv
  <1>5. CASE ReleaseSession
    <2>1. ~fatal' => OwnerInv'
      BY <1>5 DEF ReleaseSession, Fatal, OwnerInv, driverVars, asioEvents
    <2>2. driver # "started"
      BY <1>5 DEF ReleaseSession, OwnerInv
    <2>3. CallsInv'
      BY <1>1, <2>2 DEF CallsInv
    <2>4. QED  BY <2>1, <2>3 DEF SessionInv
  <1>6. QED  BY <1>2, <1>3, <1>4, <1>5 DEF OwnerThread

LEMMA DriverStepInv ==
    ASSUME OwnerInv, CallsInv, DriverThread
    PROVE  SessionInv'
  <1>1. PICK c \in Callbacks : EnterCallback(c) \/ TakeFlag(c) \/ FillBuffer(c)
    BY DEF DriverThread
  <1>2. UNCHANGED <<owner, driver, session, callback_target>>
    BY <1>1 DEF EnterCallback, TakeFlag, FillBuffer, OwnerFrame, driverVars
  <1>3. OwnerInv'
    BY <1>2 DEF OwnerInv
  <1>4. CASE EnterCallback(c)
    BY <1>2, <1>3, <1>4 DEF EnterCallback, Fatal, CallsInv, SessionInv
  <1>5. CASE TakeFlag(c)
    <2>1. CASE callback_active
      BY <1>5, <2>1 DEF TakeFlag, Fatal, SessionInv
    <2>2. CASE ~callback_active
      <3>1. /\ callback' = [callback EXCEPT ![c] = "filling"] /\ callback_active'
            /\ callback[c] = "entered"
            /\ \A d \in Callbacks : callback[d] # "filling"
        BY <1>5, <2>2 DEF TakeFlag, CallsInv
      <3>2. CallsInv'
        BY <1>2, <3>1 DEF CallsInv
      <3>3. QED  BY <1>3, <3>2 DEF SessionInv
    <2>3. QED  BY <2>1, <2>2
  <1>6. CASE FillBuffer(c)
    <2>1. \A d \in Callbacks : d # c => callback[d] # "filling"
      BY <1>6 DEF FillBuffer, CallsInv
    <2>2. ~fatal' => callback' = [callback EXCEPT ![c] = "idle"]
      BY <1>6 DEF FillBuffer, Fatal
    <2>3. ~fatal' => CallsInv'
      BY <1>2, <2>1, <2>2 DEF CallsInv
    <2>4. QED  BY <1>3, <2>3 DEF SessionInv
  <1>7. QED  BY <1>1, <1>4, <1>5, <1>6

LEMMA SessionServesCallbacks ==
    ASSUME SessionInv
    PROVE  CallbackHasSession
  <1> SUFFICES ASSUME ~fatal
               PROVE  /\ \A c \in Callbacks : callback[c] # "idle" =>
                             session /\ callback_target /\ driver = "started"
                      /\ Cardinality({c \in Callbacks : callback[c] = "filling"}) <= 1
                      /\ (driver = "started" => callback_target)
    BY DEF CallbackHasSession
  <1>1. OwnerInv /\ CallsInv
    BY DEF SessionInv
  <1>2. driver = "started" => session /\ callback_target
    BY <1>1 DEF OwnerInv
  <1> DEFINE filling == {c \in Callbacks : callback[c] = "filling"}
  <1>3. Cardinality(filling) <= 1
    <2>1. CASE filling = {}
      BY <2>1, FS_EmptySet
    <2>2. CASE filling # {}
      <3>1. PICK c \in Callbacks : callback[c] = "filling"
        BY <2>2
      <3>2. filling = {c}
        BY <1>1, <3>1 DEF CallsInv
      <3>3. QED  BY <3>2, FS_Singleton
    <2>3. QED  BY <2>1, <2>2
  <1>4. QED  BY <1>1, <1>2, <1>3 DEF CallsInv
-----------------------------------------------------------------------------
(* WasapiEngine and the game's calls of it.                                *)
AudioDone == {"cleanup", "unregister", "release", "exit", "ended"}
Stages    == FailureStages \union {"None", "StartupSucceeded"}
Holding   == {r \in Recorders : record[r].step \in {"store", "signal"}}

(* A failure that has been stored stays: nobody is about to store another. *)
Settled == failure_claimed /\ \A r \in Recorders : record[r].step # "store"

(* One recorder at a time holds the claim, and the event comes last.       *)
RecordInv ==
    /\ record \in [Recorders -> [step: {"idle", "claim", "store", "signal"},
                                 stage: FailureStages \union {"None"}]]
    /\ failure_stage \in FailureStages \union {"None"}
    /\ failure_stage # "None" => failure_claimed
    /\ \A r \in Holding : failure_claimed
    /\ \A r, q \in Holding : r = q
    /\ "fatal" \in events => Settled

(* An audio thread that has announced its success leaves its loop for a    *)
(* failure only, and that has been claimed before it cleans up.            *)
SuccessInv ==
    /\ start \in {"none", "threads"} => audio = "none"
    /\ start \in {"report", "signal", "started"} => succeeded
    /\ succeeded => audio \in {"render", "record"} \union AudioDone
    /\ succeeded /\ audio \in AudioDone => failure_claimed
    /\ audio = "record" => record["audio"].step # "idle" \/ failure_claimed

(* The monitor looks for the failure after it was told of the report.      *)
ReportInv ==
    /\ reports \in Seq(Stages)
    /\ start \notin {"signal", "started"} => reports = <<>>
    /\ start = "signal" => Len(reports) = 1
    /\ start = "started" => Len(reports) \in {1, 2}
    /\ start \in {"signal", "started"} => reports[1] = "StartupSucceeded"
    /\ Len(reports) = 2 => monitor = "ended" /\ Settled /\ reports[2] = failure_stage
    /\ monitor = "watch" => start = "started"
    /\ "startup_reported" \in events => start = "started"

VoiceInv ==
    /\ voice = "checked" => exact /\ start = "started"
    /\ stale_clock => failure_claimed

EngineInv == RecordInv /\ SuccessInv /\ ReportInv /\ VoiceInv

(* A step that leaves the recorders and what they have claimed.            *)
LEMMA SameRecords ==
    ASSUME RecordInv, UNCHANGED failureVars,
           "fatal" \in events' => "fatal" \in events
    PROVE  RecordInv' /\ (Settled => Settled')
  BY DEF RecordInv, failureVars, Holding, Settled

LEMMA SameReports ==
    ASSUME ReportInv, UNCHANGED <<reports, failure_stage>>, Settled => Settled',
           \/ UNCHANGED start
           \/ start \notin {"signal", "started"} /\ start' \notin {"signal", "started"},
           monitor' = "watch" => monitor = "watch" \/ start = "started",
           monitor = "ended" => monitor' = "ended" \/ Len(reports) # 2,
           "startup_reported" \in events' => "startup_reported" \in events
    PROVE  ReportInv'
  BY DEF ReportInv

(* The game thread in StartExclusiveAudioEngineAndWait.                    *)
LEMMA StartAndWaitInv ==
    ASSUME EngineInv, CreateEngine \/ StartAndWait, UNCHANGED <<voice, stale_clock>>
    PROVE  EngineInv'
  <1>0. RecordInv /\ SuccessInv /\ ReportInv /\ VoiceInv
    BY DEF EngineInv
  <1>1. UNCHANGED failureVars /\ UNCHANGED <<exact, succeeded>>
        /\ ("fatal" \in events' => "fatal" \in events)
    BY DEF CreateEngine, StartAndWait, StartThreads, AwaitInitialization,
           ReportStartup, SignalStartupReported, SignalShutdown, JoinThreads,
           SetEvent
  <1>2. RecordInv' /\ (Settled => Settled')
    BY <1>0, <1>1, SameRecords
  <1>3. start # "started" \/ UNCHANGED start
    BY DEF CreateEngine, StartAndWait, StartThreads, AwaitInitialization,
           ReportStartup, SignalStartupReported, SignalShutdown, JoinThreads
  <1>4. VoiceInv'
    BY <1>0, <1>1, <1>3 DEF VoiceInv, failureVars
  <1>5. SuccessInv'
    <2>1. CASE CreateEngine \/ StartThreads
      BY <1>0, <1>1, <2>1 DEF CreateEngine, StartThreads, SuccessInv, AudioDone,
                              audioVars, failureVars
    <2>2. CASE AwaitInitialization \/ ReportStartup \/ SignalStartupReported
               \/ SignalShutdown \/ JoinThreads
      BY <1>0, <1>1, <2>2 DEF AwaitInitialization, ReportStartup,
             SignalStartupReported, SignalShutdown, JoinThreads, SuccessInv,
             audioVars, failureVars
    <2>3. QED  BY <2>1, <2>2 DEF StartAndWait
  <1>6. ReportInv'
    <2>1. CASE CreateEngine \/ StartThreads \/ AwaitInitialization
      <3>1. /\ UNCHANGED <<reports, failure_stage>>
            /\ start \notin {"signal", "started"} /\ start' \notin {"signal", "started"}
            /\ monitor' = "watch" => monitor = "watch"
            /\ "startup_reported" \in events' => "startup_reported" \in events
        BY <1>0, <2>1 DEF CreateEngine, StartThreads, AwaitInitialization, failureVars
      <3>2. Len(reports) # 2
        BY <1>0, <3>1 DEF ReportInv
      <3>3. QED  BY <1>0, <1>2, <3>1, <3>2, SameReports
    <2>2. CASE SignalShutdown \/ JoinThreads
      <3>1. /\ UNCHANGED <<reports, failure_stage, monitor>>
            /\ start \notin {"signal", "started"} /\ start' \notin {"signal", "started"}
            /\ "startup_reported" \in events' => "startup_reported" \in events
        BY <1>0, <2>2 DEF SignalShutdown, JoinThreads, failureVars, SetEvent
      <3>2. QED  BY <1>0, <1>2, <3>1, SameReports
    <2>3. CASE ReportStartup
      <3>1. /\ reports = <<>> /\ reports' = Append(reports, "StartupSucceeded")
            /\ start = "report" /\ start' = "signal"
            /\ UNCHANGED <<monitor, events, failure_stage>>
        BY <1>0, <2>3 DEF ReportStartup, ReportInv, failureVars
      <3>2. reports' = <<"StartupSucceeded">>
        BY <3>1
      <3>3. reports' \in Seq(Stages) /\ Len(reports') = 1
            /\ reports'[1] = "StartupSucceeded"
        BY <3>2 DEF Stages
      <3>4. QED  BY <1>0, <3>1, <3>3 DEF ReportInv
    <2>4. CASE SignalStartupReported
      BY <1>0, <2>4 DEF SignalStartupReported, ReportInv, SetEvent, failureVars
    <2>5. QED  BY <2>1, <2>2, <2>3, <2>4 DEF StartAndWait
  <1>7. QED  BY <1>2, <1>4, <1>5, <1>6 DEF EngineInv

(* What the recorders hold when one of them begins to record.              *)
LEMMA ClaimInv ==
    ASSUME RecordInv, NEW r \in Recorders, NEW stage \in FailureStages, Claim(r, stage),
           UNCHANGED <<failure_claimed, failure_stage, events>>
    PROVE  RecordInv' /\ (Settled => Settled') /\ record'[r].step = "claim"
  <1>1. record \in [Recorders -> [step: {"idle", "claim", "store", "signal"},
                                  stage: FailureStages \union {"None"}]]
    BY DEF RecordInv
  <1>2. /\ record' \in [Recorders -> [step: {"idle", "claim", "store", "signal"},
                                      stage: FailureStages \union {"None"}]]
        /\ record'[r].step = "claim"
        /\ \A q \in Recorders : q # r => record'[q] = record[q]
    BY <1>1 DEF Claim
  <1>3. Holding' \subseteq Holding
    BY <1>2 DEF Holding
  <1>4. Settled => Settled'
    BY <1>2 DEF Settled
  <1>5. QED  BY <1>2, <1>3, <1>4 DEF RecordInv

LEMMA AudioThreadInv ==
    ASSUME EngineInv, AudioThread \/ RenderFails, UNCHANGED <<voice, stale_clock>>
    PROVE  EngineInv'
  <1>0. RecordInv /\ SuccessInv /\ ReportInv /\ VoiceInv
    BY DEF EngineInv
  <1>1. /\ UNCHANGED <<exact, start, reports, monitor, failure_claimed, failure_stage>>
        /\ "fatal" \in events' => "fatal" \in events
        /\ "startup_reported" \in events' => "startup_reported" \in events
    BY DEF AudioThread, CreateEndpoint, PrepareOutput, RegisterExactJudgementTimeline,
           StartEndpoint, AnnounceSuccess, LeaveRenderLoop, RenderRecorded,
           InvalidateClock, UnregisterExactJudgementTimeline, ReleaseEndpoint,
           SignalInitializationFailure, AudioThreadExits, RenderFails, AudioFrame,
           startVars, failureVars, SetEvent
  <1>2. VoiceInv'
    BY <1>0, <1>1 DEF VoiceInv
  <1>3. CASE RenderFails
    <2>1. PICK stage \in FailureStages : Claim("audio", stage)
      BY <1>3 DEF RenderFails
    <2>2. UNCHANGED <<events, succeeded>> /\ audio' = "record" /\ audio = "render"
      BY <1>3 DEF RenderFails
    <2>3. RecordInv' /\ (Settled => Settled') /\ record'["audio"].step = "claim"
      BY <1>0, <1>1, <2>1, <2>2, ClaimInv DEF Recorders
    <2>4. SuccessInv'
      BY <1>0, <1>1, <2>2, <2>3 DEF SuccessInv, AudioDone
    <2>5. ReportInv'
      BY <1>0, <1>1, <2>3, SameReports
    <2>6. QED  BY <1>2, <2>3, <2>4, <2>5 DEF EngineInv
  <1>4. CASE AudioThread
    <2>1. UNCHANGED failureVars
      BY <1>4 DEF AudioThread, CreateEndpoint, PrepareOutput,
           RegisterExactJudgementTimeline, StartEndpoint, AnnounceSuccess,
           LeaveRenderLoop, RenderRecorded, InvalidateClock,
           UnregisterExactJudgementTimeline, ReleaseEndpoint,
           SignalInitializationFailure, AudioThreadExits
    <2>2. RecordInv' /\ (Settled => Settled')
      BY <1>0, <1>1, <2>1, SameRecords
    <2>3. ReportInv'
      BY <1>0, <1>1, <2>2, SameReports
    <2>4. start' = start /\ failure_claimed' = failure_claimed /\ record' = record
      BY <1>1, <2>1 DEF failureVars
    <2>5. SuccessInv'
      <3>1. CASE CreateEndpoint \/ PrepareOutput \/ RegisterExactJudgementTimeline
                 \/ StartEndpoint
        BY <1>0, <2>4, <3>1 DEF CreateEndpoint, PrepareOutput,
               RegisterExactJudgementTimeline, StartEndpoint, SuccessInv, AudioDone
      <3>2. CASE AnnounceSuccess
        BY <1>0, <2>4, <3>2 DEF AnnounceSuccess, SuccessInv, AudioDone
      <3>3. CASE LeaveRenderLoop \/ RenderRecorded
        BY <1>0, <2>4, <3>3 DEF LeaveRenderLoop, RenderRecorded, SuccessInv, RecordInv,
                                AudioDone
      <3>4. CASE InvalidateClock \/ UnregisterExactJudgementTimeline \/ ReleaseEndpoint
        BY <1>0, <2>4, <3>4 DEF InvalidateClock, UnregisterExactJudgementTimeline,
               ReleaseEndpoint, AfterCleanup, SuccessInv, AudioDone
      <3>5. CASE SignalInitializationFailure \/ AudioThreadExits
        BY <1>0, <2>4, <3>5 DEF SignalInitializationFailure, AudioThreadExits,
               SuccessInv, AudioDone
      <3>6. QED
        BY <1>4, <3>1, <3>2, <3>3, <3>4, <3>5 DEF AudioThread
    <2>6. QED  BY <1>2, <2>2, <2>3, <2>5 DEF EngineInv
  <1>5. QED  BY <1>3, <1>4
(* The first to claim stores its stage, and nobody after it.               *)
LEMMA RecorderInv ==
    ASSUME EngineInv, NEW r \in Recorders, RecordRuntimeFailure(r),
           UNCHANGED <<voice, stale_clock>>
    PROVE  EngineInv'
  <1>0. RecordInv /\ SuccessInv /\ ReportInv /\ VoiceInv
    BY DEF EngineInv
  <1>1. /\ UNCHANGED <<exact, start, reports, audio, monitor, succeeded>>
        /\ failure_claimed => failure_claimed'
        /\ "startup_reported" \in events' => "startup_reported" \in events
    BY DEF RecordRuntimeFailure, ClaimFailure, StoreFailure, SignalFailure,
           RecordFrame, startVars, audioVars, SetEvent
  <1>2. record \in [Recorders -> [step: {"idle", "claim", "store", "signal"},
                                  stage: FailureStages \union {"None"}]]
    BY <1>0 DEF RecordInv
  <1>3. VoiceInv'
    BY <1>0, <1>1 DEF VoiceInv
  <1>4. ASSUME \/ record'["audio"] = record["audio"]
               \/ failure_claimed'
        PROVE  SuccessInv'
    BY <1>0, <1>1, <1>4 DEF SuccessInv
  <1>5. CASE ClaimFailure(r)
    <2>1. /\ failure_claimed' /\ UNCHANGED <<events, failure_stage>>
          /\ record[r].step = "claim"
      BY <1>5 DEF ClaimFailure
    <2>2. SuccessInv'
      BY <1>4, <2>1
    <2>3. CASE failure_claimed
      <3>1. record' = [record EXCEPT ![r] = Idle]
        BY <1>5, <2>3 DEF ClaimFailure
      <3>2. /\ record' \in [Recorders -> [step: {"idle", "claim", "store", "signal"},
                                          stage: FailureStages \union {"None"}]]
            /\ record'[r].step = "idle"
            /\ \A q \in Recorders : q # r => record'[q] = record[q]
        BY <1>2, <3>1 DEF Idle
      <3>3. Holding' \subseteq Holding
        BY <3>2 DEF Holding
      <3>4. Settled => Settled'
        BY <2>1, <3>2 DEF Settled
      <3>5. RecordInv'
        BY <1>0, <2>1, <3>2, <3>3, <3>4 DEF RecordInv
      <3>6. ReportInv'
        BY <1>0, <1>1, <2>1, <3>4, SameReports
      <3>7. QED  BY <1>3, <2>2, <3>5, <3>6 DEF EngineInv
    <2>4. CASE ~failure_claimed
      <3>1. record' = [record EXCEPT ![r].step = "store"]
        BY <1>5, <2>4 DEF ClaimFailure, Advance
      <3>2. /\ record' \in [Recorders -> [step: {"idle", "claim", "store", "signal"},
                                          stage: FailureStages \union {"None"}]]
            /\ \A q \in Recorders : q # r => record'[q] = record[q]
        BY <1>2, <3>1
      <3>3. Holding = {} /\ ~Settled
        BY <1>0, <2>4 DEF RecordInv, Settled
      <3>4. Holding' \subseteq {r}
        BY <3>2, <3>3 DEF Holding
      <3>5. RecordInv'
        BY <1>0, <2>1, <3>2, <3>3, <3>4 DEF RecordInv
      <3>6. ReportInv'
        BY <1>0, <1>1, <2>1, <3>3, SameReports
      <3>7. QED  BY <1>3, <2>2, <3>5, <3>6 DEF EngineInv
    <2>5. QED  BY <2>3, <2>4
  <1>6. CASE StoreFailure(r)
    <2>1. /\ record[r].step = "store" /\ failure_stage' = record[r].stage
          /\ record' = [record EXCEPT ![r].step = "signal"]
          /\ UNCHANGED <<events, failure_claimed>>
      BY <1>6 DEF StoreFailure, Advance
    <2>2. /\ record' \in [Recorders -> [step: {"idle", "claim", "store", "signal"},
                                        stage: FailureStages \union {"None"}]]
          /\ record'[r].step = "signal"
          /\ \A q \in Recorders : q # r => record'[q] = record[q]
          /\ failure_stage' \in FailureStages \union {"None"}
      BY <1>2, <2>1
    <2>3. r \in Holding /\ Holding' = Holding /\ failure_claimed /\ ~Settled
      BY <1>0, <2>1, <2>2 DEF Holding, RecordInv, Settled
    <2>4. RecordInv'
      BY <1>0, <2>1, <2>2, <2>3 DEF RecordInv
    <2>5. Len(reports) # 2 /\ "fatal" \notin events
      BY <1>0, <2>3 DEF ReportInv, RecordInv
    <2>6. ReportInv'
      BY <1>0, <1>1, <2>1, <2>5 DEF ReportInv
    <2>7. SuccessInv'
      BY <1>4, <2>1, <2>3
    <2>8. QED  BY <1>3, <2>4, <2>6, <2>7 DEF EngineInv
  <1>7. CASE SignalFailure(r)
    <2>1. /\ record[r].step = "signal" /\ events' = events \union {"fatal"}
          /\ record' = [record EXCEPT ![r] = Idle]
          /\ UNCHANGED <<failure_claimed, failure_stage>>
      BY <1>7 DEF SignalFailure, SetEvent
    <2>2. /\ record' \in [Recorders -> [step: {"idle", "claim", "store", "signal"},
                                        stage: FailureStages \union {"None"}]]
          /\ record'[r].step = "idle"
          /\ \A q \in Recorders : q # r => record'[q] = record[q]
      BY <1>2, <2>1 DEF Idle
    <2>3. r \in Holding /\ Holding' \subseteq Holding /\ failure_claimed
      BY <1>0, <2>1, <2>2 DEF Holding, RecordInv
    <2>4. Settled'
      BY <1>0, <2>1, <2>2, <2>3 DEF Settled, Holding, RecordInv
    <2>5. RecordInv'
      BY <1>0, <2>1, <2>2, <2>3, <2>4 DEF RecordInv
    <2>6. ReportInv'
      BY <1>0, <1>1, <2>1, <2>4, SameReports
    <2>7. SuccessInv'
      BY <1>4, <2>1, <2>3
    <2>8. QED  BY <1>3, <2>5, <2>6, <2>7 DEF EngineInv
  <1>8. QED
    BY <1>5, <1>6, <1>7 DEF RecordRuntimeFailure

LEMMA Appended ==
    ASSUME NEW S, NEW told \in Seq(S), NEW stage \in S
    PROVE  /\ Append(told, stage) \in Seq(S)
           /\ Len(Append(told, stage)) = Len(told) + 1
           /\ \A i \in 1 .. Len(told) : Append(told, stage)[i] = told[i]
           /\ Append(told, stage)[Len(told) + 1] = stage
  OBVIOUS

LEMMA MonitorInv ==
    ASSUME EngineInv, MonitorThread \/ DismissModal, UNCHANGED <<voice, stale_clock>>
    PROVE  EngineInv'
  <1>0. RecordInv /\ SuccessInv /\ ReportInv /\ VoiceInv
    BY DEF EngineInv
  <1>1. /\ UNCHANGED failureVars
        /\ UNCHANGED <<exact, start, audio, events, succeeded>>
    BY DEF MonitorThread, MonitorSeesInitialization, MonitorSeesReport,
           MonitorReportsFailure, MonitorFrame, DismissModal, startVars, audioVars
  <1>2. RecordInv' /\ (Settled => Settled')
    BY <1>0, <1>1, SameRecords
  <1>3. VoiceInv' /\ SuccessInv'
    BY <1>0, <1>1 DEF VoiceInv, SuccessInv, failureVars
  <1>4. CASE MonitorSeesInitialization \/ MonitorSeesReport \/ DismissModal
    <2>1. UNCHANGED reports
      BY <1>4 DEF MonitorSeesInitialization, MonitorSeesReport, DismissModal, startVars
    <2>2. monitor' = "watch" => monitor = "watch" \/ start = "started"
      BY <1>0, <1>4 DEF MonitorSeesInitialization, MonitorSeesReport, DismissModal,
                        ReportInv
    <2>3. monitor = "ended" => monitor' = "ended"
      BY <1>4 DEF MonitorSeesInitialization, MonitorSeesReport, DismissModal
    <2>4. ReportInv'
      BY <1>0, <1>1, <1>2, <2>1, <2>2, <2>3, SameReports DEF failureVars
    <2>5. QED  BY <1>2, <1>3, <2>4 DEF EngineInv
  <1>5. CASE MonitorReportsFailure
    <2>1. /\ monitor = "watch" /\ monitor' = "ended" /\ "fatal" \in events
          /\ reports' = Append(reports, failure_stage)
      BY <1>5 DEF MonitorReportsFailure
    <2>2. /\ reports \in Seq(Stages) /\ Len(reports) = 1
          /\ reports[1] = "StartupSucceeded" /\ start = "started" /\ Settled
          /\ failure_stage \in Stages
      BY <1>0, <2>1 DEF ReportInv, RecordInv, Stages
    <2>3. /\ reports' \in Seq(Stages) /\ Len(reports') = 2
          /\ reports'[1] = "StartupSucceeded" /\ reports'[2] = failure_stage
      <3> DEFINE n == Len(reports)
      <3>1. reports \in Seq(Stages) /\ failure_stage \in Stages
        BY <2>2
      <3>2. /\ reports' \in Seq(Stages) /\ Len(reports') = n + 1
            /\ \A i \in 1 .. n : reports'[i] = reports[i]
            /\ reports'[n + 1] = failure_stage
        BY ONLY <2>1, <3>1, Appended
      <3>3. n = 1
        BY <2>2
      <3> HIDE DEF n
      <3>4. Len(reports') = 2 /\ reports'[1] = reports[1] /\ reports'[2] = failure_stage
        BY ONLY <3>2, <3>3
      <3>5. QED  BY <2>2, <3>2, <3>4
    <2>4. ReportInv'
      BY <1>0, <1>1, <1>2, <2>1, <2>2, <2>3 DEF ReportInv, failureVars
    <2>5. QED  BY <1>2, <1>3, <2>4 DEF EngineInv
  <1>6. QED  BY <1>4, <1>5 DEF MonitorThread

(* A checked voice meets no clock only after the clean-up has begun.       *)
LEMMA VoiceStepInv ==
    ASSUME EngineInv, CheckExactClock \/ UseExactClock \/ UseReleasedClock
    PROVE  EngineInv'
  <1>0. RecordInv /\ SuccessInv /\ ReportInv /\ VoiceInv
    BY DEF EngineInv
  <1>1. UNCHANGED <<exact, start, reports, audio, monitor, events, succeeded,
                    failure_claimed, failure_stage>>
    BY DEF CheckExactClock, UseExactClock, UseReleasedClock, VoiceFrame,
           startVars, audioVars
  <1>2. record' = record \/ Claim("game", "InitializeMixer")
    BY DEF CheckExactClock, UseExactClock, UseReleasedClock, VoiceFails
  <1>3. RecordInv' /\ (Settled => Settled') /\ record'["audio"] = record["audio"]
    <2>1. CASE record' = record
      BY <1>0, <1>1, <2>1, SameRecords DEF failureVars
    <2>2. CASE Claim("game", "InitializeMixer")
      <3>1. "InitializeMixer" \in FailureStages /\ "game" \in Recorders
        BY FailureStagesAssumption DEF Recorders
      <3>2. RecordInv' /\ (Settled => Settled')
        BY <1>0, <1>1, <2>2, <3>1, ClaimInv
      <3>3. record'["audio"] = record["audio"]
        BY <1>0, <2>2 DEF Claim, RecordInv, Recorders
      <3>4. QED  BY <3>2, <3>3
    <2>3. QED  BY <1>2, <2>1, <2>2
  <1>4. SuccessInv'
    BY <1>0, <1>1, <1>3 DEF SuccessInv
  <1>5. ReportInv'
    BY <1>0, <1>1, <1>3, SameReports
  <1>6. VoiceInv'
    <2>1. CASE CheckExactClock
      BY <1>0, <1>1, <2>1 DEF CheckExactClock, VoiceFails, VoiceInv
    <2>2. CASE UseExactClock
      BY <1>0, <1>1, <2>2 DEF UseExactClock, VoiceFails, VoiceInv
    <2>3. CASE UseReleasedClock
      <3>1. exact /\ start = "started" /\ ~ClockMember /\ voice' = "none"
        BY <1>0, <2>3 DEF UseReleasedClock, VoiceFails, VoiceInv
      <3>2. succeeded /\ audio \in AudioDone
        BY <1>0, <3>1 DEF SuccessInv, ClockMember
      <3>3. failure_claimed
        BY <1>0, <3>2 DEF SuccessInv
      <3>4. QED  BY <1>1, <3>1, <3>3 DEF VoiceInv
    <2>4. QED  BY <2>1, <2>2, <2>3
  <1>7. QED  BY <1>3, <1>4, <1>5, <1>6 DEF EngineInv

LEMMA SameEngine ==
    ASSUME EngineInv,
           UNCHANGED <<exact, start, audio, monitor, events, succeeded, failureVars,
                       reports, voice, stale_clock>>
    PROVE  EngineInv'
  <1>0. RecordInv /\ SuccessInv /\ ReportInv /\ VoiceInv
    BY DEF EngineInv
  <1>1. RecordInv' /\ (Settled => Settled')
    BY <1>0, SameRecords
  <1>2. ReportInv'
    BY <1>0, <1>1, SameReports DEF failureVars
  <1>3. SuccessInv' /\ VoiceInv'
    BY <1>0 DEF SuccessInv, VoiceInv, failureVars
  <1>4. QED  BY <1>1, <1>2, <1>3 DEF EngineInv

LEMMA SameSession ==
    ASSUME SessionInv, UNCHANGED asioVars
    PROVE  SessionInv'
  BY DEF SessionInv, OwnerInv, CallsInv, asioVars

LEMMA InitOutputInv == Init => EngineInv /\ SessionInv
  <1> SUFFICES ASSUME Init PROVE EngineInv /\ SessionInv
    OBVIOUS
  <1>1. RecordInv
    BY DEF Init, EngineInit, RecordInv, Idle, Holding, Recorders
  <1>2. SuccessInv /\ VoiceInv
    BY DEF Init, EngineInit, SuccessInv, VoiceInv
  <1>3. ReportInv
    BY DEF Init, EngineInit, ReportInv
  <1>4. SessionInv
    BY DEF Init, AsioInit, SessionInv, OwnerInv, CallsInv
  <1>5. QED  BY <1>1, <1>2, <1>3, <1>4 DEF EngineInv

LEMMA NextOutputInv ==
    EngineInv /\ SessionInv /\ [Next]_audioVars_ => EngineInv' /\ SessionInv'
  <1> SUFFICES ASSUME EngineInv, SessionInv, [Next]_audioVars_
               PROVE  EngineInv' /\ SessionInv'
    OBVIOUS
  <1>1. CASE Alive /\ EngineThreads
    <2>1. UNCHANGED asioVars /\ UNCHANGED <<voice, stale_clock>>
      BY <1>1 DEF EngineThreads, gameVars
    <2>2. EngineInv'
      BY <1>1, <2>1, AudioThreadInv, MonitorInv, RecorderInv DEF EngineThreads
    <2>3. QED  BY <2>1, <2>2, SameSession
  <1>2. CASE Alive /\ AsioThreads
    <2>1. OwnerInv /\ CallsInv
      BY <1>2 DEF Alive, SessionInv
    <2>2. SessionInv'
      BY <1>2, <2>1, OwnerStepInv, DriverStepInv DEF AsioThreads
    <2>3. EngineInv'
      BY <1>2, SameEngine DEF AsioThreads, engineVars, gameVars, failureVars
    <2>4. QED  BY <2>2, <2>3
  <1>3. CASE Alive /\ GameThread
    <2>1. OwnerInv /\ CallsInv
      BY <1>3 DEF Alive, SessionInv
    <2>2. CASE GameWaitsForEngine
      <3>1. EngineInv'
        BY <2>2, StartAndWaitInv DEF GameWaitsForEngine, gameVars
      <3>2. QED  BY <2>2, <3>1, SameSession DEF GameWaitsForEngine
    <2>3. CASE StartForWindow
      <3>1. UNCHANGED <<voice, stale_clock>>
        BY <2>3 DEF StartForWindow, BackendFrame
      <3>2. CASE backend = "asio"
        <4>1. StartOwner /\ UNCHANGED engineVars
          BY <2>3, <3>2 DEF StartForWindow
        <4>2. ~fatal' => OwnerInv'
          BY <2>1, <4>1 DEF StartOwner, OwnerInv, Fatal, driverVars, callbackVars
        <4>3. CallsInv'
          BY <2>1, <4>1 DEF StartOwner, CallsInv, driverVars, callbackVars
        <4>4. EngineInv'
          BY <3>1, <4>1, SameEngine DEF engineVars, failureVars
        <4>5. QED  BY <4>2, <4>3, <4>4 DEF SessionInv
      <3>3. CASE backend # "asio"
        BY <2>3, <3>1, <3>3, StartAndWaitInv, SameSession DEF StartForWindow
      <3>4. QED  BY <3>2, <3>3
    <2>4. CASE CheckExactClock \/ UseExactClock \/ UseReleasedClock
      BY <2>4, VoiceStepInv, SameSession DEF CheckExactClock, UseExactClock,
                                             UseReleasedClock, VoiceFrame
    <2>5. CASE CloseAsio
      <3>1. SessionInv'
        BY <2>1, <2>5 DEF CloseAsio, RequestShutdown, Fatal, SessionInv, OwnerInv,
                          CallsInv, driverVars, callbackVars
      <3>2. EngineInv'
        BY <2>5, SameEngine DEF CloseAsio, BackendFrame, engineVars, failureVars
      <3>3. QED  BY <3>1, <3>2
    <2>6. CASE PrepareAndPublishAudioRuntime \/ DirectSoundCreate8 \/ StartReturns
               \/ JoinOwner
      <3>1. UNCHANGED <<exact, start, audio, monitor, events, succeeded, failureVars,
                        reports, voice, stale_clock>>
        BY <2>6 DEF PrepareAndPublishAudioRuntime, DirectSoundCreate8, StartReturns,
               JoinOwner, GameAborts, ProcessOnly, BackendFrame, engineVars, failureVars
      <3>2. UNCHANGED asioVars
        BY <2>6 DEF PrepareAndPublishAudioRuntime, DirectSoundCreate8, StartReturns,
               JoinOwner
      <3>3. QED  BY <3>1, <3>2, SameEngine, SameSession
    <2>7. QED
      BY <1>3, <2>2, <2>3, <2>4, <2>5, <2>6 DEF GameThread
  <1>4. CASE UNCHANGED audioVars_
    BY <1>4, SameEngine, SameSession DEF audioVars_, engineVars, gameVars, failureVars
  <1>5. QED  BY <1>1, <1>2, <1>3, <1>4 DEF Next

LEMMA OutputInvariant == Spec => [](EngineInv /\ SessionInv)
  BY InitOutputInv, NextOutputInv, PTL DEF Spec

(* MonitorThreadMain and RecordRuntimeFailure: the observer hears of the   *)
(* start before it hears of a failure, of one only, and of the one that    *)
(* was claimed first, whatever the three threads do in between.            *)
THEOREM ObserverToldInOrder == Spec => []ReportsInOrder
  <1>1. EngineInv => ReportsInOrder
    <2> SUFFICES ASSUME EngineInv PROVE ReportsInOrder
      OBVIOUS
    <2>1. ReportInv
      BY DEF EngineInv
    <2>2. CASE start \notin {"signal", "started"}
      <3>1. Len(reports) = 0
        BY <2>1, <2>2 DEF ReportInv
      <3>2. QED  BY <3>1 DEF ReportsInOrder
    <2>3. CASE start \in {"signal", "started"}
      <3>1. /\ Len(reports) \in {1, 2} /\ reports[1] = "StartupSucceeded"
            /\ Len(reports) = 2 => reports[2] = failure_stage
        BY <2>1, <2>3 DEF ReportInv
      <3> DEFINE k == Len(reports)
      <3>2. k \in {1, 2}
        BY <3>1
      <3> HIDE DEF k
      <3>3. k <= 2
        BY ONLY <3>2
      <3>4. QED  BY <3>1, <3>3 DEF ReportsInOrder, k
    <2>4. QED  BY <2>2, <2>3
  <1>2. QED  BY OutputInvariant, <1>1, PTL

(* CreateVoice looks at the exact clock twice without a lock: the second   *)
(* look finds it released only in an output that has claimed a failure.    *)
THEOREM ReleasedClockAfterFailure == Spec => []StaleClockOnlyAfterFailure
  <1>1. EngineInv => StaleClockOnlyAfterFailure
    BY DEF EngineInv, VoiceInv, StaleClockOnlyAfterFailure
  <1>2. QED  BY OutputInvariant, <1>1, PTL

(* AsioOutputBackend: any number of overlapping driver calls, also while   *)
(* the driver is being stopped, find the published session, and only one   *)
(* of them fills a buffer.                                                 *)
THEOREM CallbacksFindSession == Spec => []CallbackHasSession
  <1>1. SessionInv => CallbackHasSession
    BY SessionServesCallbacks
  <1>2. QED  BY OutputInvariant, <1>1, PTL

-----------------------------------------------------------------------------
(* ExactWasapiClock.                                                       *)
USE ClockAssumption DEF ClockAssumption

(* The writer has begun to store publication p and has not finished.       *)
Open(p) == p = publications - 1 /\ store \in 1 .. StoreVersion

WriterInv ==
    /\ publications = Len(anchors)
    /\ published_count = IF store = 0 THEN publications ELSE publications - 1
    /\ store # 0 => publications > 0 /\ previous = <<anchors[publications]>>

(* A publication can be read from its slot exactly when it is finished and *)
(* not overtaken, and then what is read is its anchor.                     *)
SlotInv(p) ==
    /\ version[Slot(p)] = Complete(p)
           <=> ~Open(p) /\ publications <= p + Capacity
    /\ version[Slot(p)] = Complete(p) => payload[Slot(p)] = anchors[p + 1]
    /\ Open(p) => \A f \in 1 .. Len(Fields) :
           f < store => payload[Slot(p)][Fields[f]] = anchors[p + 1][Fields[f]]

RingInv == WriterInv /\ \A p \in 0 .. publications - 1 : SlotInv(p)

(* The reader looks for something that was published.                      *)
SearchInv ==
    IF step = "idle"
    THEN offset = 0 /\ selected = <<>> /\ unstable = FALSE
    ELSE /\ published \in 1 .. published_count
         /\ offset \in 0 .. published - 1 /\ offset < Capacity

(* While the version has not moved on, the fields loaded are the anchor's. *)
LoadInv ==
    step \in {"field", "check"}
        /\ version[Slot(Publication)] = Complete(Publication)
    => \A f \in 1 .. Len(Fields) :
           f < field \/ step = "check" =>
               candidate[Fields[f]] = anchors[published - offset][Fields[f]]

(* Once one publication was overtaken, so is every older one.              *)
OvertakenInv == unstable => publications > Publication + Capacity

(* What was passed over is later than the time asked for.                  *)
PassedInv ==
    step # "idle" /\ ~unstable =>
        \A o \in 0 .. offset - 1 : anchors[published - o].qpc > time

FoundInv ==
    /\ step # "finish" => selected = <<>>
    /\ step = "finish" =>
         \/ /\ selected = <<anchors[published - offset]>>
            /\ anchors[published - offset].qpc <= time
            /\ ~unstable
         \/ selected = <<>> /\ unstable
         \/ /\ selected = <<>> /\ ~unstable
            /\ oldest = <<anchors[published - offset]>>
            /\ anchors[published - offset].qpc > time
            /\ offset + 1 = published \/ offset + 1 = Capacity

ReaderInv == SearchInv /\ LoadInv /\ OvertakenInv /\ PassedInv /\ FoundInv

ClockInv == ClockTypeOK /\ RingInv /\ ReaderInv

-----------------------------------------------------------------------------
(* Slot arithmetic: publications of one slot are whole turns apart.        *)
LEMMA SlotsOfOneTurn ==
    ASSUME NEW p \in Nat, NEW q \in Nat, p < q, Slot(p) = Slot(q)
    PROVE  p + Capacity <= q
  <1> DEFINE a == p \div Capacity
             b == q \div Capacity
  <1>1. /\ a \in Int /\ b \in Int
        /\ p = (Capacity * a) + (p % Capacity)
        /\ q = (Capacity * b) + (q % Capacity)
    OBVIOUS
  <1>2. q - p = Capacity * b - Capacity * a
    BY <1>1 DEF Slot
  <1> HIDE DEF a, b
  <1>3. Capacity * b - Capacity * a = Capacity * (b - a)
    BY <1>1
  <1>4. b - a >= 1
    <2>1. SUFFICES ASSUME b - a <= 0 PROVE FALSE
      BY <1>1
    <2>2. Capacity * (b - a) <= 0
      BY <2>1, <1>1
    <2>3. QED  BY <2>2, <1>2, <1>3
  <1>5. Capacity * (b - a) >= Capacity
    BY <1>4, <1>1
  <1>6. QED  BY <1>2, <1>3, <1>5

LEMMA NextTurn ==
    ASSUME NEW p \in Nat
    PROVE  Slot(p + Capacity) = Slot(p)
  <1> DEFINE a == p \div Capacity
             r == p % Capacity
  <1>1. a \in Int /\ r \in 0 .. Capacity - 1 /\ p = Capacity * a + r
    OBVIOUS
  <1> HIDE DEF a, r
  <1>2. p + Capacity = Capacity * (a + 1) + r
    BY <1>1
  <1>3. (p + Capacity) % Capacity = r
    BY <1>1, <1>2
  <1>4. QED  BY <1>3 DEF Slot, r

LEMMA SlotInSlots == \A p \in Int : Slot(p) \in Slots
  BY DEF Slot, Slots

-----------------------------------------------------------------------------
(* Types.                                                                  *)
LEMMA FieldNames ==
    /\ Len(Fields) = 3 /\ StoreVersion = 4 /\ StoreCount = 5
    /\ Fields[1] = "position" /\ Fields[2] = "qpc" /\ Fields[3] = "tail"
  BY DEF Fields, StoreVersion, StoreCount

USE FieldNames

LEMMA PlainType ==
    \A status \in Statuses, tick \in Nat : Plain(status, tick) \in Answer
  BY DEF Plain, Answer

LEMMA VerdictType ==
    ASSUME ClockTypeOK, step = "finish"
    PROVE  Verdict \in Answer
  <1>1. \A anchor \in Anchor : FrameAt(anchor, time) \in Int
    <2>1. UnitsPerTick \in Nat /\ OutputRate \in Nat /\ time \in Nat
      BY ClockAssumption DEF ClockTypeOK
    <2>2. \A anchor \in Anchor : anchor.position \in Nat /\ anchor.qpc \in Nat
      BY DEF Anchor
    <2>3. \A anchor \in Anchor : PositionAt(anchor, time) \in Int
      BY ONLY <2>1, <2>2 DEF PositionAt
    <2>4. QED  BY ONLY <2>1, <2>3 DEF FrameAt
  <1>2. \A anchor \in Anchor : Project(anchor) \in Answer
    BY <1>1, PlainType DEF Project, Answer, Statuses, ClockTypeOK
  <1>3. selected # <<>> => selected[1] \in Anchor
    BY DEF ClockTypeOK
  <1>4. QED  BY <1>2, <1>3, PlainType DEF Verdict, Statuses, ClockTypeOK

(* The type invariant in parts: the ring, the search, the flags.           *)
RingType ==
    /\ version \in [Slots -> Nat] /\ payload \in [Slots -> Anchor]
    /\ published_count \in Nat
    /\ publications \in Nat
    /\ previous \in Seq(Anchor) /\ Len(previous) <= 1
    /\ store \in 0 .. StoreCount
    /\ anchors \in Seq(Anchor)

SearchType ==
    /\ step \in {"idle", "version", "field", "check", "finish"}
    /\ time \in Nat /\ published \in Nat /\ offset \in Nat
    /\ attempt \in 1 .. ReadAttempts
    /\ field \in 1 .. Len(Fields)
    /\ candidate \in Anchor

FoundType ==
    /\ selected \in Seq(Anchor) /\ Len(selected) <= 1
    /\ oldest \in Seq(Anchor) /\ Len(oldest) <= 1

FlagType == invalidated \in BOOLEAN /\ unstable \in BOOLEAN

LEMMA TypeParts ==
    ClockTypeOK <=> /\ RingType /\ SearchType /\ FoundType /\ FlagType
                    /\ answer \in Answer
  BY DEF ClockTypeOK, RingType, SearchType, FoundType, FlagType

LEMMA TypePartsNext ==
    RingType' /\ SearchType' /\ FoundType' /\ FlagType' /\ answer' \in Answer
        => ClockTypeOK'
  BY DEF ClockTypeOK, RingType, SearchType, FoundType, FlagType

LEMMA KeepRing ==
    RingType /\ UNCHANGED <<slotVars, published_count, writerVars>>
        => RingType'
  BY DEF RingType, slotVars, writerVars

LEMMA KeepReader ==
    /\ SearchType /\ FoundType /\ unstable \in BOOLEAN /\ answer \in Answer
    /\ UNCHANGED readerVars
    => /\ SearchType' /\ FoundType' /\ unstable' \in BOOLEAN
       /\ answer' \in Answer
  BY DEF SearchType, FoundType, readerVars, localVars

LEMMA TypeInit == ClockInit => ClockTypeOK
  <1> SUFFICES ASSUME ClockInit PROVE ClockTypeOK
    OBVIOUS
  <1>1. NoAnchor \in Anchor
    BY DEF NoAnchor, Anchor
  <1>2. RingType
    BY <1>1 DEF ClockInit, RingType
  <1>3. SearchType
    BY <1>1 DEF ClockInit, SearchType
  <1>4. FoundType
    BY DEF ClockInit, FoundType
  <1>5. FlagType
    BY DEF ClockInit, FlagType
  <1>6. answer \in Answer
    BY PlainType DEF ClockInit, Statuses
  <1>7. QED  BY <1>2, <1>3, <1>4, <1>5, <1>6, TypeParts

LEMMA ReturnType ==
    ASSUME NEW result \in Answer, Return(result)
    PROVE  SearchType' /\ FoundType' /\ unstable' = FALSE /\ answer' \in Answer
  <1>1. NoAnchor \in Anchor
    BY DEF NoAnchor, Anchor
  <1>2. SearchType'
    BY <1>1 DEF Return, SearchType
  <1>3. FoundType' /\ unstable' = FALSE /\ answer' \in Answer
    BY DEF Return, FoundType
  <1>4. QED  BY <1>2, <1>3

(* What becomes of the search when a turn fails, or an anchor is read.     *)
LEMMA NotStableType ==
    ASSUME SearchType, FoundType, unstable \in BOOLEAN, NotStable,
           field' \in 1 .. Len(Fields), time' = time, published' = published,
           candidate' = candidate
    PROVE  SearchType' /\ FoundType' /\ unstable' \in BOOLEAN
  <1>1. SearchType'
    BY DEF SearchType, NotStable, NextOffset
  <1>2. FoundType'
    BY DEF FoundType, NotStable
  <1>3. unstable' \in BOOLEAN
    BY Zenon DEF NotStable
  <1>4. QED  BY <1>1, <1>2, <1>3

LEMMA ConsiderType ==
    ASSUME SearchType, FoundType, unstable \in BOOLEAN, Consider(candidate),
           field' = field, time' = time, published' = published,
           candidate' = candidate
    PROVE  SearchType' /\ FoundType' /\ unstable' \in BOOLEAN
  <1>1. SearchType'
    BY DEF SearchType, Consider, NextOffset
  <1>2. FoundType'
    <2>1. candidate \in Anchor
      BY DEF SearchType
    <2>2. <<candidate>> \in Seq(Anchor) /\ Len(<<candidate>>) = 1
      BY <2>1
    <2>3. oldest' \in Seq(Anchor) /\ Len(oldest') <= 1
      BY <2>2 DEF Consider
    <2>4. CASE selected' = <<candidate>>
      BY <2>2, <2>3, <2>4 DEF FoundType
    <2>5. CASE selected' = selected
      BY <2>3, <2>5 DEF FoundType
    <2>6. QED  BY <2>4, <2>5 DEF Consider
  <1>3. unstable' \in BOOLEAN
    BY DEF Consider
  <1>4. QED  BY <1>1, <1>2, <1>3

LEMMA TypeStep ==
    ClockTypeOK /\ WriterInv /\ [ClockNext]_clockVars => ClockTypeOK'
  <1> SUFFICES ASSUME ClockTypeOK, WriterInv, [ClockNext]_clockVars
               PROVE  ClockTypeOK'
    OBVIOUS
  <1>0. /\ RingType /\ SearchType /\ FoundType /\ answer \in Answer
        /\ invalidated \in BOOLEAN /\ unstable \in BOOLEAN
    BY TypeParts DEF FlagType
  <1>1. ASSUME NEW anchor \in Anchor, Publish(anchor) PROVE ClockTypeOK'
    <2>1. RingType'
      <3>1. CASE invalidated \/ ~NotDecreasing(anchor)
        BY <1>0, <1>1, <3>1, KeepRing DEF Publish
      <3>2. CASE ~(invalidated \/ ~NotDecreasing(anchor))
        <4>1. Writing(publications) \in Nat
          BY <1>0 DEF RingType, Writing
        <4>2. version' \in [Slots -> Nat]
          BY <1>0, <1>1, <3>2, <4>1 DEF RingType, Publish
        <4>3. /\ publications' = publications + 1 /\ store' = 1
              /\ previous' = <<anchor>> /\ anchors' = Append(anchors, anchor)
              /\ UNCHANGED <<payload, published_count>>
          BY <1>1, <3>2 DEF Publish
        <4>4. /\ previous' \in Seq(Anchor) /\ Len(previous') = 1
              /\ anchors' \in Seq(Anchor)
          BY <1>0, <1>1, <4>3 DEF RingType
        <4>5. QED  BY <1>0, <4>2, <4>3, <4>4 DEF RingType
      <3>3. QED  BY <3>1, <3>2
    <2>2. invalidated' \in BOOLEAN
      BY <1>0, <1>1 DEF Publish, Invalidate
    <2>3. UNCHANGED readerVars
      BY <1>1 DEF Publish
    <2>4. QED  BY <1>0, <2>1, <2>2, <2>3, KeepReader, TypePartsNext DEF FlagType
  <1>2. CASE FinishPublish
    <2>1. RingType'
      <3>1. CASE StorePayload
        <4>1. previous[1] \in Anchor
          BY <1>0, <3>1 DEF StorePayload, WriterInv, RingType
        <4>2. previous[1][Fields[store]] \in Nat
          BY <3>1, <4>1 DEF StorePayload, Anchor
        <4>3. payload' \in [Slots -> Anchor]
          BY <1>0, <3>1, <4>2 DEF StorePayload, Anchor, RingType
        <4>4. QED  BY <1>0, <3>1, <4>3 DEF StorePayload, RingType
      <3>2. CASE StoreEvenVersion
        <4>1. Complete(publications - 1) \in Nat
          BY <1>0, <3>2 DEF StoreEvenVersion, WriterInv, RingType, Complete
        <4>2. version' \in [Slots -> Nat]
          BY <1>0, <3>2, <4>1 DEF StoreEvenVersion, RingType
        <4>3. QED  BY <1>0, <3>2, <4>2 DEF StoreEvenVersion, RingType
      <3>3. CASE StorePublishedCount
        BY <1>0, <3>3 DEF StorePublishedCount, RingType, slotVars
      <3>4. QED  BY <1>2, <3>1, <3>2, <3>3 DEF FinishPublish
    <2>2. UNCHANGED <<invalidated, readerVars>>
      BY <1>2 DEF FinishPublish, StorePayload, StoreEvenVersion,
                  StorePublishedCount
    <2>3. QED  BY <1>0, <2>1, <2>2, KeepReader, TypePartsNext DEF FlagType
  <1>3. CASE Invalidate /\ UNCHANGED <<slotVars, published_count, writerVars,
                                       readerVars>>
    BY <1>0, <1>3, KeepRing, KeepReader, TypePartsNext DEF Invalidate, FlagType
  <1>4. ASSUME NEW tick \in Nat, BeginResolve(tick) PROVE ClockTypeOK'
    <2>1. SearchType' /\ FoundType' /\ unstable' \in BOOLEAN
              /\ answer' \in Answer
      <3>1. CASE invalidated \/ published_count = 0
        <4>1. Return(Plain(IF invalidated THEN "Discontinuous" ELSE "Pending",
                           tick))
          BY <1>4, <3>1 DEF BeginResolve
        <4>2. QED  BY <4>1, ReturnType, PlainType DEF Statuses
      <3>2. CASE ~invalidated /\ published_count > 0
        <4>1. /\ step' = "version" /\ time' = tick
              /\ published' = published_count
              /\ UNCHANGED <<offset, attempt, field, candidate, selected,
                             oldest, unstable, answer>>
          BY <1>0, <1>4, <3>2 DEF BeginResolve, RingType
        <4>2. SearchType'
          BY <1>0, <4>1 DEF SearchType, RingType
        <4>3. QED  BY <1>0, <4>1, <4>2 DEF FoundType
      <3>3. QED  BY <1>4, <3>1, <3>2 DEF BeginResolve
    <2>2. UNCHANGED <<slotVars, published_count, invalidated, writerVars>>
      BY <1>4 DEF BeginResolve
    <2>3. QED  BY <1>0, <2>1, <2>2, KeepRing, TypePartsNext DEF FlagType
  <1>5. CASE Search
    <2>1. UNCHANGED <<slotVars, published_count, invalidated, writerVars>>
      BY <1>5 DEF Search, LoadVersion, LoadField, LoadVersionAgain, Finish
    <2>2. SearchType' /\ FoundType' /\ unstable' \in BOOLEAN
              /\ answer' \in Answer
      <3>1. CASE LoadVersion
        <4>1. field' = 1 /\ UNCHANGED <<time, published, candidate, answer>>
          BY <3>1 DEF LoadVersion
        <4>2. CASE NotStable
          BY <1>0, <4>1, <4>2, NotStableType
        <4>3. CASE step' = "field" /\ UNCHANGED <<offset, attempt, selected,
                                                  oldest, unstable>>
          BY <1>0, <4>1, <4>3 DEF SearchType, FoundType
        <4>4. QED  BY <3>1, <4>2, <4>3 DEF LoadVersion
      <3>2. CASE LoadField
        <4>1. Slot(Publication) \in Slots
          BY <1>0, SlotInSlots DEF Publication, SearchType
        <4>2. payload[Slot(Publication)] \in Anchor
          BY <1>0, <4>1 DEF RingType
        <4>3. candidate' \in Anchor
          BY <1>0, <3>2, <4>2 DEF LoadField, SearchType, Anchor
        <4>4. SearchType'
          BY <1>0, <3>2, <4>3 DEF LoadField, SearchType
        <4>5. QED  BY <1>0, <3>2, <4>4 DEF LoadField, FoundType
      <3>3. CASE LoadVersionAgain
        <4>1. UNCHANGED <<time, published, field, candidate, answer>>
          BY <3>3 DEF LoadVersionAgain
        <4>2. CASE Consider(candidate)
          BY <1>0, <4>1, <4>2, ConsiderType
        <4>3. CASE NotStable
          BY <1>0, <4>1, <4>3, NotStableType DEF SearchType
        <4>4. QED  BY <3>3, <4>2, <4>3 DEF LoadVersionAgain
      <3>4. CASE Finish
        <4>1. Verdict \in Answer
          BY <3>4, VerdictType DEF Finish
        <4>2. QED  BY <3>4, <4>1, ReturnType DEF Finish
      <3>5. QED  BY <1>5, <3>1, <3>2, <3>3, <3>4 DEF Search
    <2>3. QED  BY <1>0, <2>1, <2>2, KeepRing, TypePartsNext DEF FlagType
  <1>6. CASE UNCHANGED clockVars
    BY <1>0, <1>6, KeepRing, KeepReader, TypePartsNext DEF clockVars, FlagType
  <1>7. QED
    BY <1>1, <1>2, <1>3, <1>4, <1>5, <1>6 DEF ClockNext

-----------------------------------------------------------------------------
(* The ring, step by step of the writer.                                   *)
LEMMA RingPublish ==
    ASSUME ClockTypeOK, RingInv, NEW anchor \in Anchor,
           Publish(anchor), ~(invalidated \/ ~NotDecreasing(anchor))
    PROVE  RingInv'
  <1> DEFINE n == publications
  <1>1. RingType
    BY TypeParts
  <1>2. /\ store = 0 /\ store' = 1 /\ publications' = n + 1
        /\ version' = [version EXCEPT ![Slot(n)] = Writing(n)]
        /\ previous' = <<anchor>> /\ anchors' = Append(anchors, anchor)
        /\ UNCHANGED <<payload, published_count>>
    BY DEF Publish
  <1>3. /\ n \in Nat /\ n = Len(anchors) /\ published_count = n
        /\ anchors \in Seq(Anchor)
    BY <1>1, <1>2 DEF RingInv, WriterInv, RingType
  <1>4. /\ Len(anchors') = n + 1 /\ anchors'[n + 1] = anchor
        /\ \A k \in 1 .. n : anchors'[k] = anchors[k]
    BY <1>2, <1>3
  <1>5. WriterInv'
    BY <1>2, <1>3, <1>4 DEF WriterInv
  <1>6. ASSUME NEW p \in 0 .. n PROVE SlotInv(p)'
    <2>1. /\ Slot(p) \in Slots /\ Slot(n) \in Slots
          /\ version \in [Slots -> Nat]
      BY <1>1, <1>3, SlotInSlots DEF RingType
    <2>2. CASE p = n
      <3>1. version'[Slot(p)] = Writing(p)
        BY <1>2, <2>1, <2>2
      <3>2. Writing(p) # Complete(p)
        BY <1>3 DEF Writing, Complete
      <3>3. Open(p)'
        BY <1>2, <1>3, <2>2 DEF Open
      <3>4. \A f \in 1 .. Len(Fields) : ~(f < store')
        BY <1>2
      <3>5. QED  BY <3>1, <3>2, <3>3, <3>4 DEF SlotInv
    <2>3. CASE p < n /\ Slot(p) = Slot(n)
      <3>1. p + Capacity < publications'
        BY <1>2, <1>3, <2>3, SlotsOfOneTurn
      <3>2. version'[Slot(p)] # Complete(p)
        BY <1>2, <1>3, <2>1, <2>3 DEF Writing, Complete
      <3>3. ~Open(p)'
        BY <1>2, <1>3, <2>3 DEF Open
      <3>4. QED  BY <1>2, <1>3, <3>1, <3>2, <3>3 DEF SlotInv
    <2>4. CASE p < n /\ Slot(p) # Slot(n)
      <3>1. version'[Slot(p)] = version[Slot(p)]
        BY <1>2, <2>1, <2>4
      <3>2. SlotInv(p)
        BY <1>3, <2>4 DEF RingInv
      <3>3. ~Open(p) /\ ~Open(p)'
        BY <1>2, <1>3, <2>4 DEF Open
      <3>4. publications # p + Capacity
        <4>1. p \in Nat
          BY <1>3
        <4>2. Slot(p + Capacity) = Slot(p)
          BY <4>1, NextTurn
        <4>3. QED  BY <2>4, <4>2
      <3>5. publications <= p + Capacity <=> publications' <= p + Capacity
        BY <1>2, <1>3, <3>4
      <3>6. anchors'[p + 1] = anchors[p + 1]
        BY <1>3, <1>4, <2>4
      <3>7. QED  BY <1>2, <3>1, <3>2, <3>3, <3>5, <3>6 DEF SlotInv
    <2>5. QED  BY <1>3, <2>2, <2>3, <2>4
  <1>7. QED  BY <1>2, <1>3, <1>5, <1>6 DEF RingInv

LEMMA RingStorePayload ==
    ASSUME ClockTypeOK, RingInv, StorePayload
    PROVE  RingInv'
  <1> DEFINE last == publications - 1
  <1>1. RingType
    BY TypeParts
  <1>2. /\ store \in 1 .. 3 /\ store' = store + 1
        /\ payload' = [payload EXCEPT ![Slot(last)] =
               [@ EXCEPT ![Fields[store]] = previous[1][Fields[store]]]]
        /\ UNCHANGED <<version, published_count, publications, previous,
                       anchors>>
    BY DEF StorePayload
  <1>3. /\ publications \in Nat /\ publications > 0
        /\ previous[1] = anchors[publications]
    BY <1>1, <1>2 DEF RingInv, WriterInv, RingType
  <1>4. WriterInv'
    BY <1>2, <1>3 DEF RingInv, WriterInv
  <1>5. /\ Slot(last) \in Slots /\ payload \in [Slots -> Anchor]
    <2>1. last \in Int
      BY <1>3
    <2> HIDE DEF last
    <2>2. QED  BY <1>1, <2>1, SlotInSlots DEF RingType
  <1>6. Open(last) /\ Open(last)' /\ SlotInv(last)
    BY <1>2, <1>3 DEF Open, RingInv
  <1>7. ASSUME NEW p \in 0 .. last PROVE SlotInv(p)'
    <2>1. SlotInv(p) /\ Slot(p) \in Slots
      BY <1>3, SlotInSlots DEF RingInv
    <2>2. CASE p = last
      <3>1. payload[Slot(p)] \in [position: Nat, qpc: Nat, tail: Nat]
        BY <1>5, <2>1 DEF Anchor
      <3>2. payload'[Slot(p)] = [payload[Slot(p)] EXCEPT
                          ![Fields[store]] = anchors[publications][Fields[store]]]
        BY <1>2, <1>3, <1>5, <2>2
      <3>3. \A f \in 1 .. 3 : f < store =>
                payload[Slot(p)][Fields[f]] = anchors[p + 1][Fields[f]]
        BY <1>6, <2>2 DEF SlotInv
      <3>4. ASSUME NEW f \in 1 .. 3, f < store'
            PROVE  payload'[Slot(p)][Fields[f]] = anchors[p + 1][Fields[f]]
        <4>1. CASE f = store
          BY <1>2, <1>3, <2>2, <3>1, <3>2, <4>1
        <4>2. CASE f < store
          BY <1>2, <1>3, <2>2, <3>1, <3>2, <3>3, <4>2
        <4>3. QED  BY <1>2, <3>4, <4>1, <4>2
      <3>5. version'[Slot(p)] # Complete(p)
        BY <1>2, <1>6, <2>2 DEF SlotInv
      <3>6. QED  BY <1>2, <1>6, <2>2, <3>4, <3>5 DEF SlotInv
    <2>3. CASE p # last
      <3>1. ~Open(p) /\ ~Open(p)'
        BY <1>2, <2>3 DEF Open
      <3>2. Slot(p) = Slot(last) => version[Slot(p)] # Complete(p)
        <4>1. SUFFICES ASSUME Slot(p) = Slot(last)
                       PROVE  ~(publications <= p + Capacity)
          BY <2>1, <3>1 DEF SlotInv
        <4>2. QED  BY <1>3, <2>3, <4>1, SlotsOfOneTurn
      <3>3. Slot(p) # Slot(last) => payload'[Slot(p)] = payload[Slot(p)]
        BY <1>2, <1>5, <2>1
      <3>4. QED  BY <1>2, <2>1, <3>1, <3>2, <3>3 DEF SlotInv
    <2>4. QED  BY <2>2, <2>3
  <1>8. QED  BY <1>2, <1>4, <1>7 DEF RingInv

LEMMA RingStoreEvenVersion ==
    ASSUME ClockTypeOK, RingInv, StoreEvenVersion
    PROVE  RingInv'
  <1> DEFINE last == publications - 1
  <1>1. RingType
    BY TypeParts
  <1>2. /\ store = 4 /\ store' = 5
        /\ version' = [version EXCEPT ![Slot(last)] = Complete(last)]
        /\ UNCHANGED <<payload, published_count, publications, previous,
                       anchors>>
    BY DEF StoreEvenVersion
  <1>3. publications \in Nat /\ publications > 0
    BY <1>1, <1>2 DEF RingInv, WriterInv, RingType
  <1>4. WriterInv'
    BY <1>2 DEF RingInv, WriterInv
  <1>5. version \in [Slots -> Nat]
    BY <1>1 DEF RingType
  <1>6. ASSUME NEW p \in 0 .. last PROVE SlotInv(p)'
    <2>1. SlotInv(p) /\ Slot(p) \in Slots /\ p \in Nat
      BY <1>3, SlotInSlots DEF RingInv
    <2>2. ~Open(p)'
      BY <1>2 DEF Open
    <2>3. CASE p = last
      <3>1. version'[Slot(p)] = Complete(p)
        BY <1>2, <1>5, <2>1, <2>3
      <3>2. Open(p)
        BY <1>2, <2>3 DEF Open
      <3>3. payload[Slot(p)] = anchors[p + 1]
        <4>1. /\ payload[Slot(p)] \in Anchor /\ anchors[p + 1] \in Anchor
          BY <1>1, <1>3, <2>1, <2>3 DEF RingType, RingInv, WriterInv
        <4>2. \A f \in 1 .. 3 :
                  payload[Slot(p)][Fields[f]] = anchors[p + 1][Fields[f]]
          BY <1>2, <2>1, <3>2 DEF SlotInv
        <4>3. /\ payload[Slot(p)].position = anchors[p + 1].position
              /\ payload[Slot(p)].qpc = anchors[p + 1].qpc
              /\ payload[Slot(p)].tail = anchors[p + 1].tail
          BY <4>2
        <4>4. QED  BY <4>1, <4>3 DEF Anchor
      <3>4. publications' <= p + Capacity
        BY <1>2, <1>3, <2>3
      <3>5. QED  BY <1>2, <2>2, <3>1, <3>3, <3>4 DEF SlotInv
    <2>4. CASE p # last /\ Slot(p) = Slot(last)
      <3>1. p + Capacity <= last
        BY <1>3, <2>1, <2>4, SlotsOfOneTurn
      <3>2. version'[Slot(p)] = Complete(last)
        BY <1>2, <1>5, <2>1, <2>4
      <3>3. Complete(last) # Complete(p)
        BY <1>3, <2>4 DEF Complete
      <3>4. QED  BY <1>2, <1>3, <2>2, <3>1, <3>2, <3>3 DEF SlotInv
    <2>5. CASE p # last /\ Slot(p) # Slot(last)
      <3>1. version'[Slot(p)] = version[Slot(p)]
        BY <1>2, <1>5, <2>1, <2>5
      <3>2. ~Open(p)
        BY <2>5 DEF Open
      <3>3. QED  BY <1>2, <2>1, <2>2, <3>1, <3>2 DEF SlotInv
    <2>6. QED  BY <2>3, <2>4, <2>5
  <1>7. QED  BY <1>2, <1>4, <1>6 DEF RingInv

LEMMA RingStorePublishedCount ==
    ASSUME ClockTypeOK, RingInv, StorePublishedCount
    PROVE  RingInv'
  <1>1. RingType
    BY TypeParts
  <1>2. /\ store = 5 /\ store' = 0 /\ published_count' = publications
        /\ UNCHANGED <<version, payload, publications, previous, anchors>>
    BY DEF StorePublishedCount, slotVars
  <1>3. WriterInv'
    BY <1>2 DEF RingInv, WriterInv
  <1>4. ASSUME NEW p \in 0 .. publications - 1 PROVE SlotInv(p)'
    <2>1. SlotInv(p) /\ ~Open(p) /\ ~Open(p)'
      BY <1>2 DEF RingInv, Open
    <2>2. QED  BY <1>2, <2>1 DEF SlotInv
  <1>5. QED  BY <1>2, <1>3, <1>4 DEF RingInv

LEMMA RingKept ==
    ASSUME RingInv, UNCHANGED <<slotVars, published_count, writerVars>>
    PROVE  RingInv'
  BY DEF RingInv, WriterInv, SlotInv, Open, slotVars, writerVars

-----------------------------------------------------------------------------
(* The search. What is published is not open, so a finished publication    *)
(* that is no longer in its slot has been overtaken.                       *)
LEMMA NotOpen ==
    ASSUME ClockTypeOK, RingInv, NEW p \in 0 .. published_count - 1
    PROVE  /\ p \in 0 .. publications - 1 /\ ~Open(p)
           /\ published_count \in Nat /\ published_count <= publications
  <1>1. publications \in Nat /\ published_count \in Nat
    BY TypeParts DEF RingType
  <1>2. QED  BY <1>1 DEF RingInv, WriterInv, Open

LEMMA Looking ==
    ASSUME ClockTypeOK, RingInv, SearchInv, step # "idle"
    PROVE  /\ Publication \in 0 .. publications - 1
           /\ Publication + 1 = published - offset
           /\ version[Slot(Publication)] = Complete(Publication)
                  => payload[Slot(Publication)] = anchors[published - offset]
           /\ version[Slot(Publication)] = Complete(Publication)
                  <=> publications <= Publication + Capacity
           /\ published <= publications /\ publications \in Nat
           /\ published \in Nat /\ offset \in Nat
           /\ published - offset \in 1 .. publications
  <1>1. /\ publications \in Nat /\ published_count \in Nat
        /\ published \in Nat /\ offset \in Nat
    BY TypeParts DEF RingType, SearchType
  <1>2. Publication \in 0 .. published_count - 1 /\ published <= published_count
    BY <1>1 DEF SearchInv, Publication
  <1>3. Publication + 1 = published - offset
    BY <1>1 DEF Publication
  <1>4. /\ Publication \in 0 .. publications - 1 /\ ~Open(Publication)
        /\ published_count <= publications
    <2> DEFINE p == Publication
    <2>1. p \in 0 .. published_count - 1
      BY <1>2
    <2> HIDE DEF p
    <2>2. /\ p \in 0 .. publications - 1 /\ ~Open(p)
          /\ published_count <= publications
      BY <2>1, NotOpen
    <2>3. QED  BY <2>2 DEF p
  <1>5. SlotInv(Publication)
    BY <1>4 DEF RingInv
  <1>6. QED  BY <1>1, <1>2, <1>3, <1>4, <1>5 DEF SlotInv

(* The writer's steps leave the reader what it has.                        *)
LEMMA ReaderKept ==
    ASSUME ClockTypeOK, RingInv, ReaderInv, ClockTypeOK', RingInv',
           UNCHANGED readerVars,
           published_count <= published_count', publications <= publications',
           \A k \in 1 .. publications : anchors'[k] = anchors[k]
    PROVE  ReaderInv'
  <1>1. /\ publications \in Nat /\ published_count \in Nat
        /\ publications' \in Nat /\ published_count' \in Nat
        /\ published \in Nat /\ offset \in Nat
    BY TypeParts DEF RingType, SearchType, ClockTypeOK
  <1>2. UNCHANGED <<step, time, published, offset, field, candidate, selected,
                    oldest, unstable, Publication>>
    BY DEF readerVars, localVars, Publication
  <1>3. SearchInv'
    BY <1>1, <1>2 DEF ReaderInv, SearchInv
  <1>4. CASE step = "idle"
    BY <1>2, <1>3, <1>4 DEF ReaderInv, SearchInv, LoadInv, OvertakenInv,
                            PassedInv, FoundInv
  <1>5. CASE step # "idle"
    <2>1. /\ Publication \in 0 .. publications - 1
          /\ Publication + 1 = published - offset
          /\ version[Slot(Publication)] = Complete(Publication)
                 <=> publications <= Publication + Capacity
          /\ published <= publications
          /\ published - offset \in 1 .. publications
      BY <1>5, Looking DEF ReaderInv
    <2>2. version'[Slot(Publication)] = Complete(Publication)
              => publications' <= Publication + Capacity
      BY <1>1, <2>1 DEF RingInv, SlotInv
    <2>3. version'[Slot(Publication)] = Complete(Publication)
              => version[Slot(Publication)] = Complete(Publication)
      BY <1>1, <2>1, <2>2
    <2>4. /\ anchors'[published - offset] = anchors[published - offset]
          /\ \A o \in 0 .. offset - 1 :
                anchors'[published - o] = anchors[published - o]
      BY <1>1, <2>1
    <2>5. Slot(Publication)' = Slot(Publication)
              /\ Complete(Publication)' = Complete(Publication)
      BY <1>2 DEF Slot, Complete
    <2>6. LoadInv'
      BY <1>2, <2>3, <2>4, <2>5 DEF ReaderInv, LoadInv
    <2>7. OvertakenInv'
      BY <1>1, <1>2, <2>1 DEF ReaderInv, OvertakenInv
    <2>8. PassedInv'
      BY <1>2, <2>4 DEF ReaderInv, PassedInv
    <2>9. FoundInv'
      BY <1>2, <2>4 DEF ReaderInv, FoundInv
    <2>10. QED  BY <1>3, <2>6, <2>7, <2>8, <2>9 DEF ReaderInv
  <1>6. QED  BY <1>4, <1>5

(* A turn that fails: if it was the last, the publication was overtaken.   *)
LEMMA ReaderNotStable ==
    ASSUME ClockTypeOK, RingInv, ReaderInv, step \in {"version", "check"},
           version[Slot(Publication)] # Complete(Publication), NotStable,
           UNCHANGED <<slotVars, published_count, writerVars, time, published>>
    PROVE  ReaderInv'
  <1>1. /\ step # "idle" /\ step # "finish" /\ selected = <<>>
        /\ published \in 1 .. published_count
        /\ offset \in 0 .. published - 1 /\ offset < Capacity
    BY DEF ReaderInv, SearchInv, FoundInv
  <1>2. /\ publications \in Nat /\ published \in Nat /\ offset \in Nat
        /\ published_count \in Nat /\ published_count <= publications
        /\ publications > Publication + Capacity
        /\ Publication + 1 = published - offset
    <2>1. publications \in Nat /\ published_count \in Nat
              /\ published_count <= publications
      BY TypeParts DEF RingType, RingInv, WriterInv
    <2>2. /\ Publication \in 0 .. publications - 1
          /\ Publication + 1 = published - offset
          /\ version[Slot(Publication)] = Complete(Publication)
                 <=> publications <= Publication + Capacity
          /\ published \in Nat /\ offset \in Nat
      BY <1>1, Looking DEF ReaderInv
    <2>3. QED  BY <2>1, <2>2
  <1>3. UNCHANGED <<published_count, publications, anchors, selected, time,
                    published>>
    BY DEF NotStable, writerVars
  <1>4. CASE attempt < ReadAttempts
    <2>1. step' = "version" /\ UNCHANGED <<offset, unstable>>
      BY <1>4 DEF NotStable
    <2>2. SearchInv'
      BY <1>1, <1>3, <2>1 DEF SearchInv
    <2>3. LoadInv' /\ FoundInv'
      BY <1>1, <1>3, <2>1 DEF LoadInv, FoundInv
    <2>4. OvertakenInv'
      BY <1>3, <2>1 DEF ReaderInv, OvertakenInv, Publication
    <2>5. PassedInv'
      BY <1>1, <1>3, <2>1 DEF ReaderInv, PassedInv
    <2>6. QED  BY <2>2, <2>3, <2>4, <2>5 DEF ReaderInv
  <1>5. CASE ~(attempt < ReadAttempts)
    <2>1. unstable' = TRUE /\ NextOffset
      BY <1>5 DEF NotStable
    <2>2. /\ step' \in {"version", "finish"}
          /\ offset' \in {offset, offset + 1}
          /\ offset' < published /\ offset' < Capacity
      BY <1>1, <1>2, <2>1 DEF NextOffset
    <2>3. SearchInv'
      BY <1>1, <1>2, <1>3, <2>2 DEF SearchInv
    <2>4. LoadInv'
      BY <2>2 DEF LoadInv
    <2>5. OvertakenInv'
      <3>1. Publication' = published - offset' - 1
        BY <1>3 DEF Publication
      <3>2. Publication = published - offset - 1
        BY DEF Publication
      <3>3. publications > (published - offset' - 1) + Capacity
        <4>1. CASE offset' = offset
          BY <1>2, <3>2, <4>1
        <4>2. CASE offset' = offset + 1
          BY <1>2, <3>2, <4>2
        <4>3. QED  BY <2>2, <4>1, <4>2
      <3>4. QED  BY <1>3, <3>1, <3>3 DEF OvertakenInv
    <2>6. PassedInv'
      BY <2>1 DEF PassedInv
    <2>7. FoundInv'
      BY <1>1, <1>3, <2>1, <2>2 DEF FoundInv
    <2>8. QED  BY <2>3, <2>4, <2>5, <2>6, <2>7 DEF ReaderInv
  <1>6. QED  BY <1>4, <1>5

(* A publication read in one piece is the one that was asked for.          *)
LEMMA ReaderConsider ==
    ASSUME ClockTypeOK, RingInv, ReaderInv, step = "check",
           version[Slot(Publication)] = Complete(Publication),
           Consider(candidate),
           UNCHANGED <<slotVars, published_count, writerVars, time, published>>
    PROVE  ReaderInv'
  <1>1. /\ step # "idle" /\ selected = <<>>
        /\ published \in 1 .. published_count
        /\ offset \in 0 .. published - 1 /\ offset < Capacity
    BY DEF ReaderInv, SearchInv, FoundInv
  <1>2. /\ publications \in Nat /\ published \in Nat /\ offset \in Nat
        /\ published - offset \in 1 .. publications
        /\ publications <= Publication + Capacity
        /\ Publication \in Int
    <2>1. /\ Publication \in 0 .. publications - 1
          /\ version[Slot(Publication)] = Complete(Publication)
                 <=> publications <= Publication + Capacity
          /\ publications \in Nat /\ published \in Nat /\ offset \in Nat
          /\ published - offset \in 1 .. publications
      BY <1>1, Looking DEF ReaderInv
    <2>2. QED  BY <2>1
  <1>3. ~unstable
    BY <1>2 DEF ReaderInv, OvertakenInv
  <1>4. candidate \in Anchor /\ anchors[published - offset] \in Anchor
            /\ time \in Nat
    <2>1. candidate \in Anchor /\ time \in Nat /\ anchors \in Seq(Anchor)
              /\ publications = Len(anchors)
      BY TypeParts DEF SearchType, RingType, RingInv, WriterInv
    <2>2. QED  BY <1>2, <2>1
  <1>5. candidate = anchors[published - offset]
    <2>1. \A f \in 1 .. 3 :
              candidate[Fields[f]] = anchors[published - offset][Fields[f]]
      BY DEF ReaderInv, LoadInv
    <2>2. /\ candidate.position = anchors[published - offset].position
          /\ candidate.qpc = anchors[published - offset].qpc
          /\ candidate.tail = anchors[published - offset].tail
      BY <2>1
    <2>3. QED  BY <1>4, <2>2 DEF Anchor
  <1>6. candidate.qpc \in Nat
    BY <1>4 DEF Anchor
  <1>7. /\ UNCHANGED <<published_count, publications, anchors, time, published,
                       unstable>>
        /\ oldest' = <<candidate>>
    BY DEF Consider, writerVars
  <1>8. LoadInv' /\ OvertakenInv'
    <2>1. step' \in {"version", "finish"}
      BY DEF Consider, NextOffset
    <2>2. QED  BY <1>3, <1>7, <2>1 DEF LoadInv, OvertakenInv
  <1>9. CASE time >= candidate.qpc
    <2>1. selected' = <<candidate>> /\ step' = "finish" /\ offset' = offset
      BY <1>9 DEF Consider
    <2>2. SearchInv'
      BY <1>1, <1>7, <2>1 DEF SearchInv
    <2>3. PassedInv'
      BY <1>1, <1>7, <2>1 DEF ReaderInv, PassedInv
    <2>4. FoundInv'
      BY <1>3, <1>4, <1>5, <1>6, <1>7, <1>9, <2>1 DEF FoundInv
    <2>5. QED  BY <1>8, <2>2, <2>3, <2>4 DEF ReaderInv
  <1>10. CASE ~(time >= candidate.qpc)
    <2>1. selected' = <<>> /\ NextOffset
      BY <1>1, <1>10 DEF Consider
    <2>2. anchors[published - offset].qpc > time
      BY <1>4, <1>5, <1>6, <1>10
    <2>3. CASE offset + 1 < published /\ offset + 1 < Capacity
      <3>1. step' = "version" /\ offset' = offset + 1
        BY <2>1, <2>3 DEF NextOffset
      <3>2. SearchInv'
        BY <1>1, <1>2, <1>7, <2>3, <3>1 DEF SearchInv
      <3>3. \A o \in 0 .. offset - 1 : anchors[published - o].qpc > time
        BY <1>1, <1>3 DEF ReaderInv, PassedInv
      <3>4. \A o \in 0 .. offset' - 1 : anchors[published - o].qpc > time
        BY <1>2, <2>2, <3>1, <3>3
      <3>5. PassedInv'
        BY <1>7, <3>4 DEF PassedInv
      <3>6. FoundInv'
        BY <2>1, <3>1 DEF FoundInv
      <3>7. QED  BY <1>8, <3>2, <3>5, <3>6 DEF ReaderInv
    <2>4. CASE ~(offset + 1 < published /\ offset + 1 < Capacity)
      <3>1. step' = "finish" /\ offset' = offset
        BY <2>1, <2>4 DEF NextOffset
      <3>2. SearchInv'
        BY <1>1, <1>7, <3>1 DEF SearchInv
      <3>3. PassedInv'
        BY <1>1, <1>7, <3>1 DEF ReaderInv, PassedInv
      <3>4. offset + 1 = published \/ offset + 1 = Capacity
        BY <1>1, <1>2, <2>4
      <3>5. FoundInv'
        BY <1>3, <1>5, <1>7, <2>1, <2>2, <3>1, <3>4 DEF FoundInv
      <3>6. QED  BY <1>8, <3>2, <3>3, <3>5 DEF ReaderInv
    <2>5. QED  BY <2>3, <2>4
  <1>11. QED  BY <1>9, <1>10

LEMMA ReaderReturn ==
    ASSUME NEW result, Return(result)
    PROVE  ReaderInv'
  BY DEF Return, ReaderInv, SearchInv, LoadInv, OvertakenInv, PassedInv, FoundInv

LEMMA ReaderBegin ==
    ASSUME ClockTypeOK, RingInv, ReaderInv, NEW tick \in Nat, BeginResolve(tick)
    PROVE  ReaderInv'
  <1>1. CASE invalidated \/ published_count = 0
    <2>1. Return(Plain(IF invalidated THEN "Discontinuous" ELSE "Pending",
                       tick))
      BY <1>1 DEF BeginResolve
    <2>2. QED  BY <2>1, ReaderReturn
  <1>2. CASE ~(invalidated \/ published_count = 0)
    <2>1. /\ step' = "version" /\ published' = published_count
          /\ UNCHANGED <<offset, selected, unstable, published_count>>
      BY <1>2 DEF BeginResolve
    <2>2. published_count \in Nat /\ published_count # 0
      BY <1>2, TypeParts DEF RingType
    <2>3. offset = 0 /\ selected = <<>> /\ unstable = FALSE
      BY DEF BeginResolve, ReaderInv, SearchInv
    <2>4. SearchInv'
      BY <2>1, <2>2, <2>3 DEF SearchInv
    <2>5. LoadInv' /\ OvertakenInv' /\ FoundInv'
      BY <2>1, <2>3 DEF LoadInv, OvertakenInv, FoundInv
    <2>6. PassedInv'
      BY <2>1, <2>3 DEF PassedInv
    <2>7. QED  BY <2>4, <2>5, <2>6 DEF ReaderInv
  <1>3. QED  BY <1>1, <1>2

LEMMA ReaderLoadVersion ==
    ASSUME ClockTypeOK, RingInv, ReaderInv, LoadVersion
    PROVE  ReaderInv'
  <1>1. CASE version[Slot(Publication)] = Complete(Publication)
    <2>1. /\ step = "version" /\ step' = "field" /\ field' = 1
          /\ UNCHANGED <<version, published_count, publications, anchors, time,
                         published, offset, candidate, selected, unstable>>
      BY <1>1 DEF LoadVersion, slotVars, writerVars
    <2>2. SearchInv' /\ PassedInv'
      BY <2>1 DEF ReaderInv, SearchInv, PassedInv
    <2>3. LoadInv'
      BY <2>1 DEF LoadInv
    <2>4. OvertakenInv' /\ FoundInv'
      BY <2>1 DEF ReaderInv, OvertakenInv, FoundInv, Publication
    <2>5. QED  BY <2>2, <2>3, <2>4 DEF ReaderInv
  <1>2. CASE version[Slot(Publication)] # Complete(Publication)
    BY <1>2, ReaderNotStable DEF LoadVersion
  <1>3. QED  BY <1>1, <1>2

LEMMA ReaderLoadField ==
    ASSUME ClockTypeOK, RingInv, ReaderInv, LoadField
    PROVE  ReaderInv'
  <1>1. /\ step = "field" /\ step' \in {"field", "check"}
        /\ step' = "field" => field < 3 /\ field' = field + 1
        /\ step' = "check" => field = 3
        /\ candidate' = [candidate EXCEPT ![Fields[field]] =
                                  payload[Slot(Publication)][Fields[field]]]
        /\ UNCHANGED <<version, payload, published_count, publications,
                       anchors, time, published, offset, selected, unstable,
                       Publication>>
    <2>1. field \in 1 .. 3
      BY TypeParts DEF SearchType
    <2>2. QED  BY <2>1 DEF LoadField, slotVars, writerVars, Publication
  <1>2. SearchInv' /\ PassedInv'
    BY <1>1 DEF ReaderInv, SearchInv, PassedInv
  <1>3. OvertakenInv' /\ FoundInv'
    BY <1>1 DEF ReaderInv, OvertakenInv, FoundInv
  <1>4. LoadInv'
    <2>1. field \in 1 .. 3 /\ candidate \in Anchor
      BY TypeParts DEF SearchType
    <2>2. SUFFICES ASSUME version[Slot(Publication)] = Complete(Publication),
                          NEW f \in 1 .. 3, f <= field
                   PROVE  candidate'[Fields[f]]
                             = anchors[published - offset][Fields[f]]
      BY <1>1, <2>1 DEF LoadInv, Slot, Complete
    <2>3. payload[Slot(Publication)] = anchors[published - offset]
      BY <1>1, <2>2, Looking DEF ReaderInv
    <2>4. CASE f = field
      BY <1>1, <2>1, <2>3, <2>4 DEF Anchor
    <2>5. CASE f < field
      <3>1. candidate[Fields[f]] = anchors[published - offset][Fields[f]]
        BY <1>1, <2>2, <2>5 DEF ReaderInv, LoadInv
      <3>2. candidate'[Fields[f]] = candidate[Fields[f]]
        BY <1>1, <2>1, <2>5 DEF Anchor
      <3>3. QED  BY <3>1, <3>2
    <2>6. QED  BY <2>1, <2>2, <2>4, <2>5
  <1>5. QED  BY <1>2, <1>3, <1>4 DEF ReaderInv

LEMMA ReaderLoadVersionAgain ==
    ASSUME ClockTypeOK, RingInv, ReaderInv, LoadVersionAgain
    PROVE  ReaderInv'
  BY ReaderNotStable, ReaderConsider DEF LoadVersionAgain

-----------------------------------------------------------------------------
(* The answer the invariant gives.                                         *)
LEMMA VerdictFromLog ==
    ASSUME ClockInv, step = "finish"
    PROVE  \/ Verdict = LogAnswer(published)
           \/ /\ Verdict.status = "TemporarilyUnavailable"
              /\ publications > published
           \/ Verdict.status = "Discontinuous" /\ invalidated
  <1>1. /\ ClockTypeOK /\ RingInv /\ ReaderInv
    BY DEF ClockInv
  <1>2. /\ published \in Nat /\ offset \in 0 .. published - 1
        /\ offset < Capacity /\ time \in Nat /\ published > 0
    BY <1>1, TypeParts DEF ReaderInv, SearchInv, SearchType, RingType
  <1>3. \A k \in 1 .. published : anchors[k].qpc \in Nat
    <2>1. anchors \in Seq(Anchor) /\ published <= Len(anchors)
      <3>1. published <= publications
        BY <1>1, Looking DEF ReaderInv
      <3>2. QED  BY <1>1, <3>1, TypeParts DEF RingType, RingInv, WriterInv
    <2>2. ASSUME NEW k \in 1 .. published PROVE anchors[k].qpc \in Nat
      <3>1. k \in 1 .. Len(anchors)
        BY <1>2, <2>1
      <3>2. anchors[k] \in Anchor
        BY <2>1, <3>1
      <3>3. QED  BY <3>2 DEF Anchor
    <2>3. QED  BY <2>2
  <1>4. CASE invalidated
    BY <1>4 DEF Verdict, Plain
  <1>5. CASE ~invalidated /\ selected # <<>>
    <2> DEFINE n == published - offset
               Deciding(k) == /\ anchors[k].qpc <= time
                              /\ \A j \in Retained(published) :
                                    j > k => anchors[j].qpc > time
    <2>1. /\ selected = <<anchors[n]>> /\ anchors[n].qpc <= time /\ ~unstable
      BY <1>1, <1>5 DEF ReaderInv, FoundInv
    <2>2. n \in Retained(published)
      BY <1>2 DEF Retained
    <2>3. \A j \in Retained(published) : j > n => anchors[j].qpc > time
      <3>1. TAKE j \in Retained(published)
      <3>2. HAVE j > n
      <3>3. published - j \in 0 .. offset - 1
        BY <1>2, <3>1, <3>2 DEF Retained
      <3>4. anchors[published - (published - j)].qpc > time
        BY <1>1, <2>1, <3>3 DEF ReaderInv, PassedInv
      <3>5. QED  BY <1>2, <3>1, <3>4 DEF Retained
    <2>4. \A k \in Retained(published) : Deciding(k) <=> k = n
      <3>1. TAKE k \in Retained(published)
      <3>2. /\ k \in Nat /\ n \in Nat /\ anchors[k].qpc \in Nat
            /\ anchors[n].qpc \in Nat
        BY <1>2, <1>3 DEF Retained
      <3>3. Deciding(n)
        BY <2>1, <2>3
      <3>4. ASSUME Deciding(k), k # n PROVE FALSE
        <4>1. CASE k > n
          BY <1>2, <2>3, <3>2, <3>4, <4>1
        <4>2. CASE n > k
          BY <1>2, <2>1, <2>2, <3>2, <3>4, <4>2
        <4>3. QED  BY <3>2, <3>4, <4>1, <4>2
      <3>5. QED  BY <3>3, <3>4
    <2> HIDE DEF n
    <2>5. n = CHOOSE k \in Retained(published) : Deciding(k)
      BY <2>2, <2>4
    <2>6. LogAnswer(published) = Project(anchors[n])
      BY <2>1, <2>2, <2>5 DEF LogAnswer
    <2>7. Verdict = Project(anchors[n])
      BY <1>5, <2>1 DEF Verdict
    <2>8. QED  BY <2>6, <2>7
  <1>6. CASE ~invalidated /\ selected = <<>> /\ unstable
    <2>1. publications > published
      BY <1>1, <1>2, <1>6, TypeParts
         DEF ReaderInv, OvertakenInv, Publication, RingType
    <2>2. Verdict.status = "TemporarilyUnavailable"
      BY <1>6 DEF Verdict, Plain
    <2>3. QED  BY <2>1, <2>2
  <1>7. CASE ~invalidated /\ selected = <<>> /\ ~unstable
    <2>1. /\ oldest = <<anchors[published - offset]>>
          /\ anchors[published - offset].qpc > time
          /\ offset + 1 = published \/ offset + 1 = Capacity
      BY <1>1, <1>7 DEF ReaderInv, FoundInv
    <2>2. \A k \in Retained(published) : anchors[k].qpc > time
      <3>1. TAKE k \in Retained(published)
      <3>2. published - k \in 0 .. offset
        BY <1>2, <2>1, <3>1 DEF Retained
      <3>3. k = published - (published - k)
        BY <1>2, <3>1 DEF Retained
      <3>4. CASE published - k = offset
        BY <2>1, <3>3, <3>4
      <3>5. CASE published - k # offset
        <4>1. published - k \in 0 .. offset - 1
          BY <1>2, <3>2, <3>5
        <4>2. anchors[published - (published - k)].qpc > time
          BY <1>1, <1>7, <4>1 DEF ReaderInv, PassedInv
        <4>3. QED  BY <3>3, <4>2
      <3>6. QED  BY <3>4, <3>5
    <2>3. ~ \E k \in Retained(published) : anchors[k].qpc <= time
      BY <1>2, <1>3, <2>2 DEF Retained
    <2>4. LogAnswer(published)
            = Plain(IF published > Capacity THEN "HistoryLost" ELSE "Pending",
                    time)
      BY <2>3 DEF LogAnswer
    <2>5. \E i \in DOMAIN oldest : time < oldest[i].qpc
      BY <1>2, <1>3, <2>1
    <2>6. Verdict = Plain(IF published > Capacity THEN "HistoryLost"
                                                  ELSE "Pending", time)
      BY <1>7, <2>5 DEF Verdict
    <2>7. QED  BY <2>4, <2>6
  <1>8. QED  BY <1>4, <1>5, <1>6, <1>7

LEMMA InvInit == ClockInit => ClockInv
  <1> SUFFICES ASSUME ClockInit PROVE ClockInv
    OBVIOUS
  <1>1. ClockTypeOK
    BY TypeInit
  <1>2. RingInv
    BY DEF ClockInit, RingInv, WriterInv
  <1>3. ReaderInv
    BY DEF ClockInit, ReaderInv, SearchInv, LoadInv, OvertakenInv, PassedInv,
           FoundInv
  <1>4. QED  BY <1>1, <1>2, <1>3 DEF ClockInv

LEMMA InvStep == ClockInv /\ [ClockNext]_clockVars => ClockInv'
  <1> SUFFICES ASSUME ClockInv, [ClockNext]_clockVars PROVE ClockInv'
    OBVIOUS
  <1>1. ClockTypeOK /\ RingInv /\ ReaderInv /\ WriterInv
    BY DEF ClockInv, RingInv
  <1>2. ClockTypeOK'
    BY <1>1, TypeStep
  <1>3. /\ publications \in Nat /\ publications = Len(anchors)
        /\ published_count \in Nat /\ anchors \in Seq(Anchor)
    BY <1>1, TypeParts DEF WriterInv, RingType
  <1>4. ASSUME UNCHANGED <<slotVars, published_count, writerVars, readerVars>>
        PROVE  ClockInv'
    <2>1. RingInv'
      BY <1>1, <1>4, RingKept
    <2>2. ReaderInv'
      BY <1>1, <1>2, <1>3, <1>4, <2>1, ReaderKept DEF writerVars
    <2>3. QED  BY <1>2, <2>1, <2>2 DEF ClockInv
  <1>5. ASSUME NEW anchor \in Anchor, Publish(anchor) PROVE ClockInv'
    <2>1. CASE invalidated \/ ~NotDecreasing(anchor)
      BY <1>4, <1>5, <2>1 DEF Publish
    <2>2. CASE ~(invalidated \/ ~NotDecreasing(anchor))
      <3>1. RingInv'
        BY <1>1, <1>5, <2>2, RingPublish
      <3>2. /\ published_count' = published_count
            /\ publications' = publications + 1
            /\ anchors' = Append(anchors, anchor)
            /\ UNCHANGED readerVars
        BY <1>5, <2>2 DEF Publish
      <3>3. \A k \in 1 .. publications : anchors'[k] = anchors[k]
        BY <1>3, <3>2
      <3>4. ReaderInv'
        BY <1>1, <1>2, <1>3, <3>1, <3>2, <3>3, ReaderKept
      <3>5. QED  BY <1>2, <3>1, <3>4 DEF ClockInv
    <2>3. QED  BY <2>1, <2>2
  <1>6. CASE FinishPublish
    <2>1. RingInv'
      BY <1>1, <1>6, RingStorePayload, RingStoreEvenVersion,
         RingStorePublishedCount DEF FinishPublish
    <2>2. /\ UNCHANGED <<publications, anchors, readerVars>>
          /\ published_count' \in {published_count, publications}
      BY <1>6 DEF FinishPublish, StorePayload, StoreEvenVersion,
                  StorePublishedCount
    <2>3. published_count <= publications
      BY <1>1, <1>3 DEF WriterInv
    <2>4. published_count <= published_count' /\ publications <= publications'
      BY <1>3, <2>2, <2>3
    <2>5. ReaderInv'
      BY <1>1, <1>2, <2>1, <2>2, <2>4, ReaderKept
    <2>6. QED  BY <1>2, <2>1, <2>5 DEF ClockInv
  <1>7. CASE Invalidate /\ UNCHANGED <<slotVars, published_count, writerVars,
                                       readerVars>>
    BY <1>4, <1>7
  <1>8. ASSUME NEW tick \in Nat, BeginResolve(tick) PROVE ClockInv'
    <2>1. ReaderInv'
      BY <1>1, <1>8, ReaderBegin
    <2>2. RingInv'
      BY <1>1, <1>8, RingKept DEF BeginResolve
    <2>3. QED  BY <1>2, <2>1, <2>2 DEF ClockInv
  <1>9. CASE Search
    <2>1. ReaderInv'
      BY <1>1, <1>9, ReaderLoadVersion, ReaderLoadField, ReaderLoadVersionAgain,
         ReaderReturn DEF Search, Finish
    <2>2. RingInv'
      BY <1>1, <1>9, RingKept
         DEF Search, LoadVersion, LoadField, LoadVersionAgain, Finish
    <2>3. QED  BY <1>2, <2>1, <2>2 DEF ClockInv
  <1>10. CASE UNCHANGED clockVars
    BY <1>4, <1>10 DEF clockVars
  <1>11. QED
    BY <1>5, <1>6, <1>7, <1>8, <1>9, <1>10 DEF ClockNext

(* The inductive invariant of the clock, its type invariant included       *)
(* (ExactWasapiClock::Publish, ReadStable, ResolveQpc).                    *)
THEOREM ClockInvariant == ClockSpec => []ClockInv
  <1>1. ClockInit => ClockInv
    BY InvInit
  <1>2. ClockInv /\ [ClockNext]_clockVars => ClockInv'
    BY InvStep
  <1>3. QED  BY <1>1, <1>2, PTL DEF ClockSpec

(* Only Finish goes from the end of the search to idle.                    *)
LEMMA AnswerStep ==
    ASSUME ClockInv, [ClockNext]_clockVars
    PROVE  [step = "finish" /\ step' = "idle" =>
               \/ answer' = LogAnswer(published)
               \/ answer'.status = "TemporarilyUnavailable"
                  /\ publications > published
               \/ answer'.status = "Discontinuous" /\ invalidated]_clockVars
  <1> SUFFICES ASSUME step = "finish", step' = "idle"
               PROVE  \/ answer' = LogAnswer(published)
                      \/ answer'.status = "TemporarilyUnavailable"
                         /\ publications > published
                      \/ answer'.status = "Discontinuous" /\ invalidated
    OBVIOUS
  <1>1. step' # step
    OBVIOUS
  <1>2. ~UNCHANGED readerVars
    BY <1>1 DEF readerVars
  <1>3. Finish
    <2>1. ~FinishPublish /\ ~\E anchor \in Anchor : Publish(anchor)
      BY <1>2 DEF FinishPublish, StorePayload, StoreEvenVersion,
                  StorePublishedCount, Publish
    <2>2. ~\E tick \in Nat : BeginResolve(tick)
      BY DEF BeginResolve
    <2>3. ~LoadVersion /\ ~LoadField /\ ~LoadVersionAgain
      BY DEF LoadVersion, LoadField, LoadVersionAgain
    <2>4. ~UNCHANGED clockVars
      BY <1>2 DEF clockVars
    <2>5. QED  BY <1>2, <2>1, <2>2, <2>3, <2>4 DEF ClockNext, Search
  <1>4. answer' = Verdict
    BY <1>3 DEF Finish, Return
  <1>5. QED  BY <1>4, VerdictFromLog

(* However the ring is overwritten during a search, the answer is the one  *)
(* the anchors published when it began give, unless it says that it was    *)
(* overtaken or that the clock is over (ResolveQpc).                       *)
THEOREM ClockAnswersFromLog == ClockSpec => AnswersFromLog
  <1>1. ClockSpec => []ClockInv
    BY ClockInvariant
  <1>2. ClockInv /\ [ClockNext]_clockVars =>
            [step = "finish" /\ step' = "idle" =>
                \/ answer' = LogAnswer(published)
                \/ answer'.status = "TemporarilyUnavailable"
                   /\ publications > published
                \/ answer'.status = "Discontinuous" /\ invalidated]_clockVars
    BY AnswerStep
  <1>3. QED  BY <1>1, <1>2, PTL DEF ClockSpec, AnswersFromLog

-----------------------------------------------------------------------------
(* WasapiRenderLoop.                                                       *)
USE LoopAssumption DEF LoopAssumption

LoopType ==
    /\ qpc \in Nat /\ device \in Nat
    /\ sample \in [position: Int, qpc: Nat]
    /\ block_begin \in Nat /\ submitted_tail \in Nat /\ last_presented \in Nat

(* The last anchor is not ahead of the tracker, nor the packet planned     *)
(* behind it; the tracker counts in whole frames.                          *)
PublishedInv ==
    /\ previous \in Seq(Anchor) /\ Len(previous) <= 1
    /\ previous # <<>> =>
          /\ ToOutputFrame(previous[1].position) <= last_presented
          /\ previous[1].tail <= submitted_tail
    /\ loop = "submit" =>
          /\ sample.position \in Nat
          /\ ToOutputFrame(sample.position) = last_presented
          /\ submitted_tail <= block_begin

LoopInv == LoopType /\ PublishedInv

-----------------------------------------------------------------------------
(* Rounding down keeps the order of positions, though not strictly.        *)
LEMMA FramesInOrder ==
    ASSUME NEW p \in Nat, NEW q \in Nat, p <= q
    PROVE  /\ ToOutputFrame(p) \in Nat /\ ToOutputFrame(q) \in Nat
           /\ ToOutputFrame(p) <= ToOutputFrame(q)
  <1> DEFINE c == ClockFrequency
             x == p * OutputRate
             y == q * OutputRate
             a == x \div c
             b == y \div c
  <1>1. x \in Nat /\ y \in Nat /\ x <= y
    <2>1. OutputRate \in Nat
      BY ClockAssumption
    <2>2. PICK d \in Nat : q = p + d
      <3>1. q - p \in Nat /\ q = p + (q - p)
        OBVIOUS
      <3>2. QED  BY <3>1
    <2>3. q * OutputRate = p * OutputRate + d * OutputRate
      BY <2>1, <2>2
    <2>4. p * OutputRate \in Nat /\ d * OutputRate \in Nat
      BY <2>1
    <2>5. QED  BY <2>3, <2>4
  <1>2. c \in Nat \ {0}
    BY ClockAssumption
  <1>3. ToOutputFrame(p) = a /\ ToOutputFrame(q) = b
    BY DEF ToOutputFrame
  <1> HIDE DEF c, x, y
  <1>4. /\ a \in Nat /\ x = c * a + (x % c) /\ x % c \in 0 .. c - 1
        /\ b \in Nat /\ y = c * b + (y % c) /\ y % c \in 0 .. c - 1
    BY <1>1, <1>2
  <1> HIDE DEF a, b
  <1>5. ~(a > b)
    <2>1. SUFFICES ASSUME a > b PROVE FALSE
      OBVIOUS
    <2>2. PICK d \in Nat : a = b + 1 + d
      <3>1. a - b - 1 \in Nat /\ a = b + 1 + (a - b - 1)
        BY <1>4, <2>1
      <3>2. QED  BY <3>1
    <2>3. c * a = c * b + c + c * d /\ c * b \in Nat /\ c * d \in Nat
      BY <1>2, <1>4, <2>2
    <2>4. QED  BY <1>1, <1>2, <1>4, <2>3
  <1>6. QED  BY <1>3, <1>4, <1>5

LEMMA AlignUpBounds ==
    ASSUME NEW frame \in Nat
    PROVE  AlignUp(frame) \in Nat /\ AlignUp(frame) >= frame
  <1> DEFINE x == frame + PacketFrames - 1
             d == x \div PacketFrames
  <1>1. /\ x \in Nat /\ d \in Nat
        /\ x = (PacketFrames * d) + (x % PacketFrames)
        /\ x % PacketFrames \in 0 .. PacketFrames - 1
    <2>1. x \in Nat
      OBVIOUS
    <2> HIDE DEF x
    <2>2. QED  BY <2>1
  <1>2. AlignUp(frame) = d * PacketFrames
    BY DEF AlignUp
  <1> HIDE DEF d
  <1>3. d * PacketFrames = PacketFrames * d /\ d * PacketFrames \in Nat
    BY <1>1
  <1>4. QED  BY <1>1, <1>2, <1>3

LEMMA LoopInit_Inv == LoopInit => LoopInv
  BY DEF LoopInit, ClockInit, LoopInv, LoopType, PublishedInv, NoSample

LEMMA PreviousAnchor ==
    ASSUME PublishedInv
    PROVE  /\ DOMAIN previous \subseteq {1}
           /\ 1 \in DOMAIN previous => previous # <<>>
           /\ previous # <<>> => /\ previous[1].position \in Nat
                                 /\ previous[1].qpc \in Nat
                                 /\ previous[1].tail \in Nat
  <1>1. /\ previous \in Seq(Anchor) /\ Len(previous) <= 1
    BY DEF PublishedInv
  <1>2. previous # <<>> => previous[1] \in Anchor
    BY <1>1
  <1>3. QED  BY <1>1, <1>2 DEF Anchor

(* The clock's writer is at rest while the loop waits, plans or submits.   *)
LEMMA LoopStep ==
    ASSUME LoopInv, [LoopNext]_renderVars
    PROVE  LoopInv'
  <1>0. LoopType /\ PublishedInv
    BY DEF LoopInv
  <1>1. CASE Tick
    <2>1. \E units \in Nat : device' = device + units
      BY <1>1 DEF Tick
    <2>2. /\ qpc' = qpc + 1
          /\ UNCHANGED <<loop, sample, block_begin, submitted_tail,
                         last_presented, previous>>
      BY <1>1 DEF Tick, clockVars, writerVars, loopVars
    <2>3. QED
      BY <1>0, <2>1, <2>2 DEF LoopInv, LoopType, PublishedInv
  <1>2. CASE WaitAndReadClock
    <2>1. PICK lag \in ClockLags, age \in TimeLags :
                 /\ age <= qpc
                 /\ sample' = [position |-> device - lag, qpc |-> qpc - age]
                 /\ IF device < lag THEN NoOutputFrame
                                    ELSE Plan(ToOutputFrame(device - lag))
      BY <1>2 DEF WaitAndReadClock
    <2>2. /\ loop = "wait"
          /\ UNCHANGED <<qpc, device, submitted_tail, previous>>
      BY <1>2 DEF WaitAndReadClock, clockVars, writerVars, deviceVars
    <2>3. /\ device - lag \in Int /\ qpc - age \in Nat
          /\ sample' \in [position: Int, qpc: Nat]
      BY <1>0, <2>1 DEF LoopType
    <2>4. CASE device < lag
      <3>1. loop' = "failed" /\ UNCHANGED <<block_begin, last_presented>>
        BY <2>1, <2>4 DEF NoOutputFrame, Fail
      <3>2. QED
        BY <1>0, <2>2, <2>3, <3>1 DEF LoopInv, LoopType, PublishedInv
    <2>5. CASE ~(device < lag)
      <3> DEFINE position  == device - lag
                 presented == ToOutputFrame(position)
      <3>1. position \in Nat
        BY <1>0, <2>1, <2>5 DEF LoopType
      <3>2. /\ sample'.position = position
            /\ Plan(presented)
        BY <2>1, <2>5
      <3> HIDE DEF position
      <3>3. presented \in Nat
        BY <3>1, FramesInOrder
      <3> HIDE DEF presented
      <3>4. AlignUp(presented) \in Nat /\ AlignUp(presented) >= presented
        BY <3>3, AlignUpBounds
      <3>5. CASE WentBack(presented)
        <4>1. loop' = "failed" /\ UNCHANGED <<block_begin, last_presented>>
          BY <3>2, <3>5 DEF Plan, Fail
        <4>2. QED
          BY <1>0, <2>2, <2>3, <4>1 DEF LoopInv, LoopType, PublishedInv
      <3>6. CASE ~WentBack(presented)
        <4>1. /\ last_presented' = presented /\ last_presented <= presented
              /\ block_begin' \in Nat /\ submitted_tail <= block_begin'
          BY <1>0, <3>2, <3>3, <3>4, <3>6 DEF Plan, WentBack, LoopType
        <4>2. LoopType'
          BY <1>0, <2>2, <2>3, <3>3, <4>1 DEF LoopType
        <4>3. previous' # <<>> =>
                 /\ ToOutputFrame(previous'[1].position) <= last_presented'
                 /\ previous'[1].tail <= submitted_tail'
          <5>1. SUFFICES ASSUME previous # <<>>
                PROVE  ToOutputFrame(previous[1].position) <= presented
            BY <1>0, <2>2, <4>1 DEF PublishedInv
          <5>2. /\ ToOutputFrame(previous[1].position) <= last_presented
                /\ previous[1].position \in Nat
            BY <1>0, <5>1, PreviousAnchor DEF PublishedInv
          <5>3. ToOutputFrame(previous[1].position) \in Nat
            BY <5>2, FramesInOrder
          <5>4. QED  BY <1>0, <3>3, <4>1, <5>2, <5>3 DEF LoopType
        <4>4. /\ sample'.position \in Nat
              /\ ToOutputFrame(sample'.position) = last_presented'
          BY <3>1, <3>2, <4>1 DEF presented
        <4>5. PublishedInv'
          BY <1>0, <2>2, <4>1, <4>3, <4>4 DEF PublishedInv
        <4>6. QED  BY <4>2, <4>5 DEF LoopInv
      <3>7. QED  BY <3>5, <3>6
    <2>6. QED  BY <2>4, <2>5
  <1>3. CASE SubmitAndPublish
    <2> DEFINE anchor == [position |-> sample.position, qpc |-> sample.qpc,
                          tail |-> BlockEnd]
    <2>1. /\ loop = "submit" /\ loop' = "wait"
          /\ submitted_tail' = BlockEnd
          /\ Publish(anchor)
          /\ UNCHANGED <<qpc, device, sample, block_begin, last_presented>>
      BY <1>3 DEF SubmitAndPublish, deviceVars
    <2>2. /\ anchor \in Anchor /\ BlockEnd \in Nat
          /\ submitted_tail <= BlockEnd
      BY <1>0, <2>1 DEF LoopType, PublishedInv, Anchor, BlockEnd
    <2>3. LoopType'
      BY <1>0, <2>1, <2>2 DEF LoopType
    <2>4. CASE UNCHANGED previous
      <3>1. previous # <<>> => /\ previous[1].tail \in Nat
                               /\ previous[1].tail <= submitted_tail
        BY <1>0, PreviousAnchor DEF PublishedInv
      <3>2. previous # <<>> => previous[1].tail <= submitted_tail'
        BY <1>0, <2>1, <2>2, <3>1 DEF LoopType
      <3>3. PublishedInv'
        BY <1>0, <2>1, <2>4, <3>2 DEF PublishedInv
      <3>4. QED  BY <2>3, <3>3 DEF LoopInv
    <2>5. CASE previous' = <<anchor>>
      <3>1. previous' \in Seq(Anchor) /\ Len(previous') = 1
                /\ previous'[1] = anchor
        BY <2>2, <2>5
      <3>2. /\ anchor.position = sample.position
            /\ anchor.tail = submitted_tail'
        BY <2>1
      <3> HIDE DEF anchor
      <3>3. ToOutputFrame(anchor.position) = last_presented'
        BY <1>0, <2>1, <3>2 DEF PublishedInv
      <3>4. last_presented' \in Nat /\ submitted_tail' \in Nat
        BY <2>3 DEF LoopType
      <3>5. PublishedInv'
        BY <2>1, <3>1, <3>2, <3>3, <3>4 DEF PublishedInv
      <3>6. QED  BY <2>3, <3>5 DEF LoopInv
    <2>6. QED  BY <2>1, <2>4, <2>5 DEF Publish, writerVars
  <1>4. ASSUME UNCHANGED <<qpc, device, sample, block_begin, submitted_tail,
                           last_presented, previous>>,
               loop' \in {"failed", "ended"} \/ UNCHANGED loop
        PROVE  LoopInv'
    BY <1>0, <1>4 DEF LoopInv, LoopType, PublishedInv
  <1>5. CASE StoreAnchor
    BY <1>4, <1>5 DEF StoreAnchor, FinishPublish, StorePayload,
                      StoreEvenVersion, StorePublishedCount, deviceVars, loopVars
  <1>6. CASE LeaveLoop \/ ReadClockFails \/ CleanupExactClock
    BY <1>4, <1>6 DEF LeaveLoop, ReadClockFails, CleanupExactClock, Fail,
                      clockVars, writerVars, deviceVars
  <1>7. CASE ResolvePast
    BY <1>4, <1>7 DEF ResolvePast, BeginResolve, writerVars, deviceVars, loopVars
  <1>8. CASE SearchAnchor
    BY <1>4, <1>8 DEF SearchAnchor, Search, LoadVersion, LoadField,
                      LoadVersionAgain, Finish, writerVars, deviceVars, loopVars
  <1>9. CASE UNCHANGED renderVars
    BY <1>4, <1>9 DEF renderVars, clockVars, writerVars, deviceVars, loopVars
  <1>10. QED
    BY <1>1, <1>2, <1>3, <1>5, <1>6, <1>7, <1>8, <1>9 DEF LoopNext

(* What the clock's check finds in an anchor the loop has planned: the     *)
(* tail has not gone back, and the position not by a whole frame.          *)
LEMMA RefusedWithinFrame ==
    ASSUME LoopInv, loop = "submit",
           ~NotDecreasing([position |-> sample.position, qpc |-> sample.qpc,
                           tail |-> BlockEnd])
    PROVE  BackWithinFrame
  <1>1. /\ LoopType /\ PublishedInv
        /\ sample.position \in Nat /\ sample.qpc \in Nat
        /\ ToOutputFrame(sample.position) = last_presented
        /\ BlockEnd \in Nat /\ submitted_tail <= BlockEnd
    BY DEF LoopInv, LoopType, PublishedInv, BlockEnd
  <1>2. PICK i \in DOMAIN previous :
               \/ sample.position < previous[i].position
               \/ sample.qpc < previous[i].qpc
               \/ BlockEnd < previous[i].tail
    <2>1. \A i \in DOMAIN previous : /\ previous[i].position \in Nat
                                     /\ previous[i].qpc \in Nat
                                     /\ previous[i].tail \in Nat
      BY <1>1, PreviousAnchor
    <2>2. QED  BY <1>1, <2>1 DEF NotDecreasing
  <1>3. /\ i = 1 /\ previous # <<>>
        /\ previous[i].position \in Nat /\ previous[i].tail \in Nat
    BY <1>1, <1>2, PreviousAnchor
  <1>4. /\ ToOutputFrame(previous[i].position) <= last_presented
        /\ previous[i].tail <= submitted_tail
    BY <1>1, <1>3 DEF PublishedInv
  <1>5. ~(BlockEnd < previous[i].tail)
    BY <1>1, <1>3, <1>4 DEF LoopType
  <1>6. CASE sample.position < previous[i].position
    <2>1. /\ ToOutputFrame(sample.position) \in Nat
          /\ ToOutputFrame(previous[i].position) \in Nat
          /\ ToOutputFrame(sample.position)
                <= ToOutputFrame(previous[i].position)
      <3>1. sample.position <= previous[i].position
        BY <1>1, <1>3, <1>6
      <3>2. QED  BY <1>1, <1>3, <3>1, FramesInOrder
    <2>2. ToOutputFrame(sample.position) = ToOutputFrame(previous[i].position)
      BY <1>1, <1>4, <2>1
    <2>3. QED  BY <1>2, <1>6, <2>2 DEF BackWithinFrame
  <1>7. QED  BY <1>2, <1>5, <1>6 DEF BackWithinFrame

LEMMA InvalidatingStep ==
    ASSUME LoopInv, [LoopNext]_renderVars, ~invalidated, invalidated'
    PROVE  loop' \in {"failed", "ended"} \/ BackWithinFrame
  <1>1. ~UNCHANGED invalidated
    OBVIOUS
  <1>2. CASE SubmitAndPublish
    <2>1. loop = "submit"
      BY <1>2 DEF SubmitAndPublish
    <2>2. ~NotDecreasing([position |-> sample.position, qpc |-> sample.qpc,
                          tail |-> BlockEnd])
      BY <1>1, <1>2 DEF SubmitAndPublish, Publish
    <2>3. QED  BY <2>1, <2>2, RefusedWithinFrame
  <1>3. CASE ReadClockFails \/ CleanupExactClock
    BY <1>3 DEF ReadClockFails, CleanupExactClock, Fail
  <1>4. CASE Tick \/ WaitAndReadClock \/ LeaveLoop \/ UNCHANGED renderVars
    BY <1>1, <1>4 DEF Tick, WaitAndReadClock, LeaveLoop, renderVars, clockVars
  <1>5. CASE StoreAnchor
    BY <1>1, <1>5 DEF StoreAnchor, FinishPublish, StorePayload,
                      StoreEvenVersion, StorePublishedCount
  <1>6. CASE ResolvePast
    BY <1>1, <1>6 DEF ResolvePast, BeginResolve
  <1>7. CASE SearchAnchor
    BY <1>1, <1>7 DEF SearchAnchor, Search, LoadVersion, LoadField,
                      LoadVersionAgain, Finish
  <1>8. QED  BY <1>2, <1>3, <1>4, <1>5, <1>6, <1>7 DEF LoopNext

(* An anchor of the running loop invalidates the clock only when the       *)
(* endpoint's host time went back, or its position within one output       *)
(* frame: all else is caught by the plan before (RenderLoop, Plan,         *)
(* Publish).                                                               *)
THEOREM LoopPublicationsAccepted == LoopSpec => OwnPublicationsAccepted
  <1>1. LoopInit => LoopInv
    BY LoopInit_Inv
  <1>2. LoopInv /\ [LoopNext]_renderVars => LoopInv'
    BY LoopStep
  <1>3. LoopInv /\ [LoopNext]_renderVars =>
            [~invalidated /\ invalidated' =>
                loop' \in {"failed", "ended"} \/ BackWithinFrame]_renderVars
    BY InvalidatingStep
  <1>4. QED
    BY <1>1, <1>2, <1>3, PTL DEF LoopSpec, OwnPublicationsAccepted

-----------------------------------------------------------------------------
LEMMA LoopClockStep ==
    ASSUME LoopInv, [LoopNext]_renderVars
    PROVE  [ClockNext]_clockVars
  <1>0. LoopType /\ PublishedInv
    BY DEF LoopInv
  <1>1. CASE SubmitAndPublish
    <2>1. [position |-> sample.position, qpc |-> sample.qpc, tail |-> BlockEnd]
              \in Anchor
      BY <1>0, <1>1
         DEF SubmitAndPublish, LoopType, PublishedInv, Anchor, BlockEnd
    <2>2. QED  BY <1>1, <2>1 DEF SubmitAndPublish, ClockNext
  <1>2. CASE ReadClockFails \/ CleanupExactClock
    BY <1>2 DEF ReadClockFails, CleanupExactClock, ClockNext
  <1>3. CASE ResolvePast
    BY <1>3 DEF ResolvePast, ClockNext
  <1>4. CASE StoreAnchor \/ SearchAnchor
    BY <1>4 DEF StoreAnchor, SearchAnchor, ClockNext
  <1>5. CASE Tick \/ WaitAndReadClock \/ LeaveLoop \/ UNCHANGED renderVars
    BY <1>5 DEF Tick, WaitAndReadClock, LeaveLoop, renderVars
  <1>6. QED  BY <1>1, <1>2, <1>3, <1>4, <1>5 DEF LoopNext

(* Every step of the running output is a step of the clock or none.        *)
THEOREM LoopImplementsClock == LoopSpec => ClockSpec
  <1>1. LoopInit => LoopInv /\ ClockInit
    BY LoopInit_Inv DEF LoopInit
  <1>2. LoopInv /\ [LoopNext]_renderVars => LoopInv'
    BY LoopStep
  <1>3. LoopInv /\ [LoopNext]_renderVars => [ClockNext]_clockVars
    BY LoopClockStep
  <1>4. QED  BY <1>1, <1>2, <1>3, PTL DEF LoopSpec, ClockSpec

(* So the running output's answers are the log's.                          *)
THEOREM LoopAnswersFromLog == LoopSpec => AnswersFromLog
  BY LoopImplementsClock, ClockAnswersFromLog

-----------------------------------------------------------------------------
(* The loop over the tracker's positions, unfolded: there are two at most. *)
LEMMA UpToTwo ==
    ASSUME NEW n \in Nat, n < 3
    PROVE  n \in {0, 1, 2}
  OBVIOUS

LEMMA AppendTwo ==
    ASSUME NEW a \in Nat, NEW b \in Nat
    PROVE  Append(<<a>>, b) = <<a, b>> /\ Append(<<>>, b) = <<b>>
  <1>1. <<a>> \in Seq(Nat) /\ Len(<<a>>) = 1 /\ <<a>>[1] = a
    OBVIOUS
  <1> DEFINE s == Append(<<a>>, b)
             t == <<a, b>>
  <1>2. s \in Seq(Nat) /\ Len(s) = 2 /\ s[1] = a /\ s[2] = b
    BY <1>1
  <1>3. t \in Seq(Nat) /\ Len(t) = 2 /\ t[1] = a /\ t[2] = b
    OBVIOUS
  <1> HIDE DEF s, t
  <1>4. \A i \in 1 .. 2 : s[i] = t[i]
    BY <1>2, <1>3
  <1>5. s = t
    BY <1>2, <1>3, <1>4
  <1>6. Append(<<>>, b) = <<b>>
    OBVIOUS
  <1>7. QED  BY <1>5, <1>6 DEF s, t

LEMMA GapsInWindowAre ==
    ASSUME NEW p, gap_positions \in Seq(Nat), Len(gap_positions) < GapLimit
    PROVE  LET g       == gap_positions
               InWindow(i) == p - g[i] < GapWindow
           IN /\ Len(g) = 0 => GapsInWindow(p) = <<>>
              /\ Len(g) = 1 =>
                    GapsInWindow(p) = IF InWindow(1) THEN <<g[1]>> ELSE <<>>
              /\ Len(g) = 2 =>
                    GapsInWindow(p) =
                        IF InWindow(2)
                        THEN IF InWindow(1) THEN <<g[1], g[2]>> ELSE <<g[2]>>
                        ELSE IF InWindow(1) THEN <<g[1]>> ELSE <<>>
  <1> DEFINE g == gap_positions
             L == Len(gap_positions)
             InWindow(i) == p - g[i] < GapWindow
             Rec(f) == f = [n \in 0 .. L |->
                              IF n = 0 THEN <<>>
                              ELSE IF InWindow(n) THEN Append(f[n - 1], g[n])
                                                  ELSE f[n - 1]]
             first  == IF InWindow(1) THEN <<g[1]>> ELSE <<>>
             second == IF InWindow(2) THEN Append(first, g[2]) ELSE first
             w == [n \in 0 .. L |-> IF n = 0 THEN <<>> ELSE IF n = 1 THEN first ELSE second]
             kept == CHOOSE f : Rec(f)
  <1> SUFFICES /\ L = 0 => GapsInWindow(p) = <<>>
               /\ L = 1 =>
                     GapsInWindow(p) = IF InWindow(1) THEN <<g[1]>> ELSE <<>>
               /\ L = 2 =>
                     GapsInWindow(p) =
                         IF InWindow(2)
                         THEN IF InWindow(1) THEN <<g[1], g[2]>> ELSE <<g[2]>>
                         ELSE IF InWindow(1) THEN <<g[1]>> ELSE <<>>
    OBVIOUS
  <1>1. L \in {0, 1, 2}
    <2>1. Len(gap_positions) \in Nat /\ Len(gap_positions) < 3
      BY DEF GapLimit
    <2>2. QED  BY ONLY <2>1, UpToTwo
  <1>2. GapsInWindow(p) = kept[L]
    BY DEF GapsInWindow
  <1>3. <<g[1]>> = Append(<<>>, g[1])
    BY <1>1
  <1>4. Rec(w)
    <2> DEFINE r == [n \in 0 .. L |->
                        IF n = 0 THEN <<>>
                        ELSE IF InWindow(n) THEN Append(w[n - 1], g[n])
                                            ELSE w[n - 1]]
    <2>1. ASSUME NEW n \in 0 .. L PROVE w[n] = r[n]
      <3>1. n \in {0, 1, 2}
        <4> HIDE DEF L
        <4>0. L \in Nat /\ L < 3
          BY ONLY <1>1
        <4>1. n \in Nat /\ n < 3
          BY <2>1, <4>0
        <4>2. QED  BY ONLY <4>1, UpToTwo
      <3>2. CASE n = 0
        BY <3>2
      <3>3. CASE n = 1
        <4>1. 0 \in 0 .. L /\ w[0] = <<>> /\ w[n] = first /\ n - 1 = 0
          BY <1>1, <2>1, <3>3
        <4>2. r[n] = IF InWindow(1) THEN Append(<<>>, g[1]) ELSE <<>>
          BY <4>1, <3>3
        <4>3. QED  BY <4>1, <4>2, <1>3
      <3>4. CASE n = 2
        <4>1. 1 \in 0 .. L /\ w[1] = first /\ w[n] = second /\ n - 1 = 1
          BY <1>1, <2>1, <3>4
        <4> HIDE DEF first
        <4>2. r[n] = second
          BY <4>1, <3>4
        <4>3. QED  BY <4>1, <4>2
      <3>5. QED  BY <3>1, <3>2, <3>3, <3>4
    <2>2. w = r
      BY <2>1
    <2>3. QED  BY <2>2
  <1>5. Rec(kept)
    <2> HIDE DEF Rec, w
    <2>1. QED  BY <1>4
  <1> HIDE DEF first, second, w, kept
  <1>10. ASSUME NEW n \in 0 .. L
         PROVE  kept[n] = IF n = 0 THEN <<>>
                          ELSE IF InWindow(n) THEN Append(kept[n - 1], g[n])
                                              ELSE kept[n - 1]
    <2> HIDE DEF InWindow, L, g
    <2>1. QED  BY <1>5
  <1> HIDE DEF Rec, InWindow
  <1>6. CASE L = 0
    <2>1. kept[0] = <<>>
      BY <1>10, <1>6
    <2>2. QED  BY <1>2, <1>6, <2>1
  <1>7. CASE L = 1
    <2>1. kept[0] = <<>>
      BY <1>10, <1>7
    <2>2. kept[1] = IF InWindow(1) THEN Append(kept[0], g[1]) ELSE kept[0]
      <3>1. 1 \in 0 .. L /\ 1 - 1 = 0
        BY <1>7
      <3>2. QED  BY <1>10, <3>1
    <2>3. QED  BY <1>2, <1>3, <1>7, <2>1, <2>2
  <1>8. CASE L = 2
    <2>1. kept[0] = <<>>
      BY <1>10, <1>8
    <2>2. kept[1] = IF InWindow(1) THEN Append(kept[0], g[1]) ELSE kept[0]
      <3>1. 1 \in 0 .. L /\ 1 - 1 = 0
        BY <1>8
      <3>2. QED  BY <1>10, <3>1
    <2>3. kept[2] = IF InWindow(2) THEN Append(kept[1], g[2]) ELSE kept[1]
      <3>1. 2 \in 0 .. L /\ 2 - 1 = 1
        BY <1>8
      <3>2. QED  BY <1>10, <3>1
    <2>4. Append(<<g[1]>>, g[2]) = <<g[1], g[2]>> /\ Append(<<>>, g[2]) = <<g[2]>>
      <3>1. g \in Seq(Nat) /\ 1 \in 1 .. Len(g) /\ 2 \in 1 .. Len(g)
        BY <1>8
      <3>2. g[1] \in Nat /\ g[2] \in Nat
        BY <3>1
      <3>3. QED  BY <3>2, AppendTwo
    <2>5. kept[1] = IF InWindow(1) THEN <<g[1]>> ELSE <<>>
      BY <1>3, <2>1, <2>2
    <2>6. kept[2] = IF InWindow(2)
                    THEN IF InWindow(1) THEN <<g[1], g[2]>> ELSE <<g[2]>>
                    ELSE IF InWindow(1) THEN <<g[1]>> ELSE <<>>
      BY <2>3, <2>4, <2>5
    <2>7. QED  BY <1>2, <1>8, <2>6
  <1>9. QED  BY <1>1, <1>6, <1>7, <1>8

(* The tracker keeps the last of the gaps, those that are in the window of *)
(* the last one, and gives up at the third.                                *)
GapsInv ==
    /\ gaps \in Seq(Nat) /\ gap_positions \in Seq(Nat)
    /\ Len(gap_positions) <= Len(gaps) /\ Len(gap_positions) <= GapLimit
    /\ \A i \in 1 .. Len(gaps) : gaps[i] <= last_presented
    /\ \A i, j \in 1 .. Len(gaps) : i <= j => gaps[i] <= gaps[j]
    /\ \A i \in 1 .. Len(gap_positions) :
          gap_positions[i] = gaps[Len(gaps) - Len(gap_positions) + i]
    /\ \A i \in 1 .. Len(gaps) :
          gaps[Len(gaps)] - gaps[i] < GapWindow
             <=> i > Len(gaps) - Len(gap_positions)

FailureInv ==
    /\ loop \in {"wait", "submit"} => failure = "none"
    /\ failure = "none" => Len(gap_positions) < GapLimit
    /\ failure = "InvalidClockPosition" => Len(gap_positions) < GapLimit
    /\ failure = "ChronicOutputGap" => Len(gap_positions) = GapLimit
    /\ failure \in {"none", "Endpoint", "InvalidClockPosition", "ChronicOutputGap"}

(* What is kept of the positions is the last of them.                      *)
LEMMA GapsInWindowAreLast ==
    ASSUME NEW p \in Nat, gap_positions \in Seq(Nat), Len(gap_positions) < GapLimit,
           \A i, j \in 1 .. Len(gap_positions) :
               i <= j => gap_positions[i] <= gap_positions[j]
    PROVE  LET kept == GapsInWindow(p)
               n    == Len(gap_positions)
           IN /\ kept \in Seq(Nat) /\ Len(kept) <= n
              /\ \A i \in 1 .. Len(kept) : kept[i] = gap_positions[n - Len(kept) + i]
              /\ \A i \in 1 .. n :
                    p - gap_positions[i] < GapWindow <=> i > n - Len(kept)
  <1> DEFINE g == gap_positions
             kept == GapsInWindow(p)
  <1>1. /\ Len(g) = 0 => kept = <<>>
        /\ Len(g) = 1 => kept = IF p - g[1] < GapWindow THEN <<g[1]>> ELSE <<>>
        /\ Len(g) = 2 =>
              kept = IF p - g[2] < GapWindow
                     THEN IF p - g[1] < GapWindow THEN <<g[1], g[2]>> ELSE <<g[2]>>
                     ELSE IF p - g[1] < GapWindow THEN <<g[1]>> ELSE <<>>
    BY GapsInWindowAre
  <1>2. g \in Seq(Nat) /\ Len(g) \in {0, 1, 2}
    <2>1. Len(gap_positions) \in Nat /\ Len(gap_positions) < 3
      BY DEF GapLimit
    <2>2. Len(gap_positions) \in {0, 1, 2}
      BY ONLY <2>1, UpToTwo
    <2>3. QED  BY <2>2
  <1>3. \A i, j \in 1 .. Len(g) : i <= j => g[i] <= g[j]
    OBVIOUS
  <1>0. GapWindow \in Nat
    OBVIOUS
  <1> SUFFICES /\ kept \in Seq(Nat) /\ Len(kept) <= Len(g)
               /\ \A i \in 1 .. Len(kept) : kept[i] = g[Len(g) - Len(kept) + i]
               /\ \A i \in 1 .. Len(g) :
                     p - g[i] < GapWindow <=> i > Len(g) - Len(kept)
    OBVIOUS
  <1> HIDE DEF g, kept
  <1>4. CASE Len(g) = 0
    BY <1>1, <1>4
  <1>5. CASE Len(g) = 1
    <2>0. 1 \in 1 .. Len(g)
      BY <1>5
    <2>1. g[1] \in Nat
      BY <1>2, <2>0
    <2>2. CASE p - g[1] < GapWindow
      <3>1. kept = <<g[1]>>
        BY <1>1, <1>5, <2>2
      <3>2. kept \in Seq(Nat) /\ Len(kept) = 1 /\ kept[1] = g[1]
        BY <2>1, <3>1
      <3>3. QED  BY <1>5, <2>1, <2>2, <3>2
    <2>3. CASE ~(p - g[1] < GapWindow)
      <3>1. kept = <<>>
        BY <1>1, <1>5, <2>3
      <3>2. kept \in Seq(Nat) /\ Len(kept) = 0
        BY <3>1
      <3>3. QED  BY <1>5, <2>1, <2>3, <3>2
    <2>4. QED  BY <2>2, <2>3
  <1>6. CASE Len(g) = 2
    <2>0. 1 \in 1 .. Len(g) /\ 2 \in 1 .. Len(g) /\ 1 <= 2
      BY <1>6
    <2>1. g[1] \in Nat /\ g[2] \in Nat /\ g[1] <= g[2]
      BY <1>2, <1>3, <2>0
    <2>2. CASE p - g[1] < GapWindow
      <3>1. p - g[2] < GapWindow
        BY <1>0, <2>1, <2>2
      <3>2. kept = <<g[1], g[2]>>
        BY <1>1, <1>6, <2>2, <3>1
      <3>3. kept \in Seq(Nat) /\ Len(kept) = 2 /\ kept[1] = g[1] /\ kept[2] = g[2]
        BY <2>1, <3>2
      <3>4. QED  BY <1>6, <2>1, <2>2, <3>1, <3>3
    <2>3. CASE ~(p - g[1] < GapWindow) /\ p - g[2] < GapWindow
      <3>1. kept = <<g[2]>>
        BY <1>1, <1>6, <2>3
      <3>2. kept \in Seq(Nat) /\ Len(kept) = 1 /\ kept[1] = g[2]
        BY <2>1, <3>1
      <3>3. QED  BY <1>6, <2>1, <2>3, <3>2
    <2>4. CASE ~(p - g[1] < GapWindow) /\ ~(p - g[2] < GapWindow)
      <3>1. kept = <<>>
        BY <1>1, <1>6, <2>4
      <3>2. kept \in Seq(Nat) /\ Len(kept) = 0
        BY <3>1
      <3>3. QED  BY <1>6, <2>1, <2>4, <3>2
    <2>5. QED  BY <2>2, <2>3, <2>4
  <1>7. QED  BY <1>2, <1>4, <1>5, <1>6

LEMMA OneGapMore ==
    ASSUME NEW p \in Nat, GapsInv, Len(gap_positions) < GapLimit,
           last_presented \in Nat, last_presented <= p, last_presented' = p,
           gap_positions' = RecordGap(p), gaps' = Append(gaps, p)
    PROVE  GapsInv'
  <1> DEFINE g == gap_positions
             N == Len(gaps)
             n == Len(gap_positions)
             kept == GapsInWindow(p)
             m == Len(kept)
  <1>0. GapWindow \in Nat /\ GapWindow > 0
    OBVIOUS
  <1>1. /\ gaps \in Seq(Nat) /\ g \in Seq(Nat)
        /\ N \in Nat /\ n \in Nat /\ n <= N /\ n < 3
    BY DEF GapsInv, GapLimit
  <1>2. /\ \A i \in 1 .. N : gaps[i] \in Nat /\ gaps[i] <= p
        /\ \A i, j \in 1 .. N : i <= j => gaps[i] <= gaps[j]
        /\ \A i \in 1 .. n : g[i] = gaps[N - n + i]
        /\ \A i \in 1 .. N : gaps[N] - gaps[i] < GapWindow <=> i > N - n
    <2>1. \A i \in 1 .. N : gaps[i] \in Nat /\ gaps[i] <= last_presented
      BY <1>1 DEF GapsInv
    <2>2. QED  BY <2>1 DEF GapsInv
  <1>3. \A i, j \in 1 .. n : i <= j => g[i] <= g[j]
    <2> HIDE DEF n, N, g
    <2>1. ASSUME NEW i \in 1 .. n, NEW j \in 1 .. n, i <= j
          PROVE  g[i] <= g[j]
      <3>1. N - n + i \in 1 .. N /\ N - n + j \in 1 .. N /\ N - n + i <= N - n + j
        BY <1>1, <2>1
      <3>2. QED  BY <1>2, <3>1
    <2>2. QED  BY <2>1
  <1>4. /\ kept \in Seq(Nat) /\ m <= n
        /\ \A i \in 1 .. m : kept[i] = g[n - m + i]
        /\ \A i \in 1 .. n : p - g[i] < GapWindow <=> i > n - m
    BY <1>1, <1>3, GapsInWindowAreLast
  <1>5. m \in Nat
    BY <1>4
  <1>6. gap_positions' = Append(kept, p)
    <2>1. Len(kept) < GapLimit
      <3> HIDE DEF n, kept
      <3>1. QED  BY <1>1, <1>4 DEF GapLimit
    <2>2. QED  BY <2>1 DEF RecordGap
  <1> HIDE DEF kept, m, n, N, g
  <1>7. /\ gap_positions' \in Seq(Nat) /\ Len(gap_positions') = m + 1
        /\ \A i \in 1 .. m : gap_positions'[i] = kept[i]
        /\ gap_positions'[m + 1] = p
    BY <1>4, <1>5, <1>6 DEF m
  <1>8. /\ gaps' \in Seq(Nat) /\ Len(gaps') = N + 1
        /\ \A i \in 1 .. N : gaps'[i] = gaps[i]
        /\ gaps'[N + 1] = p
    BY <1>1 DEF N
  <1>9. ASSUME NEW i \in 1 .. N + 1
        PROVE  gaps'[i] \in Nat /\ gaps'[i] <= p
    <2>1. i = N + 1 \/ i \in 1 .. N
      BY <1>1
    <2>2. QED  BY <1>2, <1>8, <2>1
  <1>10. ASSUME NEW i \in 1 .. N + 1, NEW j \in 1 .. N + 1, i <= j
         PROVE  gaps'[i] <= gaps'[j]
    <2>1. j = N + 1 \/ (j \in 1 .. N /\ i \in 1 .. N)
      BY <1>1, <1>10
    <2>2. CASE j = N + 1
      BY <1>8, <1>9, <2>2
    <2>3. CASE j \in 1 .. N /\ i \in 1 .. N
      BY <1>2, <1>8, <1>10, <2>3
    <2>4. QED  BY <2>1, <2>2, <2>3
  <1>11. ASSUME NEW i \in 1 .. m + 1
         PROVE  gap_positions'[i] = gaps'[(N + 1) - (m + 1) + i]
    <2>1. CASE i = m + 1
      <3>1. (N + 1) - (m + 1) + i = N + 1
        BY <1>1, <1>5, <2>1
      <3>2. QED  BY <1>7, <1>8, <2>1, <3>1
    <2>2. CASE i # m + 1
      <3>1. /\ i \in 1 .. m /\ n - m + i \in 1 .. n
            /\ N - n + (n - m + i) = (N + 1) - (m + 1) + i
            /\ N - n + (n - m + i) \in 1 .. N
        BY <1>1, <1>4, <1>5, <2>2
      <3>2. gap_positions'[i] = g[n - m + i]
        BY <1>4, <1>7, <3>1
      <3>3. g[n - m + i] = gaps[N - n + (n - m + i)]
        BY <1>2, <3>1
      <3>4. QED  BY <1>8, <3>1, <3>2, <3>3
    <2>3. QED  BY <2>1, <2>2
  <1>12. ASSUME NEW i \in 1 .. N + 1
         PROVE  p - gaps'[i] < GapWindow <=> i > (N + 1) - (m + 1)
    <2>1. CASE i = N + 1
      BY <1>0, <1>1, <1>4, <1>5, <1>8, <2>1
    <2>2. CASE i \in 1 .. N - n
      <3>1. i \in 1 .. N /\ ~(i > N - n) /\ N \in 1 .. N /\ i <= (N + 1) - (m + 1)
        BY <1>1, <1>4, <1>5, <2>2
      <3>2. /\ ~(gaps[N] - gaps[i] < GapWindow)
            /\ gaps[N] \in Nat /\ gaps[i] \in Nat /\ gaps[N] <= p
            /\ gaps'[i] = gaps[i]
        BY <1>2, <1>8, <3>1
      <3>3. ~(p - gaps[i] < GapWindow)
        <4> DEFINE a == gaps[i]  b == gaps[N]
        <4>1. ~(b - a < GapWindow) /\ a \in Nat /\ b \in Nat /\ b <= p
          BY <3>2
        <4>2. p \in Nat /\ GapWindow \in Nat
          BY <1>0
        <4> HIDE DEF a, b
        <4>3. ~(p - a < GapWindow)
          BY ONLY <4>1, <4>2
        <4>4. QED  BY <4>3 DEF a
      <3>4. QED  BY <1>1, <1>5, <3>1, <3>2, <3>3
    <2>3. CASE i \in N - n + 1 .. N
      <3> DEFINE k == i - (N - n)
      <3>1. i \in 1 .. N /\ k \in 1 .. n /\ N - n + k = i
        BY <1>1, <2>3
      <3>2. gaps'[i] = g[k]
        BY <1>2, <1>8, <3>1
      <3>3. k > n - m <=> i > (N + 1) - (m + 1)
        BY <1>1, <1>4, <1>5, <3>1
      <3> HIDE DEF k
      <3>4. QED  BY <1>4, <3>1, <3>2, <3>3
    <2>4. i = N + 1 \/ i \in 1 .. N - n \/ i \in N - n + 1 .. N
      BY <1>1
    <2>5. QED  BY <2>1, <2>2, <2>3, <2>4
  <1>13. m + 1 <= N + 1 /\ m + 1 <= GapLimit
    BY <1>1, <1>4, <1>5 DEF GapLimit
  <1>14. QED
    BY <1>7, <1>8, <1>9, <1>10, <1>11, <1>12, <1>13 DEF GapsInv

LEMMA ThreeRecentGaps ==
    ASSUME GapsInv
    PROVE  Cardinality(RecentGaps) = Len(gap_positions)
  <1> DEFINE N == Len(gaps)
             n == Len(gap_positions)
  <1>1. N \in Nat /\ n \in Nat /\ n <= N /\ DOMAIN gaps = 1 .. N
    BY DEF GapsInv
  <1>2. \A i \in 1 .. N : gaps[N] - gaps[i] < GapWindow <=> i > N - n
    BY DEF GapsInv
  <1>3. RecentGaps = {i \in 1 .. N : i > N - n}
    BY <1>1, <1>2 DEF RecentGaps
  <1> HIDE DEF N, n
  <1>4. RecentGaps = (N - n) + 1 .. N
    BY <1>1, <1>3
  <1>5. Cardinality((N - n) + 1 .. N) = n
    <2>1. (N - n) + 1 \in Int /\ N \in Int /\ N - ((N - n) + 1) + 1 = n
      BY <1>1
    <2>2. Cardinality((N - n) + 1 .. N) =
              IF (N - n) + 1 > N THEN 0 ELSE N - ((N - n) + 1) + 1
      BY <2>1, FS_Interval
    <2>3. QED  BY <1>1, <2>1, <2>2
  <1>6. QED  BY <1>4, <1>5 DEF n

LEMMA ChronicHolds ==
    ASSUME GapsInv, FailureInv
    PROVE  ChronicMeansThreeGaps
  <1>1. Cardinality(RecentGaps) = Len(gap_positions) /\ Len(gap_positions) \in Nat
    BY ThreeRecentGaps DEF GapsInv
  <1>2. QED  BY <1>1 DEF FailureInv, ChronicMeansThreeGaps, GapLimit

LEMMA GapStep ==
    ASSUME LoopType, GapsInv, FailureInv, [LoopNext]_renderVars
    PROVE  GapsInv' /\ FailureInv'
  <1>1. CASE WaitAndReadClock
    <2>0. /\ loop = "wait" /\ failure = "none"
          /\ last_presented \in Nat /\ Len(gap_positions) < GapLimit
      BY <1>1 DEF LoopType, FailureInv, WaitAndReadClock
    <2>1. PICK lag \in ClockLags : IF device < lag THEN NoOutputFrame
                                   ELSE Plan(ToOutputFrame(device - lag))
      BY <1>1 DEF WaitAndReadClock
    <2> DEFINE presented == ToOutputFrame(device - lag)
    <2>7. CASE NoOutputFrame
      BY <2>0, <2>7 DEF NoOutputFrame, Fail, GapsInv, FailureInv
    <2>8. SUFFICES ASSUME ~NoOutputFrame PROVE GapsInv' /\ FailureInv'
      BY <2>7
    <2>2. presented \in Nat /\ Plan(presented) /\ loop = "wait"
      <3>1. device - lag \in Nat
        BY <2>1, <2>8 DEF LoopType
      <3>2. QED  BY <2>0, <2>1, <2>8, <3>1, FramesInOrder
    <2> HIDE DEF presented
    <2>3. last_presented \in Nat /\ failure = "none" /\ Len(gap_positions) < GapLimit
      BY <2>0
    <2>4. CASE WentBack(presented)
      BY <2>2, <2>3, <2>4 DEF Plan, Fail, GapsInv, FailureInv
    <2>5. CASE ~WentBack(presented) /\ presented > submitted_tail
      <3>1. /\ last_presented' = presented /\ last_presented <= presented
            /\ gap_positions' = RecordGap(presented)
            /\ gaps' = Append(gaps, presented)
            /\ IF Len(gap_positions') >= GapLimit
               THEN failure' = "ChronicOutputGap" /\ loop' = "failed"
               ELSE loop' = "submit" /\ failure' = failure
        BY <2>2, <2>3, <2>5 DEF Plan, Fail, WentBack
      <3>2. GapsInv'
        BY <2>2, <2>3, <3>1, OneGapMore
      <3>3. Len(gap_positions') \in Nat /\ Len(gap_positions') <= GapLimit
        BY <3>2 DEF GapsInv
      <3>4. FailureInv'
        <4>1. CASE Len(gap_positions') >= GapLimit
          <5>1. Len(gap_positions') = GapLimit
            <6> DEFINE k == Len(gap_positions')
            <6>1. k \in Nat /\ k <= GapLimit /\ k >= GapLimit
              BY <3>3, <4>1
            <6> HIDE DEF k
            <6>2. k = GapLimit
              BY ONLY <6>1 DEF GapLimit
            <6>3. QED  BY <6>2 DEF k
          <5>2. failure' = "ChronicOutputGap" /\ loop' = "failed"
            BY <3>1, <4>1
          <5>3. QED  BY <5>1, <5>2 DEF FailureInv
        <4>2. CASE ~(Len(gap_positions') >= GapLimit)
          <5>1. Len(gap_positions') < GapLimit
            BY <3>3, <4>2 DEF GapLimit
          <5>2. failure' = "none" /\ loop' = "submit"
            BY <2>3, <3>1, <4>2
          <5>3. QED  BY <5>1, <5>2 DEF FailureInv
        <4>3. QED  BY <4>1, <4>2
      <3>5. QED  BY <3>2, <3>4
    <2>6. CASE ~WentBack(presented) /\ ~(presented > submitted_tail)
      <3>1. /\ last_presented' = presented /\ last_presented <= presented
            /\ loop' = "submit" /\ UNCHANGED <<gap_positions, gaps, failure>>
        BY <2>2, <2>3, <2>6 DEF Plan, WentBack
      <3>2. \A i \in 1 .. Len(gaps) : gaps[i] \in Nat /\ gaps[i] <= last_presented
        BY DEF GapsInv
      <3>3. \A i \in 1 .. Len(gaps) : gaps[i] <= presented
        BY <2>2, <2>3, <3>1, <3>2
      <3>4. GapsInv'
        BY <3>1, <3>3 DEF GapsInv
      <3>5. FailureInv'
        BY <2>3, <3>1 DEF FailureInv
      <3>6. QED  BY <3>4, <3>5
    <2>9. QED  BY <2>4, <2>5, <2>6
  <1>2. ASSUME UNCHANGED <<gaps, gap_positions, last_presented>>,
               \/ UNCHANGED <<loop, failure>>
               \/ failure' = failure /\ loop' \in {"failed", "ended"}
               \/ failure' = failure /\ loop = "submit"
               \/ failure' = "Endpoint" /\ loop' = "failed"
        PROVE  GapsInv' /\ FailureInv'
    BY <1>2 DEF GapsInv, FailureInv
  <1>3. CASE Tick \/ StoreAnchor
    BY <1>2, <1>3 DEF Tick, StoreAnchor, loopVars
  <1>4. CASE SubmitAndPublish
    BY <1>2, <1>4 DEF SubmitAndPublish
  <1>5. CASE LeaveLoop \/ ReadClockFails \/ CleanupExactClock
    BY <1>2, <1>5 DEF LeaveLoop, ReadClockFails, CleanupExactClock, Fail
  <1>6. CASE ResolvePast \/ SearchAnchor \/ UNCHANGED renderVars
    BY <1>2, <1>6 DEF ResolvePast, SearchAnchor, renderVars, loopVars
  <1>7. QED
    BY <1>1, <1>3, <1>4, <1>5, <1>6 DEF LoopNext

(* OutputPacingTracker: the output is given up as chronically late exactly *)
(* when three of all gaps ever noticed lie within the window of the last,  *)
(* although only the tracker's three places tell it so.                    *)
THEOREM ChronicGapsMeanThree == LoopSpec => []ChronicMeansThreeGaps
  <1>1. LoopInit => LoopInv /\ GapsInv /\ FailureInv
    BY LoopInit_Inv DEF LoopInit, GapsInv, FailureInv, GapLimit
  <1>2. LoopInv /\ GapsInv /\ FailureInv /\ [LoopNext]_renderVars
            => LoopInv' /\ GapsInv' /\ FailureInv'
    BY LoopStep, GapStep DEF LoopInv
  <1>3. GapsInv /\ FailureInv => ChronicMeansThreeGaps
    BY ChronicHolds
  <1>4. QED  BY <1>1, <1>2, <1>3, PTL DEF LoopSpec
=============================================================================
