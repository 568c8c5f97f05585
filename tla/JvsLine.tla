------------------------------- MODULE JvsLine -------------------------------
(* The wire format of the card reader's serial bus (Jvs/Encoder.cpp,       *)
(* Jvs/Decoder.cpp). A frame is a raw Sync, then address, byte count,      *)
(* payload and checksum, in which Sync and Marker are sent as a Marker and *)
(* the value less one. A packet here is [address, payload]; a decoder      *)
(* keeps the values it has decoded since the last Sync.                    *)
EXTENDS Naturals, Sequences, SequencesExt

Byte   == 0..255
Sync   == 224
Marker == 208

Sum(values) ==
    LET sum[n \in 0..Len(values)] ==
            IF n = 0 THEN 0 ELSE sum[n - 1] + values[n]
    IN  sum[Len(values)]

(* AppendEscaped.                                                          *)
Escaped(value) ==
    IF value \in {Sync, Marker} THEN <<Marker, value - 1>> ELSE <<value>>

FrameValues(address, payload) ==
    LET body == <<address, Len(payload) + 1>> \o payload
    IN  Append(body, Sum(body) % 256)

(* A Sync, and the values one after the other.                             *)
Wire(values) ==
    LET wire[n \in 0..Len(values)] ==
            IF n = 0 THEN <<Sync>> ELSE wire[n - 1] \o Escaped(values[n])
    IN  wire[Len(values)]

EncodePacket(address, payload) == Wire(FrameValues(address, payload))

(* Decoder::Reset: nothing is decoded before the next Sync.                *)
Seeking == [seeking |-> TRUE, marker |-> FALSE, values |-> <<>>]
AtAddress == [Seeking EXCEPT !.seeking = FALSE]

(* The events of a decoder.                                                *)
NoEvent       == [kind |-> "none"]
InvalidEscape == [kind |-> "framing"]
ZeroByteCount == [kind |-> "framing"]
ChecksumFailure == [kind |-> "checksum"]
DecodedPacket(values) ==
    [kind    |-> "packet", address |-> values[1],
     payload |-> SubSeq(values, 3, Len(values) - 1)]

Complete(values) == Len(values) > 2 /\ Len(values) = 2 + values[2]
ChecksumHolds(values) == Sum(Front(values)) % 256 = Last(values)

(* Decoder::PushDecoded.                                                   *)
PushDecoded(decoder, value) ==
    LET values == Append(decoder.values, value) IN
    IF Len(values) = 2 /\ value = 0
    THEN [decoder |-> Seeking, event |-> ZeroByteCount]
    ELSE IF ~Complete(values)
    THEN [decoder |-> [decoder EXCEPT !.values = values, !.marker = FALSE],
          event   |-> NoEvent]
    ELSE [decoder |-> Seeking,
          event   |-> IF ChecksumHolds(values) THEN DecodedPacket(values)
                                               ELSE ChecksumFailure]

(* Mutant: a Sync inside a frame does not start the next one.              *)
PushWithoutRestart(decoder, raw) ==
    IF decoder.seeking
    THEN [decoder |-> IF raw = Sync THEN AtAddress ELSE decoder,
          event   |-> NoEvent]
    ELSE IF raw = Marker
    THEN [decoder |-> [decoder EXCEPT !.marker = TRUE], event |-> NoEvent]
    ELSE PushDecoded(decoder, IF decoder.marker THEN (raw + 1) % 256 ELSE raw)

(* Decoder::Push.                                                          *)
Push(decoder, raw) ==
    IF raw = Sync THEN [decoder |-> AtAddress, event |-> NoEvent]
    ELSE IF decoder.seeking THEN [decoder |-> decoder, event |-> NoEvent]
    ELSE IF decoder.marker
    THEN IF raw \in {Sync - 1, Marker - 1}
         THEN PushDecoded(decoder, raw + 1)
         ELSE [decoder |-> Seeking, event |-> InvalidEscape]
    ELSE IF raw = Marker
    THEN [decoder |-> [decoder EXCEPT !.marker = TRUE], event |-> NoEvent]
    ELSE PushDecoded(decoder, raw)

(* Decoder::Consume: every byte is pushed; what follows the first event is *)
(* the rest.                                                               *)
Consumed(decoder, bytes) ==
    LET pushed[n \in 0..Len(bytes)] ==
            IF n = 0
            THEN [decoder |-> decoder, event |-> NoEvent, taken |-> 0]
            ELSE LET before == pushed[n - 1]
                     result == Push(before.decoder, bytes[n])
                 IN  IF before.event.kind # "none" THEN before
                     ELSE [decoder |-> result.decoder, event |-> result.event,
                           taken |-> n]
        last == pushed[Len(bytes)]
    IN  [decoder |-> last.decoder, event |-> last.event,
         rest |-> SubSeq(bytes, last.taken + 1, Len(bytes))]

(* A sequence of bytes is one whole packet for the master.                 *)
IsOneReply(bytes) ==
    LET c == Consumed(Seeking, bytes) IN
    c.event.kind = "packet" /\ c.event.address = 0 /\ c.rest = <<>>
=============================================================================
