---------------------------- MODULE AsioProtocol ----------------------------
(***************************************************************************)
(* The messages between the configuration tool and the process that hosts  *)
(* an ASIO driver (AsioProbeProtocol.cpp). A message is the sequence of    *)
(* its fields, each a pair of a type and a value; sizes are counted in     *)
(* fields, and a cut inside a field is one before it. A text stands for    *)
(* its length and its bytes, a name of a channel is the number of bytes it *)
(* has in UTF-8. "noise" is whatever else a driver writes to the standard  *)
(* output of its process. The version, the CLSID and the text of failures  *)
(* are left out; all texts of a driver are valid UTF-8 by the time they    *)
(* are written.                                                            *)
(***************************************************************************)
EXTENDS Integers, Sequences
Ext == INSTANCE SequencesExt

kAsioProbeMagic == 1330205505
kAsioProbeProtocolVersion == 2
kAsioProbeMaxChannelNameBytes == 32
kAsioProbeEnvelopeFields == 4
kAsioProbeMaxFields == 20       \* stands for kAsioProbeMaxMessageBytes

(* One type for each class: those with a converter, the other ones that    *)
(* the interface names, and any other number.                              *)
SupportedSampleTypes == {"Int32LSB"}
KnownSampleTypes == SupportedSampleTypes \union {"DSDInt8LSB1"}
SampleTypes == KnownSampleTypes \union {"unknown"}

MessageKinds == [request |-> 1, capability |-> 2, failure |-> 3,
                 control_panel_request |-> 4, control_panel_success |-> 5]
ModeNumber == [inspect |-> 1, validate |-> 2]
StageNumber == [driver |-> 1, protocol |-> 2]

U32(n)  == <<"u32", n>>
U16(n)  == <<"u16", n>>
Text(s) == <<"text", s>>
Name(n) == <<"name", n>>
SampleType(type) == <<"type", type>>
Noise   == <<"noise", 0>>

NoMessage == <<>>
Malformed == [is |-> "malformed"]

Types(fields)  == [i \in DOMAIN fields |-> fields[i][1]]
Value(fields, i) == fields[i][2]

(* Frame and ReadEnvelope.                                                 *)
Frame(kind, payload) ==
    IF Len(payload) > kAsioProbeMaxFields - kAsioProbeEnvelopeFields
    THEN NoMessage
    ELSE <<U32(kAsioProbeMagic), U16(kAsioProbeProtocolVersion),
           U16(MessageKinds[kind]), U32(Len(payload))>> \o payload

HasEnvelope(bytes) ==
    /\ Len(bytes) >= kAsioProbeEnvelopeFields
    /\ bytes[1] = U32(kAsioProbeMagic)
    /\ bytes[2] = U16(kAsioProbeProtocolVersion)
    /\ Types(SubSeq(bytes, 3, 4)) = <<"u16", "u32">>
    /\ Len(bytes) = kAsioProbeEnvelopeFields + Value(bytes, 4)

IsKind(bytes, kind) == HasEnvelope(bytes) /\ Value(bytes, 3) = MessageKinds[kind]
Payload(bytes) == SubSeq(bytes, kAsioProbeEnvelopeFields + 1, Len(bytes))

-----------------------------------------------------------------------------
EncodeAsioProbeRequest(request) ==
    Frame("request", <<U32(ModeNumber[request.mode]), U32(request.frames),
                       U32(request.base), Text(request.driver)>>)

DecodeAsioProbeRequest(bytes) ==
    LET payload == Payload(bytes)
    IN  IF /\ IsKind(bytes, "request")
           /\ Types(payload) = <<"u32", "u32", "u32", "text">>
           /\ \E mode \in DOMAIN ModeNumber : Value(payload, 1) = ModeNumber[mode]
        THEN [is |-> "request",
              mode |-> CHOOSE mode \in DOMAIN ModeNumber :
                           Value(payload, 1) = ModeNumber[mode],
              frames |-> Value(payload, 2), base |-> Value(payload, 3),
              driver |-> Value(payload, 4)]
        ELSE Malformed

EncodeAsioControlPanelRequest(request) ==
    IF request.driver = "" THEN NoMessage
    ELSE Frame("control_panel_request", <<Text(request.driver)>>)

DecodeAsioControlPanelRequest(bytes) ==
    LET payload == Payload(bytes)
    IN  IF /\ IsKind(bytes, "control_panel_request")
           /\ Types(payload) = <<"text">> /\ Value(payload, 1) # ""
        THEN [is |-> "request", mode |-> "panel", frames |-> 0, base |-> 0,
              driver |-> Value(payload, 1)]
        ELSE Malformed

-----------------------------------------------------------------------------
(* WriteReport and ReadReport. A report with a channel whose name is too   *)
(* long, or whose sample type is not known, has no message.                *)
WriteReport(report) ==
    <<Text(report.driver), U32(report.rate), U32(report.preferred),
      U32(Len(report.outputs))>>
    \o Ext!FlattenSeq([i \in DOMAIN report.outputs |->
           <<U32(i - 1), Name(report.outputs[i].name), SampleType(report.outputs[i].type)>>])
    \o <<U32(report.base), U32(report.effective)>>

IsWritable(report) ==
    \A i \in DOMAIN report.outputs :
       /\ report.outputs[i].name <= kAsioProbeMaxChannelNameBytes
       /\ report.outputs[i].type \in KnownSampleTypes

ReportTypes(channels) ==
    <<"text", "u32", "u32", "u32">>
    \o Ext!FlattenSeq([i \in 1..channels |-> <<"u32", "name", "type">>])
    \o <<"u32", "u32">>

ReadReport(payload) ==
    IF /\ Len(payload) >= 6 /\ payload[4][1] = "u32"
       /\ Types(payload) = ReportTypes(Value(payload, 4))
    THEN LET channels == Value(payload, 4)
         IN  [is |-> "report", driver |-> Value(payload, 1),
              rate |-> Value(payload, 2), preferred |-> Value(payload, 3),
              outputs |-> [i \in 1..channels |->
                               [name |-> Value(payload, 3 * i + 3),
                                type |-> Value(payload, 3 * i + 4)]],
              base |-> Value(payload, Len(payload) - 1),
              effective |-> Value(payload, Len(payload))]
    ELSE Malformed

(* WriteFailure and ReadFailure.                                           *)
Failure(stage) == [is |-> "failure", stage |-> stage]
ReadFailure(payload) ==
    IF /\ Types(payload) = <<"u32">>
       /\ \E stage \in DOMAIN StageNumber : Value(payload, 1) = StageNumber[stage]
    THEN Failure(CHOOSE stage \in DOMAIN StageNumber :
                     Value(payload, 1) = StageNumber[stage])
    ELSE Malformed

EncodeFailure(failure) == Frame("failure", <<U32(StageNumber[failure.stage])>>)

EncodeAsioProbeResult(result) ==
    IF result.is = "failure" THEN EncodeFailure(result)
    ELSE IF IsWritable(result) THEN Frame("capability", WriteReport(result))
    ELSE NoMessage

DecodeAsioProbeResult(bytes) ==
    CASE IsKind(bytes, "capability") -> ReadReport(Payload(bytes))
      [] IsKind(bytes, "failure")    -> ReadFailure(Payload(bytes))
      [] OTHER                       -> Malformed

PanelClosed == [is |-> "closed"]
EncodeAsioControlPanelResult(result) ==
    IF result.is = "failure" THEN EncodeFailure(result)
    ELSE Frame("control_panel_success", <<>>)

DecodeAsioControlPanelResult(bytes) ==
    CASE IsKind(bytes, "control_panel_success") /\ Payload(bytes) = <<>> -> PanelClosed
      [] IsKind(bytes, "failure") -> ReadFailure(Payload(bytes))
      [] OTHER -> Malformed
=============================================================================
