----------------------------- MODULE CardReader -----------------------------
(* The card reader as the game sees it: the emulated serial port           *)
(* (ComPortState.cpp, Win32FileHandlers.cpp), the two worker threads that  *)
(* scan cards (Runtime.cpp, CardReaderInterface.cpp), and the game, which  *)
(* opens the port, writes requests in pieces and reads the replies. The    *)
(* port belongs to the thread of the game that uses it; only the scanned   *)
(* card is shared. The line settings (DCB, masks, time-outs, modem lines)  *)
(* are stored and returned unchanged and are left out.                     *)
EXTENDS JvsDevice

CONSTANTS
    Requests,    \* the requests of the game: [address, payload]
    Noisy,       \* those of which a frame may be damaged
    MaxFrames,   \* bound on the frames begun while the port is open
    WriteSizes,  \* the bytes of one write, and of one read
    ReadSizes

ASSUME RequestsAssumption ==
    \A request \in Requests :
        /\ request.address \in Byte
        /\ request.payload \in Seq(Byte) /\ Len(request.payload) <= 254

ASSUME SizesAssumption == WriteSizes \subseteq Nat /\ ReadSizes \subseteq Nat

VARIABLES
    open,
    decoder,
    pending_reply,    \* the frame the game has yet to read, or <<>>
    read_cursor,
    last_reply,
    input,            \* what the write under way has yet to consume
    worker,           \* the key worker: "none", "running", "unavailable"
    listener,         \* the pipe listener: "none", "unavailable", "serve"
    frame,            \* the game: what it has yet to write of a frame
    frames,           \* how many it has begun
    sent,             \* history: the request of that frame and whether the
                      \* frame is undamaged
    handled,          \* history: the packets handled since the frame began
    got               \* history: what the game has read of a reply it is
                      \* reading

portVars == <<open, decoder, pending_reply, read_cursor, last_reply>>
gameVars == <<frame, frames, sent, handled, got>>
workerVars == <<worker, listener>>
vars == <<deviceVars, portVars, input, workerVars, gameVars>>

NoRequest == [address |-> 0, payload |-> <<>>, intact |-> FALSE]
Nothing   == <<>>

Init ==
    /\ DeviceInit
    /\ open = FALSE /\ decoder = Seeking
    /\ pending_reply = Nothing /\ read_cursor = 0 /\ last_reply = Nothing
    /\ input = Nothing
    /\ worker = "none" /\ listener = "none"
    /\ frame = Nothing /\ frames = 0 /\ sent = NoRequest /\ handled = <<>>
    /\ got = Nothing

(* The game is not inside a call of the port.                              *)
Returned == input = Nothing /\ exec.at = "idle"

Unread == SubSeq(pending_reply, read_cursor + 1, Len(pending_reply))
-----------------------------------------------------------------------------
(* Runtime::OpenCom2. Each worker is started once; without the first the   *)
(* port never opens, without the second it does.                           *)
StartCardWorker ==
    /\ worker = "none"
    /\ worker' \in {"running", "unavailable"}
    /\ UNCHANGED <<open, listener>>

OpenPort ==
    /\ worker = "running"
    /\ open' = TRUE
    /\ IF listener = "none" THEN listener' \in {"serve", "unavailable"}
                            ELSE UNCHANGED listener
    /\ UNCHANGED worker

OpenCom2 ==
    /\ Returned
    /\ StartCardWorker \/ OpenPort
    /\ UNCHANGED <<deviceVars, decoder, pending_reply, read_cursor,
                   last_reply, input, gameVars>>

(* ComPortState::Close. A scan waits for the next opening.                 *)
CloseCom2 ==
    /\ Returned /\ open
    /\ open' = FALSE
    /\ ResetBus
    /\ decoder' = Seeking
    /\ pending_reply' = Nothing /\ last_reply' = Nothing /\ read_cursor' = 0
    /\ frame' = Nothing /\ frames' = 0 /\ sent' = NoRequest /\ handled' = <<>>
    /\ got' = Nothing
    /\ UNCHANGED <<exec, scanVars, handed, input, workerVars>>

-----------------------------------------------------------------------------
(* The game frames a request. It may give up a frame it has begun, and a   *)
(* frame may reach the port damaged: a byte lost, or another in its place. *)
Damaged(bytes) ==
    {RemoveAt(bytes, i) : i \in DOMAIN bytes}
        \cup {ReplaceAt(bytes, i, raw) :
                  i \in DOMAIN bytes, raw \in {0, Marker, Sync}}

BeginFrame ==
    /\ Returned /\ open /\ frames < MaxFrames
    /\ frames' = frames + 1
    /\ \E request \in Requests :
          LET bytes == EncodePacket(request.address, request.payload) IN
          /\ frame' \in IF request \in Noisy THEN {bytes} \cup Damaged(bytes)
                                           ELSE {bytes}
          /\ sent' = [address |-> request.address,
                      payload |-> request.payload,
                      intact  |-> frame' = bytes]
    /\ handled' = <<>>
    /\ UNCHANGED <<deviceVars, portVars, input, workerVars, got>>

(* ComPortState::Write: the port takes all the bytes it is given.          *)
Write ==
    /\ Returned /\ open /\ frame # Nothing
    /\ \E size \in WriteSizes :
          /\ input' = SubSeq(frame, 1, Min({size, Len(frame)}))
          /\ frame' = SubSeq(frame, size + 1, Len(frame))
    /\ UNCHANGED <<deviceVars, portVars, workerVars, frames, sent, handled, got>>

(* Mutant: an answer replaces the one that is being read.                  *)
AcknowledgeOver(payload) ==
    /\ pending_reply' = EncodePacket(0, payload)
    /\ last_reply' = EncodePacket(0, payload)
    /\ UNCHANGED <<read_cursor, got>>

(* ComPortState::QueueResponse.                                            *)
Acknowledge(payload) ==
    IF pending_reply # Nothing
    THEN UNCHANGED <<pending_reply, last_reply, read_cursor, got>>
    ELSE /\ pending_reply' = EncodePacket(0, payload)
         /\ last_reply' = EncodePacket(0, payload)
         /\ read_cursor' = 0 /\ got' = Nothing

RetransmitPrevious ==
    /\ UNCHANGED last_reply
    /\ IF pending_reply # Nothing \/ last_reply = Nothing
       THEN UNCHANGED <<pending_reply, read_cursor, got>>
       ELSE /\ pending_reply' = last_reply
            /\ read_cursor' = 0 /\ got' = Nothing

NoResponse == UNCHANGED <<pending_reply, last_reply, read_cursor, got>>

(* Decoder::Consume with the sink of Write, up to the next event.          *)
ConsumeInput ==
    /\ input # Nothing /\ exec.at = "idle"
    /\ LET c == Consumed(decoder, input) IN
       /\ decoder' = c.decoder /\ input' = c.rest
       /\ \/ /\ c.event.kind \in {"none", "framing"}
             /\ NoResponse /\ UNCHANGED <<exec, handled>>
          \/ /\ c.event.kind = "checksum"
             /\ Acknowledge(<<checksum_error>>)
             /\ UNCHANGED <<exec, handled>>
          \/ /\ c.event.kind = "packet"
             /\ BeginPacket(c.event)
             /\ handled' = Append(handled, [address |-> c.event.address,
                                            payload |-> c.event.payload])
             /\ NoResponse
    /\ UNCHANGED <<busVars, scanVars, handed, open, workerVars, frame, frames, sent>>

RunPacket ==
    /\ DeviceStep
    /\ UNCHANGED <<portVars, input, workerVars, gameVars>>

EndPacket ==
    /\ exec.at = "done"
    /\ \/ exec.retransmit /\ RetransmitPrevious
       \/ ~exec.retransmit /\ exec.required /\ Acknowledge(exec.reply)
       \/ ~exec.retransmit /\ ~exec.required /\ NoResponse
    /\ exec' = Idle
    /\ UNCHANGED <<busVars, scanVars, handed, open, decoder, input,
                   workerVars, frame, frames, sent, handled>>

(* ComPortState::Read.                                                     *)
Read ==
    /\ Returned /\ open /\ pending_reply # Nothing
    /\ \E size \in ReadSizes :
          LET copied == SubSeq(Unread, 1, Min({size, Len(Unread)})) IN
          IF copied = Unread
          THEN pending_reply' = Nothing /\ read_cursor' = 0 /\ got' = Nothing
          ELSE /\ read_cursor' = read_cursor + Len(copied)
               /\ got' = got \o copied
               /\ UNCHANGED pending_reply
    /\ UNCHANGED <<deviceVars, open, decoder, last_reply, input, workerVars,
                   frame, frames, sent, handled>>

-----------------------------------------------------------------------------
(* RunCardWorker polls the key: the poll that finds it newly down is a     *)
(* scan. RunCardReaderWorker serves one client of the pipe after the other *)
(* (ServeOneCardReaderConnection): a message that is a card number is a    *)
(* scan, whatever becomes of the answer to the client. A poll, a client    *)
(* and an error that scan nothing change nothing.                          *)
PressKey == worker = "running" /\ Arm(NoData)

ServeClient == listener = "serve" /\ \E card \in Cards : Arm(card)

Scan ==
    /\ PressKey \/ ServeClient
    /\ UNCHANGED <<exec, busVars, handed, portVars, input, workerVars,
                   gameVars>>

Next ==
    \/ OpenCom2 \/ CloseCom2 \/ BeginFrame \/ Write \/ ConsumeInput
    \/ RunPacket \/ EndPacket \/ Read
    \/ Scan

Spec == Init /\ [][Next]_vars

-----------------------------------------------------------------------------
(* Values are those the code's variables can have.                         *)
TypeOK ==
    /\ open \in BOOLEAN
    /\ exec.at \in {"idle", "run", "card", "done"}
    /\ assigned_address \subseteq Byte
    /\ coins \in [Slots -> 0..kMaximumCoinCount]
    /\ scan.present \in BOOLEAN /\ scan.generation \in 0..MaxScans
    /\ read_cursor \in 0..Len(pending_reply)

(* A request that reaches the port undamaged is handled, once and as it    *)
(* was sent, whatever came before it and however writes cut it: a Sync     *)
(* starts over, an escape may be cut (Decoder::Push).                      *)
IntactFrameHandled ==
    Returned /\ frame = Nothing /\ sent.intact =>
        handled = <<[address |-> sent.address, payload |-> sent.payload]>>

(* What the game reads is one whole reply: what it has read of it and what *)
(* it has yet to read decode to one packet for the master. No answer is    *)
(* mixed into another, however requests and reads alternate                *)
(* (QueueResponse, Read).                                                  *)
WholeReplies ==
    pending_reply # Nothing => IsOneReply(got \o Unread)

(* A scan is gone only when it, and not an earlier one, was put into a     *)
(* reply with its own data, also when a card is scanned while another is   *)
(* being transferred (Device::HandlePacket, CardScanState::Consume).       *)
CardAccounted ==
    ~scan.present /\ scan.generation > 0 =>
        /\ handed.generation = scan.generation
        /\ armed # NoData => handed.card_data = armed
=============================================================================
