------------------------------ MODULE JvsDevice ------------------------------
(* The emulated card reader on the bus (Jvs/Device.cpp, TaitoCommands.cpp, *)
(* State.cpp, CardData.cpp). A packet holds several commands; each is an   *)
(* action that takes its parameters from the packet and appends its report *)
(* to the reply. The scanned card is shared with two worker threads behind *)
(* a lock; everything else belongs to the thread that writes to the port.  *)
EXTENDS JvsLine

CONSTANTS
    Cards,       \* the card data that can be read, sequences of bytes
    CardSize,    \* the bytes of one card
    Identity,    \* the answers to the five identification commands
    kMaxPayloadSize,  \* the bytes of a reply
    MaxScans     \* bound on the scans of a run

ASSUME CardsAssumption ==
    Cards # {} /\ \A card \in Cards : card \in Seq(Byte) /\ Len(card) = CardSize

ASSUME DeviceAssumption ==
    /\ kMaxPayloadSize \in 1..254 /\ MaxScans \in Nat
    /\ DOMAIN Identity = 16..20
    /\ \A command \in DOMAIN Identity : Identity[command] \in Seq(Byte)

VARIABLES
    exec,              \* the packet under way
    assigned_address,  \* a set of at most one address
    coins,             \* per slot
    scan,              \* CardScanState: [present, card_data, generation]
    armed,             \* history: the data of the newest scan
    handed             \* history: the newest scan put into a reply

busVars    == <<assigned_address, coins>>
scanVars   == <<scan, armed>>
deviceVars == <<exec, busVars, scanVars, handed>>

kMaximumCoinCount == 16383
Slots     == 1..2
Broadcast == 255
NoData    == <<>>

(* The status of a reply and the report of a command.                      *)
ok == 1  unknown_command == 2  checksum_error == 3  acknowledgement_overflow == 4
invalid_input_parameter == 2  invalid_output_parameter == 3

Idle == [at |-> "idle"]
NoCard == [generation |-> 0, card_data |-> NoData]

DeviceInit ==
    /\ exec = Idle
    /\ assigned_address = {} /\ coins = [slot \in Slots |-> 0]
    /\ scan = [present |-> FALSE, card_data |-> NoData, generation |-> 0]
    /\ armed = NoData /\ handed = NoCard

-----------------------------------------------------------------------------
(* CardScanState, under its lock. NoData is a scan whose data is read from *)
(* a file when it is transferred.                                          *)
Arm(card_data) ==
    /\ scan.generation < MaxScans
    /\ scan' = [present |-> TRUE, card_data |-> card_data,
                generation |-> scan.generation + 1]
    /\ armed' = card_data

(* Mutant: a scan made during the transfer is taken with it.               *)
ConsumeAny(generation) ==
    scan' = [scan EXCEPT !.present = FALSE, !.card_data = NoData]

Consume(generation) ==
    scan' = IF scan.present /\ scan.generation = generation
            THEN [scan EXCEPT !.present = FALSE, !.card_data = NoData]
            ELSE scan

ResetBus ==
    /\ assigned_address' = {}
    /\ coins' = [slot \in Slots |-> 0]

-----------------------------------------------------------------------------
(* HandlePacket. The reply starts with the status; a packet that asked for *)
(* no acknowledgement has no reply.                                        *)
BeginPacket(packet) ==
    exec' = [at |-> IF packet.payload = <<>> THEN "done" ELSE "run",
             broadcast |-> packet.address = Broadcast,
             rest |-> packet.payload, alone |-> Len(packet.payload) = 1,
             reply |-> <<ok>>, required |-> FALSE, retransmit |-> FALSE,
             taken |-> 0]

(* The command at the front, and the bytes after it.                       *)
Command(c) == exec.at = "run" /\ exec.rest # <<>> /\ Head(exec.rest) = c
Commands(cs) == \E c \in cs : Command(c)
Parameters == Tail(exec.rest)
Has(count) == Len(Parameters) >= count

(* AppendOrOverflow after append_report: an overflow ends the packet.      *)
Reported(e, taken, bytes) ==
    LET next == [e EXCEPT !.rest = SubSeq(@, taken + 2, Len(@)),
                          !.required = TRUE]
    IN  IF Len(e.reply) + Len(bytes) <= kMaxPayloadSize
        THEN [next EXCEPT !.reply = @ \o bytes]
        ELSE [next EXCEPT !.reply = <<acknowledgement_overflow>>,
                          !.at = "done"]
Report(taken, bytes) == exec' = Reported(exec, taken, bytes)

(* SetStatus, then finish.                                                 *)
Refuse ==
    exec' = [exec EXCEPT !.reply[1] = unknown_command,
                         !.required = TRUE, !.at = "done"]
(* A report that ends the packet.                                          *)
EndWith(report) ==
    exec' = [Reported(exec, 0, <<report>>) EXCEPT !.at = "done"]
Finish == exec' = [exec EXCEPT !.at = "done"]

EndOfPacket ==
    /\ exec.at = "run" /\ exec.rest = <<>>
    /\ Finish
    /\ UNCHANGED <<busVars, scanVars, handed>>

TaitoParameters ==
    [command \in {1, 3, 4, 5} |->
        CASE command = 4 -> 0 [] command = 5 -> 2 [] OTHER -> 1]
TaitoCommand ==
    /\ Commands(DOMAIN TaitoParameters)
    /\ LET c == Head(exec.rest)
           count == TaitoParameters[c]
       IN  IF ~Has(count)
           THEN Report(Len(Parameters), <<invalid_input_parameter>>)
           ELSE Report(count, IF c \in {1, 3} THEN <<ok, 1>> ELSE <<ok>>)
    /\ UNCHANGED <<busVars, scanVars, handed>>

Reset ==
    /\ Command(240)
    /\ \/ ~exec.broadcast /\ Refuse /\ UNCHANGED busVars
       \/ /\ exec.broadcast /\ ~(Has(1) /\ Parameters[1] = 217)
          /\ Finish /\ UNCHANGED busVars
       \/ /\ exec.broadcast /\ Has(1) /\ Parameters[1] = 217
          /\ exec' = [exec EXCEPT !.rest = SubSeq(@, 3, Len(@))]
          /\ ResetBus
    /\ UNCHANGED <<scanVars, handed>>

SetAddress ==
    /\ Command(241)
    /\ \/ ~exec.broadcast /\ Refuse /\ UNCHANGED busVars
       \/ /\ exec.broadcast /\ ~Has(1)
          /\ EndWith(invalid_input_parameter) /\ UNCHANGED busVars
       \/ /\ exec.broadcast /\ Has(1)
          /\ assigned_address' = {Parameters[1]} /\ UNCHANGED coins
          /\ Report(1, <<ok>>)
    /\ UNCHANGED <<scanVars, handed>>

(* read_id, the three revisions and the capabilities.                      *)
Identify ==
    /\ Commands(DOMAIN Identity)
    /\ Report(0, <<ok>> \o Identity[Head(exec.rest)])
    /\ UNCHANGED <<busVars, scanVars, handed>>

Zeros(count) == [i \in 1..count |-> 0]

ReadSwitches ==
    /\ Command(32)
    /\ IF ~Has(2) THEN EndWith(invalid_input_parameter)
       ELSE IF Parameters[1] \in 1..2 /\ Parameters[2] \in 1..2
       THEN Report(2, <<ok, 0>> \o Zeros(Parameters[1] * Parameters[2]))
       ELSE Report(2, <<invalid_input_parameter>>)
    /\ UNCHANGED <<busVars, scanVars, handed>>

(* Two bytes of every slot, the higher first.                              *)
CoinBytes(slots) ==
    [i \in 1..2 * slots |->
        LET value == coins[(i + 1) \div 2] IN
        IF i % 2 = 1 THEN value \div 256 ELSE value % 256]

ReadCoins ==
    /\ Command(33)
    /\ IF ~Has(1) THEN EndWith(invalid_input_parameter)
       ELSE IF Parameters[1] \in Slots
       THEN Report(1, <<ok>> \o CoinBytes(Parameters[1]))
       ELSE Report(1, <<invalid_input_parameter>>)
    /\ UNCHANGED <<busVars, scanVars, handed>>

(* One selector byte per requested byte, as many as the packet has.        *)
ReadGeneralInput ==
    /\ Command(38)
    /\ IF ~Has(1) THEN EndWith(invalid_input_parameter)
       ELSE Report(1 + Min({Parameters[1], Len(Parameters) - 1}),
                   <<ok>> \o [i \in 1..Parameters[1] |->
                                  IF scan.present THEN 25 ELSE 0])
    /\ UNCHANGED <<busVars, scanVars, handed>>

Retransmit ==
    /\ Command(47)
    /\ IF exec.alone
       THEN exec' = [exec EXCEPT !.retransmit = TRUE, !.at = "done"]
       ELSE Refuse
    /\ UNCHANGED <<busVars, scanVars, handed>>

(* decrease_coins and increase_coins, which stop at zero and the maximum.  *)
ChangeCoins ==
    /\ Commands({48, 49})
    /\ \/ ~Has(3) /\ EndWith(invalid_input_parameter) /\ UNCHANGED coins
       \/ /\ Has(3) /\ Parameters[1] \notin Slots
          /\ Report(3, <<invalid_output_parameter>>) /\ UNCHANGED coins
       \/ /\ Has(3) /\ Parameters[1] \in Slots
          /\ LET value == 256 * Parameters[2] + Parameters[3] IN
             coins' = [coins EXCEPT ![Parameters[1]] =
                 IF Head(exec.rest) = 48 THEN (IF value > @ THEN 0 ELSE @ - value)
                 ELSE Min({@ + value, kMaximumCoinCount})]
          /\ Report(3, <<ok>>)
    /\ UNCHANGED <<assigned_address, scanVars, handed>>

(* The transfer of a card, up to its second report. The data of a scan by  *)
(* key is that of the file now, or the default.                            *)
WriteGeneralOutput ==
    /\ Command(50)
    /\ \/ ~Has(1) /\ EndWith(invalid_input_parameter) /\ UNCHANGED handed
       \/ /\ Has(1) /\ ~Has(1 + Parameters[1])
          /\ EndWith(invalid_output_parameter) /\ UNCHANGED handed
       \/ /\ Has(1) /\ Has(1 + Parameters[1]) /\ ~scan.present
          /\ Report(1 + Parameters[1],
                    <<ok>> \o Zeros(Parameters[1] * CardSize) \o <<ok>>)
          /\ UNCHANGED handed
       \/ /\ Has(1) /\ Has(1 + Parameters[1]) /\ scan.present
          /\ \E card \in IF scan.card_data = NoData THEN Cards
                                                    ELSE {scan.card_data} :
                LET sent == Reported(exec, 1 + Parameters[1],
                                     <<ok>> \o card \o <<ok>>)
                IN  IF sent.at = "done"
                    THEN exec' = sent /\ UNCHANGED handed
                    ELSE /\ exec' = [sent EXCEPT !.at = "card",
                                                 !.taken = scan.generation]
                         /\ handed' = [generation |-> scan.generation,
                                       card_data  |-> card]
    /\ UNCHANGED <<busVars, scanVars>>

(* Its end: the scan is consumed, unless another came in the meantime.     *)
ConsumeScan ==
    /\ exec.at = "card"
    /\ Consume(exec.taken)
    /\ exec' = [exec EXCEPT !.at = "run"]
    /\ UNCHANGED <<busVars, armed, handed>>

KnownCommands ==
    DOMAIN TaitoParameters \cup DOMAIN Identity
        \cup {32, 33, 38, 47, 48, 49, 50, 240, 241}
UnknownCommand ==
    /\ Commands(Byte \ KnownCommands)
    /\ Refuse
    /\ UNCHANGED <<busVars, scanVars, handed>>

DeviceStep ==
    \/ EndOfPacket \/ TaitoCommand \/ Reset \/ SetAddress \/ Identify
    \/ ReadSwitches \/ ReadCoins \/ ReadGeneralInput \/ Retransmit
    \/ ChangeCoins \/ WriteGeneralOutput \/ ConsumeScan \/ UnknownCommand
=============================================================================
