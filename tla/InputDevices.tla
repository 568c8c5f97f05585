---------------------------- MODULE InputDevices ----------------------------
(***************************************************************************)
(* What the input worker makes of its devices between two publications:    *)
(* raw keyboard messages, the polled XInput slot or the packets of one raw *)
(* HID device, the threshold latches, the mapper that composes them to one *)
(* word, and the release of everything when the game's window is not in    *)
(* front.                                                                  *)
(*                                                                         *)
(* A message or a timer tick is handled as one step up to the exchange of  *)
(* the published word; what follows the exchange is a step of the module   *)
(* that extends this one, which also starts and stops the worker.          *)
(***************************************************************************)
EXTENDS ControllerActivation, FiniteSets, TLC

CONSTANTS
    Actions,             \* logical actions; GameplayActions come from one source
    GameplayActions,
    KeyboardBindings,    \* [key, action]
    Settings,            \* the input settings a process may have: [mode, absolute,
                         \* backend, bindings, press, release]
    Descriptors,         \* raw HID: control -> [bits, min, max, null, report]
    PadStates            \* backend -> what its controller's controls read together

Keys == {b.key : b \in KeyboardBindings}

ASSUME DevicesAssumption ==
    /\ GameplayActions \subseteq Actions
    /\ \A b \in KeyboardBindings : b.action \in Actions
    /\ \A s \in Settings :
          /\ s.mode \in {"Keyboard", "Controller"}
          /\ s.backend \in {"XInput", "RawHid"}
          /\ s.absolute \in BOOLEAN
          /\ s.press \in 0 .. 100 /\ s.release \in 0 .. 100
          /\ s.release < s.press
          /\ \A b \in s.bindings : b.action \in GameplayActions

Axis == {"positive", "negative"}
Cardinal == {"up", "right", "down", "left"}

(* What a binding of either backend may name; an XInput control reads an   *)
(* integer, and a neutral lies in the range its control reports.           *)
ASSUME ControlsAssumption ==
    /\ \A p \in PadStates["XInput"] : \A c \in DOMAIN p : p[c] \in Int
    /\ \A s \in Settings : \A b \in s.bindings :
          IF s.backend = "XInput"
          THEN \/ b.kind \in {"button", "trigger"} /\ b.direction = "none"
               \/ b.kind = "axis" /\ b.direction \in Axis
          ELSE /\ b.control \in DOMAIN Descriptors
               /\ Descriptors[b.control].min \in Int
               /\ Descriptors[b.control].max \in Int
               /\ \/ b.kind = "button" /\ b.direction = "none"
                  \/ b.kind = "hat" /\ b.direction \in Cardinal
                  \/ /\ b.kind = "value" /\ b.direction \in Axis
                     /\ InRange(b.neutral, Descriptors[b.control])

VARIABLES
    settings,
    front, keys, pad,    \* the outside: the window in front, keys that are
                         \* down, the controller or NoPad
    packet_read,         \* the slot's packet number is the one last read
    foreground,          \* foreground_tracker_
    keyboard_states, controller_states, latches,
    xinput,              \* [open, connected, state, waiting]; waiting: the slot
                         \* was empty or failed, the interval has not passed
                         \* and no device has changed since
    raw_hid,             \* [open, current, values]; current: it was opened
                         \* since the device was last plugged in
    published_input,
    publication,         \* [previous, next] after the exchange, or NoPublication
    reading              \* for the properties: whether the controller's last
                         \* reading is the one the mapper has

outsideVars == <<settings, front, keys, pad, packet_read>>
mapperVars  == <<keyboard_states, controller_states, latches>>
deviceVars  == <<outsideVars, foreground, mapperVars, xinput, raw_hid,
                 published_input, publication, reading>>

Nothing == [control \in {} |-> 0]
NoPad == Nothing
NoPublication == [next |-> "none"]

PadControls == {b.control : b \in settings.bindings}

ClosedXInput ==
    [open |-> FALSE, connected |-> FALSE, state |-> Nothing, waiting |-> FALSE]
ClosedRawHid ==
    [open |-> FALSE, current |-> FALSE, values |-> Nothing]
OpenedRawHid == [ClosedRawHid EXCEPT !.open = TRUE, !.current = TRUE]

DevicesInit ==
    /\ settings \in Settings
    /\ front \in BOOLEAN
    /\ keys = {}
    /\ pad \in PadStates[settings.backend] \cup {NoPad}
    /\ packet_read = FALSE
    /\ foreground = TRUE
    /\ keyboard_states = {} /\ controller_states = {} /\ latches = {}
    /\ xinput = ClosedXInput
    /\ raw_hid = ClosedRawHid
    /\ published_input = {}
    /\ publication = NoPublication
    /\ reading = "applied"

-----------------------------------------------------------------------------
(* InputMapper::GetInput: gameplay actions come from the configured source *)
(* only, the others from the keyboard whatever the mode.                   *)
Compose(keyboard, controller) ==
    LET held(bindings) == {b.action : b \in bindings}
        source == IF settings.mode = "Keyboard" THEN keyboard ELSE controller
    IN  (held(keyboard) \ GameplayActions)
            \cup (held(source) \cap GameplayActions)

(* Publish: compose, read the clock, exchange. The previous word goes with *)
(* the transition, not what the mapper held before.                        *)
PublishInput(keyboard, controller) ==
    LET next == Compose(keyboard, controller)
    IN  /\ published_input' = next
        /\ publication' =
              IF settings.absolute /\ next # published_input
              THEN [previous |-> published_input, next |-> next]
              ELSE NoPublication

SetMapper(keyboard, controller) ==
    /\ keyboard_states' = keyboard
    /\ controller_states' = controller
    /\ PublishInput(keyboard, controller)

(* ControllerStateView: what a device has not told, it does not activate.  *)
Activation(values, b) ==
    IF b.control \notin DOMAIN values THEN None
    ELSE IF settings.backend = "XInput" THEN XInputActivation(b, values[b.control])
    ELSE RawHidActivation(b, values[b.control], Descriptors[b.control])

(* DigitalLatch: pressed at the press threshold, kept down to the release  *)
(* threshold.                                                              *)
Latched(values) ==
    {b \in settings.bindings :
        Reaches(Activation(values, b),
                IF b \in latches THEN settings.release ELSE settings.press)}

ApplyControllerState(values) ==
    /\ latches' = Latched(values)
    /\ SetMapper(keyboard_states, Latched(values))
    /\ reading' = "applied"

Disconnected(x) ==
    [x EXCEPT !.connected = FALSE, !.state = Nothing, !.waiting = TRUE]

ClearXInput == xinput' = [xinput EXCEPT !.connected = FALSE, !.state = Nothing]
ClearRawHid == raw_hid' = [raw_hid EXCEPT !.values = Nothing]

(* Mutant: the latches survive the loss of the foreground.                 *)
LoseForegroundKeepingLatches ==
    /\ ~front /\ foreground
    /\ foreground' = FALSE
    /\ ClearXInput /\ ClearRawHid
    /\ SetMapper({}, {})
    /\ reading' = "applied"
    /\ UNCHANGED <<outsideVars, latches>>

(* CheckForeground opens every handler but that of a device change. When   *)
(* the window has left the front everything is released at once and the    *)
(* handler does no more; a window that is back only changes the tracker.   *)
LoseForeground ==
    /\ ~front /\ foreground
    /\ foreground' = FALSE
    /\ latches' = {}
    /\ ClearXInput /\ ClearRawHid
    /\ SetMapper({}, {})
    /\ reading' = "applied"
    /\ UNCHANGED outsideVars

InForeground == front /\ foreground' = TRUE

-----------------------------------------------------------------------------
Ready == publication = NoPublication

(* OnRawInput, a key: the message repeats while the key is down. A packet  *)
(* that cannot be read is not modelled for keys.                           *)
KeyMoves(key, pressed) ==
    /\ pressed \/ key \in keys
    /\ keys' = IF pressed THEN keys \cup {key} ELSE keys \ {key}
    /\ UNCHANGED <<settings, front, pad, packet_read>>

ApplyKeyboardTransition(key, pressed) ==
    LET bound == {b \in KeyboardBindings : b.key = key}
    IN  IF pressed THEN keyboard_states \cup bound ELSE keyboard_states \ bound

KeyMessage(key, pressed) ==
    /\ KeyMoves(key, pressed)
    /\ InForeground
    /\ SetMapper(ApplyKeyboardTransition(key, pressed), controller_states)
    /\ UNCHANGED <<latches, xinput, raw_hid, reading>>

(* The key goes up or down while another window has the input.             *)
KeyMessageAway(key, pressed) ==
    /\ KeyMoves(key, pressed)
    /\ ~front
    /\ foreground' = FALSE
    /\ IF foreground
       THEN /\ latches' = {} /\ ClearXInput /\ ClearRawHid
            /\ SetMapper({}, {})
            /\ reading' = "applied"
       ELSE UNCHANGED <<mapperVars, xinput, raw_hid, published_input,
                        publication, reading>>

-----------------------------------------------------------------------------
(* XInputController::PollAt on a timer tick. An empty slot is asked again  *)
(* only after an interval or a change of the devices.                      *)
ProbeSkipped == ~xinput.connected /\ xinput.waiting

ReadSlot ==
    [xinput EXCEPT !.connected = TRUE, !.state = pad, !.waiting = FALSE]

PollDue == InForeground /\ xinput.open /\ ~ProbeSkipped

PollReads ==
    /\ PollDue
    /\ pad # NoPad
    /\ xinput' = ReadSlot
    /\ packet_read' = TRUE
    /\ IF xinput.connected /\ (packet_read \/ pad = xinput.state)
       THEN UNCHANGED <<mapperVars, published_input, publication, reading>>
       ELSE ApplyControllerState(pad)
    /\ UNCHANGED <<settings, front, keys, pad, raw_hid>>

(* The slot is empty: what it held is released, if it was connected.       *)
PollFindsNoPad ==
    /\ PollDue
    /\ pad = NoPad
    /\ xinput' = Disconnected(xinput)
    /\ IF xinput.connected
       THEN ApplyControllerState(Nothing)
       ELSE UNCHANGED <<mapperVars, published_input, publication, reading>>
    /\ UNCHANGED <<outsideVars, raw_hid>>

(* Any other error: the state is forgotten, and the handler returns before *)
(* the mapper is told.                                                     *)
PollFails ==
    /\ PollDue
    /\ xinput' = Disconnected(xinput)
    /\ reading' = IF xinput.connected THEN "given up" ELSE reading
    /\ UNCHANGED <<outsideVars, mapperVars, raw_hid, published_input,
                   publication>>

PollSkipped ==
    /\ InForeground /\ ~foreground
    /\ ~xinput.open \/ ProbeSkipped
    /\ UNCHANGED <<outsideVars, mapperVars, xinput, raw_hid, published_input,
                   publication, reading>>

-----------------------------------------------------------------------------
(* RawHidController::Apply: a packet brings one or more reports, each with *)
(* the controls of its report id; the mapper sees only the last. Packets   *)
(* under a handle that is no longer the opened one are ignored.            *)
ReportIds == {Descriptors[c].report : c \in DOMAIN Descriptors}

Reported(packet) == {c \in PadControls : Descriptors[c].report \in packet}

Decoded(packet) ==
    [c \in Reported(packet) |-> DecodeLogicalValue(pad[c], Descriptors[c])]

FitsDescriptor(packet) ==
    \A c \in Reported(packet) :
        Descriptors[c].null \/ InRange(Decoded(packet)[c], Descriptors[c])

PacketDue == pad # NoPad /\ raw_hid.open /\ raw_hid.current /\ InForeground

PacketArrives(packet) ==
    /\ PacketDue
    /\ FitsDescriptor(packet)
    /\ raw_hid' = [raw_hid EXCEPT !.values = Decoded(packet) @@ @]
    /\ IF raw_hid' # raw_hid
       THEN ApplyControllerState(raw_hid'.values)
       ELSE UNCHANGED <<mapperVars, published_input, publication, reading>>
    /\ UNCHANGED <<outsideVars, xinput>>

(* A wrong length or a value outside its range forgets everything the      *)
(* device has told, and the handler returns before the mapper is told.     *)
MalformedPacket ==
    /\ PacketDue
    /\ ClearRawHid
    /\ reading' = "given up"
    /\ UNCHANGED <<outsideVars, mapperVars, xinput, published_input, publication>>

(* Mutant: the controls of the device that is gone stay held.              *)
ReopenKeepingControls ==
    /\ latches' = {}
    /\ UNCHANGED <<keyboard_states, controller_states, published_input,
                   publication>>
    /\ reading' = "applied"
    /\ \/ raw_hid' = ClosedRawHid
       \/ pad # NoPad /\ raw_hid' = OpenedRawHid

(* The device is closed and everything it held released before it is       *)
(* looked for; it may also not open, or lack a bound control.              *)
ReopenRawHid ==
    /\ latches' = {}
    /\ SetMapper(keyboard_states, {})
    /\ reading' = "applied"
    /\ \/ raw_hid' = ClosedRawHid
       \/ pad # NoPad /\ raw_hid' = OpenedRawHid

(* OnRawInputDeviceChange, for any device and without a look at the        *)
(* foreground.                                                             *)
DeviceChange ==
    /\ xinput' = [xinput EXCEPT !.waiting = FALSE]
    /\ IF settings.backend = "RawHid"
       THEN ReopenRawHid
       ELSE UNCHANGED <<mapperVars, raw_hid, published_input, publication,
                        reading>>
    /\ UNCHANGED <<outsideVars, foreground>>

-----------------------------------------------------------------------------
HandlesEvent ==
    /\ Ready
    /\ \/ \E key \in Keys, pressed \in BOOLEAN :
             KeyMessage(key, pressed) \/ KeyMessageAway(key, pressed)
       \/ LoseForeground
       \/ PollReads \/ PollFindsNoPad \/ PollFails \/ PollSkipped
       \/ \E packet \in (SUBSET ReportIds) \ {{}} : PacketArrives(packet)
       \/ MalformedPacket
       \/ DeviceChange

(* Initialize, up to its last CheckForeground, which the next handler      *)
(* makes: what the slot holds is read and not applied.                     *)
OpenController ==
    /\ latches' = {} /\ keyboard_states' = {} /\ controller_states' = {}
    /\ foreground' = TRUE
    /\ published_input' = {} /\ publication' = NoPublication
    /\ \/ /\ settings.backend = "XInput"
          /\ raw_hid' = ClosedRawHid
          /\ \/ xinput' = ClosedXInput
             \/ xinput' = [Disconnected(ClosedXInput) EXCEPT !.open = TRUE]
             \/ /\ pad # NoPad
                /\ xinput' = [ClosedXInput EXCEPT !.open = TRUE,
                                 !.connected = TRUE, !.state = pad]
          /\ packet_read' = xinput'.connected
          /\ reading' = IF xinput'.connected THEN "not applied" ELSE "applied"
       \/ /\ settings.backend = "RawHid"
          /\ xinput' = ClosedXInput
          /\ reading' = "applied"
          /\ \/ raw_hid' = ClosedRawHid
             \/ pad # NoPad /\ raw_hid' = OpenedRawHid
          /\ UNCHANGED packet_read
    /\ UNCHANGED <<settings, front, keys, pad>>

(* Shutdown: everything is released and published; the devices close.      *)
ReleaseAll ==
    /\ SetMapper({}, {})
    /\ latches' = {}
    /\ xinput' = ClosedXInput /\ raw_hid' = ClosedRawHid
    /\ reading' = "applied"
    /\ UNCHANGED <<outsideVars, foreground>>

-----------------------------------------------------------------------------
(* The outside.                                                            *)
FrontChanges ==
    /\ front' = ~front
    /\ UNCHANGED <<settings, keys, pad, packet_read, raw_hid>>

PadChanges ==
    /\ pad' \in (PadStates[settings.backend] \cup {NoPad}) \ {pad}
    /\ packet_read' = FALSE
    /\ raw_hid' = [raw_hid EXCEPT !.current = @ /\ pad' # NoPad]
    /\ UNCHANGED <<settings, front, keys>>

IntervalPasses ==
    /\ xinput.waiting
    /\ xinput' = [xinput EXCEPT !.waiting = FALSE]
    /\ UNCHANGED <<outsideVars, foreground, mapperVars, raw_hid,
                   published_input, publication, reading>>

OutsideStep ==
    \/ /\ FrontChanges \/ PadChanges
       /\ UNCHANGED <<foreground, mapperVars, xinput, published_input,
                      publication, reading>>
    \/ IntervalPasses
=============================================================================
