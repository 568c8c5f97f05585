--------------------------- MODULE MCInputWorker ---------------------------
(* Two slots wrap after two records; three 64-bit values make epochs,      *)
(* sequences and evictions run out within a handful of calls. One key is   *)
(* bound to the test switch and to a gameplay action. The XInput slot has  *)
(* a stick bound in both directions, at rest, between the thresholds and   *)
(* at both ends, and a button; the raw HID device a signed value of four   *)
(* bits that may leave its range and a hat with a null state, in reports   *)
(* of their own.                                                           *)
EXTENDS InputWorker

MCKeyboardBindings == {[key |-> "k", action |-> "test"],
                       [key |-> "k", action |-> "left"]}

MCBinding(control, kind, direction) ==
    [control |-> control, kind |-> kind, direction |-> direction, neutral |-> 0,
     action |-> "left"]
MCBindings == [
    XInput |-> {MCBinding("stick", "axis", "negative"),
                MCBinding("stick", "axis", "positive"),
                MCBinding("button", "button", "none")},
    RawHid |-> {MCBinding("x", "value", "negative"),
                MCBinding("x", "value", "positive"),
                MCBinding("hat", "hat", "left")}]
MCDescriptors ==
    [x |-> [bits |-> 4, min |-> -7, max |-> 7, null |-> FALSE, report |-> 1],
     hat |-> [bits |-> 4, min |-> 0, max |-> 7, null |-> TRUE, report |-> 2]]

MCStick(value) == [stick |-> value, button |-> 0]
MCValue(value) == [x |-> value, hat |-> 8]
MCPadStates == [
    XInput |-> {MCStick(0), MCStick(-32768), MCStick(32767),
                [stick |-> -14746, button |-> 1]},
    RawHid |-> {MCValue(3), MCValue(7), MCValue(8), [x |-> 9, hat |-> 5]}]

MCSetting(mode, backend, absolute) ==
    [mode |-> mode, backend |-> backend, absolute |-> absolute,
     bindings |-> MCBindings[backend], press |-> 50, release |-> 40]
MCSettings == {
    MCSetting("Keyboard", "XInput", TRUE), MCSetting("Controller", "XInput", TRUE),
    MCSetting("Controller", "RawHid", TRUE),
    [MCSetting("Controller", "RawHid", FALSE) EXCEPT !.release = 0]}
=============================================================================
