------------------------ MODULE ControllerActivation ------------------------
(***************************************************************************)
(* How far a control is moved towards a bound direction, as a fraction     *)
(* <<numerator, denominator>> between 0 and 1: the axes and triggers of an *)
(* XInput state, the values and hats of a raw HID report. A binding is     *)
(* [control, kind, direction, neutral, action], a raw HID descriptor       *)
(* [bits, min, max, null].                                                 *)
(***************************************************************************)
EXTENDS Integers, Sequences

None == <<0, 1>>
Whole == <<1, 1>>
If(pressed) == IF pressed THEN Whole ELSE None

(* A threshold is a percentage.                                            *)
Reaches(activation, percent) == activation[1] * 100 >= percent * activation[2]

(* The range of a signed 16-bit stick is one longer to the negative side.  *)
AxisActivation(value, direction) ==
    CASE direction = "positive" -> IF value > 0 THEN <<value, 32767>> ELSE None
      [] direction = "negative" -> IF value < 0 THEN <<-value, 32768>> ELSE None

TriggerActivation(value) == <<value, 255>>

XInputActivation(binding, value) ==
    CASE binding.kind = "button"  -> If(value # 0)
      [] binding.kind = "axis"    -> AxisActivation(value, binding.direction)
      [] binding.kind = "trigger" -> TriggerActivation(value)

-----------------------------------------------------------------------------
(* The low bits of a report, as a two's complement number if the logical   *)
(* range has negative values.                                              *)
DecodeLogicalValue(raw, descriptor) ==
    LET value == raw % 2^descriptor.bits
    IN  IF descriptor.min < 0 /\ value >= 2^(descriptor.bits - 1)
        THEN value - 2^descriptor.bits
        ELSE value

InRange(value, descriptor) == value \in descriptor.min .. descriptor.max

Cardinals == <<"up", "right", "down", "left">>

(* A hat of up to four positions points to one direction each; with more,  *)
(* the circle has eight sectors and a diagonal is both of its neighbours.  *)
HatActivation(value, descriptor, direction) ==
    LET position == value - descriptor.min
        count == descriptor.max - descriptor.min + 1
        sector == (position * 8) \div count
        towards == [up |-> {7, 0, 1}, right |-> {1, 2, 3}, down |-> {3, 4, 5},
                    left |-> {5, 6, 7}]
    IN  IF ~InRange(value, descriptor) THEN None
        ELSE IF count <= 4 THEN If(Cardinals[position + 1] = direction)
        ELSE If(sector \in towards[direction])

(* A value moves away from the neutral it was captured with; a null state  *)
(* is none, and so is a side the logical range does not have.              *)
ValueActivation(value, descriptor, binding) ==
    LET neutral == binding.neutral
    IN  IF ~InRange(value, descriptor) THEN None
        ELSE IF binding.direction = "positive" /\ value > neutral
        THEN <<value - neutral, descriptor.max - neutral>>
        ELSE IF binding.direction = "negative" /\ value < neutral
        THEN <<neutral - value, neutral - descriptor.min>>
        ELSE None

RawHidActivation(binding, value, descriptor) ==
    CASE binding.kind = "button" -> If(value # 0)
      [] binding.kind = "hat" -> HatActivation(value, descriptor, binding.direction)
      [] binding.kind = "value" -> ValueActivation(value, descriptor, binding)

Opposite(a, b) ==
    {a, b} \in {{"positive", "negative"}, {"up", "down"}, {"left", "right"}}
=============================================================================
