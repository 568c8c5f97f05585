--------------------------- MODULE MCAudioBackend ---------------------------
(* The audio output of the game, and the configuration tool that asks a    *)
(* driver about it. They share no state: a behaviour is one of either,     *)
(* while the other rests in its first state.                               *)
(*                                                                         *)
(* Output: two stages at which it may fail, two driver calls that overlap. *)
(* Tool: a driver whose third channel has a type without a converter and   *)
(* one with a fixed buffer size and a name that is too long; a panel that  *)
(* may set a rate the game cannot use.                                     *)
EXTENDS AudioBackend, AudioEditor

VARIABLE part

MCStages == {"InitializeMixer", "Endpoint"}

Channel(bytes, type) == [name |-> bytes, type |-> type]
MCInstalled ==
    [studio |-> [minimum |-> 64, maximum |-> 96, granularity |-> 32,
                 outputs |-> <<Channel(8, "Int32LSB"), Channel(8, "Int32LSB"),
                               Channel(8, "DSDInt8LSB1")>>],
     kanji  |-> [minimum |-> 64, maximum |-> 64, granularity |-> 0,
                 outputs |-> <<Channel(8, "Int32LSB"), Channel(40, "Int32LSB")>>]]

HostingVars == <<audioVars_, toolVars, part>>

HostingInit ==
    /\ Init /\ ToolInit
    /\ \/ part = "output"
       \/ part = "tool" /\ ~exact /\ backend = "asio"

HostingNext ==
    \/ part = "output" /\ Next /\ UNCHANGED <<toolVars, part>>
    \/ part = "tool" /\ ToolNext /\ UNCHANGED <<audioVars_, part>>

HostingSpec ==
    HostingInit /\ [][HostingNext]_HostingVars /\ AudioFairness /\ ToolFairness
=============================================================================
