---------------------------- MODULE InputWorker ----------------------------
(***************************************************************************)
(* The publisher of the transition transport with its devices: the worker  *)
(* thread handles events, exchanges the published word and then appends    *)
(* the transition to the journal, while the game's thread captures cutoffs *)
(* and drains. The worker stops and starts again with the driver's handles *)
(* (InputPollingRuntime).                                                  *)
(***************************************************************************)
EXTENDS GameplayTransitionJournal, InputDevices

CONSTANT MaxStarts       \* bound on the starts of the worker

ASSUME WorkerAssumption == Controls = GameplayActions

VARIABLES
    worker,              \* "none" before the startup, "stopped", "running",
                         \* or "ending" inside Shutdown; "any" stands for any
                         \* callers of the transport at all, without devices
    starts

workerVars == <<deviceVars, vars, worker, starts>>

NoDevices == front /\ pad = NoPad /\ settings = CHOOSE s \in Settings : TRUE

WorkerInit ==
    /\ DevicesInit /\ Init
    /\ worker = "none" \/ (worker = "any" /\ NoDevices)
    /\ starts = 0

(* The startup prepares the transport once, before any open; a process in  *)
(* which that fails does not come up.                                      *)
Startup ==
    /\ worker = "none"
    /\ Prepare(settings.absolute, TRUE)
    /\ worker' = "stopped"
    /\ UNCHANGED <<deviceVars, starts>>

StartWorker ==
    /\ worker = "stopped" /\ starts < MaxStarts
    /\ OpenController
    /\ IF enabled THEN Begin({}) ELSE UNCHANGED vars
    /\ worker' = "running"
    /\ starts' = starts + 1

HandleEvent ==
    /\ worker = "running"
    /\ HandlesEvent
    /\ UNCHANGED <<vars, worker, starts>>

Gameplay(word) == word \cap GameplayActions

Transported ==
    /\ enabled /\ active
    /\ Gameplay(publication.previous) # Gameplay(publication.next)

TransitionDone ==
    /\ publication' = NoPublication
    /\ UNCHANGED <<outsideVars, foreground, mapperVars, xinput, raw_hid,
                   published_input, reading, worker, starts>>

(* Mutant: a release is taken for nothing new.                             *)
TransitionOfPresses ==
    /\ ~Ready
    /\ IF Transported /\ Gameplay(publication.next) # {}
       THEN \E time \in Times :
               Publish(Gameplay(publication.previous),
                       Gameplay(publication.next), time)
       ELSE UNCHANGED vars
    /\ TransitionDone

(* PublishGameplayTransition, after the exchange: a change of system keys  *)
(* alone is not transported.                                               *)
Transition ==
    /\ ~Ready
    /\ IF Transported
       THEN \E time \in Times :
               Publish(Gameplay(publication.previous),
                       Gameplay(publication.next), time)
       ELSE UNCHANGED vars
    /\ TransitionDone

(* Shutdown: release and publish; then the epoch ends.                     *)
StopWorker ==
    /\ worker = "running" /\ Ready
    /\ ReleaseAll
    /\ worker' = "ending"
    /\ UNCHANGED <<vars, starts>>

EndEpoch ==
    /\ worker = "ending" /\ Ready
    /\ End
    /\ worker' = "stopped"
    /\ UNCHANGED <<deviceVars, starts>>

GameStep ==
    /\ \/ \E time \in Times : CaptureCutoff(time)
       \/ \E span \in 1 .. Capacity : Drain(span)
    /\ worker \notin {"none", "any"}
    /\ UNCHANGED <<deviceVars, worker, starts>>

AnyCaller ==
    /\ worker = "any"
    /\ Next
    /\ UNCHANGED <<deviceVars, worker, starts>>

WorkerNext ==
    \/ Startup \/ StartWorker \/ HandleEvent \/ Transition
    \/ StopWorker \/ EndEpoch
    \/ GameStep
    \/ AnyCaller
    \/ worker # "any" /\ OutsideStep /\ UNCHANGED <<vars, worker, starts>>

WorkerSpec == WorkerInit /\ [][WorkerNext]_workerVars

-----------------------------------------------------------------------------
(* Whatever the worker handles between its starts, the mask the transport  *)
(* hands a cutoff as its baseline is what the game reads as held, except   *)
(* between the exchange and the record that follows it. Each record then   *)
(* starts from the mask the game has seen.                                 *)
TransportFollowsInput ==
    worker # "any" /\ active /\ Ready =>
        published_held = Gameplay(published_input)

LastReading == IF settings.backend = "XInput" THEN xinput.state ELSE raw_hid.values

(* Nothing is held that its device has not reported: a key that is held is *)
(* down; a control that reaches the press threshold is held and one short  *)
(* of the release threshold is not, as the device told last, unless that   *)
(* reading has been given up by a failed poll or a bad packet, or is the   *)
(* one made while the worker starts; the latches agree with the mapper;    *)
(* opposite directions away from one neutral of a control are never held   *)
(* together, unless the release threshold is zero, which every activation  *)
(* reaches: a control once pressed then stays so until it is cleared; and  *)
(* while the window is away nothing is held at all.                        *)
HeldIsReported ==
    /\ {b.key : b \in keyboard_states} \subseteq keys
    /\ latches = controller_states
    /\ reading = "applied" => \A b \in settings.bindings :
          LET activation == Activation(LastReading, b)
          IN  /\ Reaches(activation, settings.press) => b \in controller_states
              /\ b \in controller_states => Reaches(activation, settings.release)
    /\ settings.release > 0 => \A a, b \in controller_states :
          ~(/\ a.control = b.control /\ a.neutral = b.neutral
            /\ Opposite(a.direction, b.direction))
    /\ worker = "running" =>
          published_input = Compose(keyboard_states, controller_states)
    /\ ~foreground => published_input = {}
=============================================================================
