--------------------------- MODULE JudgementScope --------------------------
(***************************************************************************)
(* What native judgement code is told of its input while a scope is being  *)
(* executed. The scope is installed as a view of the thread that executes  *)
(* it; the hooks of the five native queries answer from the history as of  *)
(* the scope, and call the original where no view is installed. Everything *)
(* that does not fit is fatal.                                             *)
(*                                                                         *)
(* An answer has a disposition: "answered" with a value, or "failure" with *)
(* the invariant that was violated. A frame is given by how many frames it *)
(* lies before the scope's own.                                            *)
(***************************************************************************)
EXTENDS JudgementHistory

CONSTANT
    Directions  \* [booster -> [direction -> its logical control]]: 0 and 1
                \* are the two boosters, 2 is either of them

Answered(value) == [disposition |-> "answered", value |-> value]
Failure(reason) == [disposition |-> "failure", reason |-> reason]

(* FindResolvedTransition *)
FindResolvedTransition(history, sequence) ==
    {i \in DOMAIN history.entries :
       history.entries[i].eligible /\ history.entries[i].sequence = sequence}

(* An event scope is the retained entry it was made from.                  *)
EventIsRetained(history, scope) ==
    /\ scope.prefix_end = scope.coordinate.sequence + 1
    /\ \E i \in FindResolvedTransition(history, scope.coordinate.sequence) :
          LET entry == history.entries[i]
          IN /\ entry.time = scope.coordinate.time
             /\ entry.held_before = scope.held_before
             /\ entry.held_after = scope.held_after
             /\ Rising(entry) = scope.rising /\ Falling(entry) = scope.falling

(* A heartbeat changes nothing and holds what the history holds.           *)
HeartbeatHolds(history, scope) ==
    /\ scope.rising = {} /\ scope.falling = {}
    /\ scope.held_before = scope.held_after
    /\ OrdinaryHeldAt(history, scope.coordinate.time, scope.prefix_end)
          = <<scope.held_after>>

(* ResolveActiveScope: it is made when the scope is installed and again    *)
(* for every query. The receiver and the stage are the game's own.         *)
IsResolved(history, scope) ==
    \/ scope.kind = "event" /\ EventIsRetained(history, scope)
    \/ scope.kind = "heartbeat" /\ HeartbeatHolds(history, scope)

-----------------------------------------------------------------------------
(* Mutant: the frame distance is applied twice as far.                     *)
TranslateTwice(scope, back) == scope.coordinate.time - 2 * back * Quantum

(* TranslateRequestedFrame: whole frames of 1/60 s from the scope's time,  *)
(* which need not lie on a boundary itself.                                *)
TranslateRequestedFrame(scope, back) == scope.coordinate.time - back * Quantum

FromHistory(result) ==
    IF result = <<>> THEN Failure("HistoryLost") ELSE Answered(result[1])

(* A press exists only on the scope's own frame.                           *)
QueryPressed(history, scope, logical, back) ==
    IF back # 0 THEN Failure("InvalidFrame")
    ELSE Answered(Pressed(history, logical, scope))

QueryHeld(history, scope, logical, back) ==
    FromHistory(HeldAt(history, logical, TranslateRequestedFrame(scope, back),
                       scope.prefix_end))

(* A release of an earlier frame is one in the 1/60 s that ends there; one *)
(* that is no longer known counts as none.                                 *)
QueryReleased(history, scope, logical, back) ==
    Answered(IF back = 0
             THEN Released(history, logical, scope)
             ELSE ReleasedInWindow(history, logical,
                                   TranslateRequestedFrame(scope, back),
                                   scope.prefix_end))

QueryHeldAge(history, scope, logical) ==
    FromHistory(HeldAge(history, logical, scope))

(* One booster: up before down and left before right. Either booster:      *)
(* opposite directions cancel. The result beside the vector is horizontal  *)
(* for one booster, and only "right" for either.                           *)
Toward(minus, plus) == IF minus THEN -1 ELSE IF plus THEN 1 ELSE 0
Sum(minus, plus)    == (IF minus THEN -1 ELSE 0) + (IF plus THEN 1 ELSE 0)

DirectionOf(booster, Held(_)) ==
    LET Is(direction) == /\ direction \in DOMAIN Directions[booster]
                         /\ Held(Directions[booster][direction])
    IN IF booster < 2
       THEN [x |-> Toward(Is("left"), Is("right")),
             y |-> Toward(Is("up"), Is("down")),
             horizontal |-> Is("left") \/ Is("right")]
       ELSE [x |-> Sum(Is("left"), Is("right")),
             y |-> Sum(Is("up"), Is("down")),
             horizontal |-> Is("right")]

QueryDirection(history, scope, booster, back) ==
    LET state == OrdinaryHeldAt(history, TranslateRequestedFrame(scope, back),
                                scope.prefix_end)
    IN IF state = <<>> THEN Failure("HistoryLost")
       ELSE Answered(DirectionOf(booster,
                        LAMBDA logical : LogicalHeld(state[1], logical)))

-----------------------------------------------------------------------------
(* HookPressed and its siblings, on the thread whose scope is installed:   *)
(* any other thread has no scope and is answered by the original.          *)
Answer(history, scope, query) ==
    CASE query.kind = "pressed" ->
            QueryPressed(history, scope, query.control, query.back)
      [] query.kind = "held" ->
            QueryHeld(history, scope, query.control, query.back)
      [] query.kind = "released" ->
            QueryReleased(history, scope, query.control, query.back)
      [] query.kind = "direction" ->
            QueryDirection(history, scope, query.control, query.back)
      [] query.kind = "held_age" ->
            QueryHeldAge(history, scope, query.control)
=============================================================================
