-------------------------- MODULE MCHistoryReplay --------------------------
(* One pair of controls. A judgement quantum is one tick.                  *)
EXTENDS HistoryReplay, TLC

CONSTANTS left, right
MCControls == {left, right}
MCPairs    == {<<left, right>>}

(* The pair is the "left" of the two boosters. *)
MCDirections == (0 :> ("left" :> Single(left))) @@ (1 :> ("left" :> Single(right)))
             @@ (2 :> ("left" :> [kind |-> "either", pair |-> <<left, right>>]))
=============================================================================
