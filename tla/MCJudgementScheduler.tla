------------------------ MODULE MCJudgementScheduler -----------------------
(* One control and no pairs: a record is a press or a release. The clock   *)
(* can jump, so that several boundaries become due in one call. A second   *)
(* anchor may put the endpoint where it should be, ahead, or behind, and   *)
(* overwrites the first.                                                   *)
EXTENDS JudgementScheduler

CONSTANT left
MCPairs == {}
MCTimes == 1 .. MaxQpc

(* After a restart of the worker one record, one anchor and no eviction    *)
(* are enough: the epochs differ in their numbers, not in what can happen  *)
(* in them. Two records meet two anchors; what is evicted, or ends the     *)
(* sequence, meets one.                                                    *)
MCOneThing ==
    /\ transport_epoch > 1 =>
          next_sequence <= 1 /\ Len(anchors) <= 1 /\ eviction_count = 0
    /\ Len(anchors) > 1 => next_sequence <= 2 /\ eviction_count = 0
=============================================================================
