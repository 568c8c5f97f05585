------------------------- MODULE TransitionChannel -------------------------
(***************************************************************************)
(* What the gameplay transition transport promises to its two threads: a   *)
(* mutex-protected FIFO of at most Capacity records between the input      *)
(* worker, which publishes every change of the ten gameplay controls, and  *)
(* the game thread, which captures a cutoff at stage entry and drains.     *)
(* When the FIFO is full the oldest record is dropped and counted: a loss  *)
(* is never silent.                                                        *)
(*                                                                         *)
(* Each operation holds the mutex for its whole body, so it is one action. *)
(* GameplayTransitionJournal is the ring buffer that implements this       *)
(* queue; its refinement is checked by TLC and proved by TLAPS.            *)
(***************************************************************************)
EXTENDS Naturals, Sequences, FiniteSets

CONSTANTS
    Capacity,   \* kGameplayTransitionCapacity (65536 in the code)
    MaxU64,     \* the largest std::uint64_t: epochs, sequences, evictions
    Controls,   \* the gameplay controls a held mask is a set of
    Times       \* qpc tick values: all positive

ASSUME CapacityAssumption == Capacity \in Nat \ {0}
ASSUME MaxU64Assumption   == MaxU64 \in Nat \ {0}
ASSUME TimesAssumption    == Times \subseteq Nat \ {0}

VARIABLES
    queue,            \* records, oldest first
    transport_epoch,
    next_sequence,
    eviction_count,
    enabled,
    active,
    published_held,   \* mask after the newest published record
    answer            \* what the last call returned, NoAnswer if nothing

vars == <<queue, transport_epoch, next_sequence, eviction_count, enabled,
          active, published_held, answer>>

Mask   == SUBSET Controls
U64    == 0 .. MaxU64

Record == [transport_epoch: U64, sequence: U64, observed_time: Times,
           held_before: Mask, held_after: Mask]

Status == [enabled: BOOLEAN, active: BOOLEAN, transport_epoch: U64,
           next_sequence: U64, eviction_count: U64, depth: 0 .. Capacity,
           published_held: Mask]

Cutoff == [transport_epoch: U64, first_stage_sequence: U64,
           eviction_count: U64, held_baseline: Mask,
           stage_entry_time: Times, stage_entry_handoff_drops: 0 .. Capacity]

NoAnswer == [kind |-> "none"]

Answer == {NoAnswer}
          \cup [kind: {"cutoff"}, cutoff: Cutoff]
          \cup [kind: {"drain"}, batch: Seq(Record), status: Status]

TypeOK ==
    /\ queue \in Seq(Record)
    /\ Len(queue) <= Capacity
    /\ transport_epoch \in U64
    /\ next_sequence \in U64
    /\ eviction_count \in U64
    /\ enabled \in BOOLEAN
    /\ active \in BOOLEAN
    /\ published_held \in Mask
    /\ answer \in Answer

-----------------------------------------------------------------------------
(* IncrementEvictionCount saturates. *)
Evicted(n) == IF n = MaxU64 THEN n ELSE n + 1

NewRecord(previous, next, time) ==
    [transport_epoch |-> transport_epoch, sequence |-> next_sequence,
     observed_time |-> time, held_before |-> previous, held_after |-> next]

Init ==
    /\ queue = <<>>
    /\ transport_epoch = 0
    /\ next_sequence = 0
    /\ eviction_count = 0
    /\ enabled = FALSE
    /\ active = FALSE
    /\ published_held = {}
    /\ answer = NoAnswer

(* PrepareGameplayTransitionTransport: everything is zeroed; it stays      *)
(* disabled when asked to, or when the QPC frequency cannot be read.       *)
Prepare(enable, frequency_known) ==
    /\ queue' = <<>>
    /\ transport_epoch' = 0
    /\ next_sequence' = 0
    /\ eviction_count' = 0
    /\ enabled' = (enable /\ frequency_known)
    /\ active' = FALSE
    /\ published_held' = {}
    /\ answer' = NoAnswer

(* BeginGameplayTransitionEpoch *)
Begin(baseline) ==
    /\ enabled
    /\ queue' = <<>>
    /\ next_sequence' = 0
    /\ published_held' = baseline
    /\ IF transport_epoch = MaxU64
       THEN /\ eviction_count' = Evicted(eviction_count)
            /\ active' = FALSE
            /\ UNCHANGED transport_epoch
       ELSE /\ transport_epoch' = transport_epoch + 1
            /\ active' = TRUE
            /\ UNCHANGED eviction_count
    /\ answer' = NoAnswer
    /\ UNCHANGED enabled

(* EndGameplayTransitionEpoch: the queue stays readable. *)
End ==
    /\ active' = FALSE
    /\ answer' = NoAnswer
    /\ UNCHANGED <<queue, transport_epoch, next_sequence, eviction_count,
                   enabled, published_held>>

(* Mutant: the cutoff hands over the controls of a fresh epoch.            *)
CutoffWithNothingHeld(stage_entry_time) ==
    [transport_epoch |-> transport_epoch,
     first_stage_sequence |-> next_sequence,
     eviction_count |-> eviction_count, held_baseline |-> {},
     stage_entry_time |-> stage_entry_time, stage_entry_handoff_drops |-> 0]

(* CaptureGameplayTransitionCutoff: everything queued belongs to the time  *)
(* before the stage and is dropped; the queued records already observed at *)
(* or after the stage entry are counted.                                   *)
CutoffAt(stage_entry_time) ==
    [transport_epoch |-> transport_epoch,
     first_stage_sequence |-> next_sequence,
     eviction_count |-> eviction_count,
     held_baseline |-> published_held,
     stage_entry_time |-> stage_entry_time,
     stage_entry_handoff_drops |->
        Cardinality({i \in 1 .. Len(queue) :
                       queue[i].observed_time >= stage_entry_time})]

CaptureCutoff(stage_entry_time) ==
    /\ enabled /\ active
    /\ answer' = [kind |-> "cutoff", cutoff |-> CutoffAt(stage_entry_time)]
    /\ queue' = <<>>
    /\ UNCHANGED <<transport_epoch, next_sequence, eviction_count, enabled,
                   active, published_held>>

(* PublishGameplayTransition, past its two early returns. *)
PublishExhausted ==
    /\ next_sequence = MaxU64
    /\ eviction_count' = Evicted(eviction_count)
    /\ active' = FALSE
    /\ answer' = NoAnswer
    /\ UNCHANGED <<queue, transport_epoch, next_sequence, enabled,
                   published_held>>

PublishRecord(previous, next, time) ==
    /\ next_sequence # MaxU64
    /\ LET full == Len(queue) = Capacity
           room == IF full THEN Tail(queue) ELSE queue
       IN /\ queue' = Append(room, NewRecord(previous, next, time))
          /\ eviction_count' = IF full THEN Evicted(eviction_count)
                                       ELSE eviction_count
    /\ next_sequence' = next_sequence + 1
    /\ published_held' = next
    /\ answer' = NoAnswer
    /\ UNCHANGED <<transport_epoch, enabled, active>>

Publish(previous, next, time) ==
    /\ previous # next
    /\ enabled /\ active
    /\ PublishExhausted \/ PublishRecord(previous, next, time)

(* DrainGameplayTransitions into a span of the given size, and the status  *)
(* taken under the same lock after the records have been removed.          *)
DrainCount(span)  == IF span < Len(queue) THEN span ELSE Len(queue)
Batch(span)       == SubSeq(queue, 1, DrainCount(span))
(* Mutant: a drain removes one record more than it returned.               *)
RestWithoutNext(span) == SubSeq(queue, DrainCount(span) + 2, Len(queue))
Rest(span)        == SubSeq(queue, DrainCount(span) + 1, Len(queue))
StatusAfter(span) ==
    [enabled |-> enabled, active |-> active,
     transport_epoch |-> transport_epoch,
     next_sequence |-> next_sequence, eviction_count |-> eviction_count,
     depth |-> Len(queue) - DrainCount(span),
     published_held |-> published_held]

Drain(span) ==
    /\ queue' = Rest(span)
    /\ answer' = [kind |-> "drain", batch |-> Batch(span),
                  status |-> StatusAfter(span)]
    /\ UNCHANGED <<transport_epoch, next_sequence, eviction_count, enabled,
                   active, published_held>>

(* The worker passes the word it published before as the previous one, so  *)
(* its gameplay mask is the one this transport holds.                      *)
Next ==
    \/ \E enable, known \in BOOLEAN : Prepare(enable, known)
    \/ \E baseline \in Mask : Begin(baseline)
    \/ End
    \/ \E time \in Times : CaptureCutoff(time)
    \/ \E next \in Mask, time \in Times : Publish(published_held, next, time)
    \/ \E span \in 0 .. Capacity : Drain(span)

Spec == Init /\ [][Next]_vars

-----------------------------------------------------------------------------
(* A drain returns consecutive records that continue where the previous    *)
(* removal stopped: the queue always holds exactly the newest Len(queue)   *)
(* records of the current epoch, in sequence order, although records leave *)
(* it by draining, by eviction and by a cutoff. The scheduler's            *)
(* `status.next_sequence - status.depth` test relies on it.                *)
Contiguous ==
    /\ Len(queue) <= next_sequence
    /\ \A i \in 1 .. Len(queue) :
          /\ queue[i].sequence = next_sequence - Len(queue) + i - 1
          /\ queue[i].transport_epoch = transport_epoch

(* Every record starts from the mask the previous one ended with, and the  *)
(* newest one ends with the mask a cutoff would hand over as its baseline. *)
HeldChain ==
    /\ \A i \in 1 .. Len(queue) - 1 :
          queue[i + 1].held_before = queue[i].held_after
    /\ Len(queue) > 0 => queue[Len(queue)].held_after = published_held

Inv == TypeOK /\ Contiguous /\ HeldChain
=============================================================================
