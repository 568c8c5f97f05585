--------------------- MODULE GameplayTransitionJournal ---------------------
(***************************************************************************)
(* The process-wide transition transport as the code stores it: a ring of  *)
(* Capacity slots with a read position and a size. Slots outside the live  *)
(* window keep whatever they last held, as the std::array does.            *)
(***************************************************************************)
EXTENDS Naturals, Sequences, FiniteSets

CONSTANTS Capacity, MaxU64, Controls, Times

ASSUME JournalAssumption ==
    /\ Capacity \in Nat \ {0}
    /\ MaxU64 \in Nat \ {0}
    /\ Times \subseteq Nat \ {0}

VARIABLES
    records,          \* slot -> the record last written to it, or NoRecord
    read_slot,
    size,
    transport_epoch,
    next_sequence,
    eviction_count,
    enabled,
    active,
    published_held,
    answer            \* what the last call returned, NoAnswer if nothing

state == <<transport_epoch, next_sequence, eviction_count, enabled, active,
           published_held>>
vars  == <<records, read_slot, size, state, answer>>

Slots == 0 .. Capacity - 1
NoRecord == [sequence |-> "none"]

(* The slot of the i-th live record, counted from 1. *)
Slot(i) == (read_slot + i - 1) % Capacity

Contents == [i \in 1 .. size |-> records[Slot(i)]]

Channel == INSTANCE TransitionChannel WITH queue <- Contents

StorageOK ==
    /\ records \in [Slots -> Channel!Record \cup {NoRecord}]
    /\ read_slot \in Slots
    /\ size \in 0 .. Capacity
    /\ transport_epoch \in 0 .. MaxU64
    /\ next_sequence \in 0 .. MaxU64
    /\ eviction_count \in 0 .. MaxU64
    /\ enabled \in BOOLEAN
    /\ active \in BOOLEAN
    /\ published_held \in SUBSET Controls

TypeOK == StorageOK /\ answer \in Channel!Answer

-----------------------------------------------------------------------------
Init ==
    /\ records = [slot \in Slots |-> NoRecord]
    /\ read_slot = 0
    /\ size = 0
    /\ transport_epoch = 0
    /\ next_sequence = 0
    /\ eviction_count = 0
    /\ enabled = FALSE
    /\ active = FALSE
    /\ published_held = {}
    /\ answer = Channel!NoAnswer

(* Mutant: a new epoch or a cutoff leaves the old records queued.          *)
KeepQueue == UNCHANGED <<records, read_slot, size>>

ClearQueue == read_slot' = 0 /\ size' = 0 /\ UNCHANGED records

(* IncrementEvictionCount saturates. *)
IncrementEvictionCount ==
    eviction_count' = IF eviction_count = MaxU64 THEN MaxU64
                                                 ELSE eviction_count + 1

Prepare(enable, frequency_known) ==
    /\ ClearQueue
    /\ transport_epoch' = 0
    /\ next_sequence' = 0
    /\ eviction_count' = 0
    /\ enabled' = (enable /\ frequency_known)
    /\ active' = FALSE
    /\ published_held' = {}
    /\ answer' = Channel!NoAnswer

Begin(baseline) ==
    /\ enabled
    /\ ClearQueue
    /\ next_sequence' = 0
    /\ published_held' = baseline
    /\ \/ /\ transport_epoch = MaxU64
          /\ IncrementEvictionCount
          /\ active' = FALSE
          /\ UNCHANGED transport_epoch
       \/ /\ transport_epoch # MaxU64
          /\ transport_epoch' = transport_epoch + 1
          /\ active' = TRUE
          /\ UNCHANGED eviction_count
    /\ answer' = Channel!NoAnswer
    /\ UNCHANGED enabled

End ==
    /\ active' = FALSE
    /\ answer' = Channel!NoAnswer
    /\ UNCHANGED <<records, read_slot, size, transport_epoch, next_sequence,
                   eviction_count, enabled, published_held>>

(* Mutant: a record observed at the very tick of the stage entry is missed.*)
HandoffDropsAfter(stage_entry_time) ==
    Cardinality({i \in 1 .. size :
                   records[Slot(i)].observed_time > stage_entry_time})

HandoffDrops(stage_entry_time) ==
    Cardinality({i \in 1 .. size :
                   records[Slot(i)].observed_time >= stage_entry_time})

CaptureCutoff(stage_entry_time) ==
    /\ enabled /\ active
    /\ answer' = [kind |-> "cutoff", cutoff |->
          [transport_epoch |-> transport_epoch,
           first_stage_sequence |-> next_sequence,
           eviction_count |-> eviction_count,
           held_baseline |-> published_held,
           stage_entry_time |-> stage_entry_time,
           stage_entry_handoff_drops |-> HandoffDrops(stage_entry_time)]]
    /\ ClearQueue
    /\ UNCHANGED state

PublishExhausted ==
    /\ next_sequence = MaxU64
    /\ IncrementEvictionCount
    /\ active' = FALSE
    /\ answer' = Channel!NoAnswer
    /\ UNCHANGED <<records, read_slot, size, transport_epoch, next_sequence,
                   enabled, published_held>>

(* Mutant: a full ring overwrites its newest record.                       *)
DropNewestIfFull ==
    /\ UNCHANGED read_slot
    /\ IF size = Capacity THEN IncrementEvictionCount
                          ELSE UNCHANGED eviction_count

(* The oldest record is dropped first when the ring is full, so that the   *)
(* write slot computed from the new read slot and size is free.            *)
DropOldestIfFull ==
    IF size = Capacity
    THEN read_slot' = (read_slot + 1) % Capacity /\ IncrementEvictionCount
    ELSE UNCHANGED <<read_slot, eviction_count>>

SizeAfterDrop == IF size = Capacity THEN size - 1 ELSE size

WriteSlot == (read_slot' + SizeAfterDrop) % Capacity

PublishRecord(previous, next, time) ==
    /\ next_sequence # MaxU64
    /\ DropOldestIfFull
    /\ records' = [records EXCEPT ![WriteSlot] =
          [transport_epoch |-> transport_epoch, sequence |-> next_sequence,
           observed_time |-> time, held_before |-> previous,
           held_after |-> next]]
    /\ size' = SizeAfterDrop + 1
    /\ next_sequence' = next_sequence + 1
    /\ published_held' = next
    /\ answer' = Channel!NoAnswer
    /\ UNCHANGED <<transport_epoch, enabled, active>>

Publish(previous, next, time) ==
    /\ previous # next
    /\ enabled /\ active
    /\ PublishExhausted \/ PublishRecord(previous, next, time)

DrainCount(span) == IF span < size THEN span ELSE size

Drain(span) ==
    /\ answer' = [kind |-> "drain",
                  batch |-> [i \in 1 .. DrainCount(span) |-> records[Slot(i)]],
                  status |->
          [enabled |-> enabled, active |-> active,
           transport_epoch |-> transport_epoch,
           next_sequence |-> next_sequence,
           eviction_count |-> eviction_count,
           depth |-> size - DrainCount(span),
           published_held |-> published_held]]
    /\ read_slot' = (read_slot + DrainCount(span)) % Capacity
    /\ size' = size - DrainCount(span)
    /\ UNCHANGED <<records, state>>

Next ==
    \/ \E enable, known \in BOOLEAN : Prepare(enable, known)
    \/ \E baseline \in SUBSET Controls : Begin(baseline)
    \/ End
    \/ \E time \in Times : CaptureCutoff(time)
    \/ \E next \in SUBSET Controls, time \in Times :
          Publish(published_held, next, time)
    \/ \E span \in 0 .. Capacity : Drain(span)

Spec == Init /\ [][Next]_vars

-----------------------------------------------------------------------------
(* However eviction, draining, cutoffs and new epochs have moved the read  *)
(* slot around the ring, its live window holds exactly the newest `size`   *)
(* records of the current epoch in sequence order. The scheduler's         *)
(* `status.next_sequence - status.depth` test                              *)
(* (JudgementScheduler.cpp:587) is only meaningful because of this. Each   *)
(* record starts from the mask the one before it ended with, and the       *)
(* newest ends with the mask a cutoff hands over as its baseline:          *)
(* JudgementHistory::ValidateTransport rejects a record otherwise.         *)
ContiguousWindow == Channel!Contiguous /\ Channel!HeldChain

(* The ring is the bounded drop-oldest queue: every operation returns the  *)
(* answer the queue returns, and changes the live window as it does.       *)
ChannelSpec == Channel!Spec
=============================================================================
