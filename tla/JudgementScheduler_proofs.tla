---------------------- MODULE JudgementScheduler_proofs ----------------------
(***************************************************************************)
(* For every capacity, batch, quantum, limit and backend: no interleaving  *)
(* of the worker, the audio thread and the game makes the scheduler lose,  *)
(* double or reorder a record, judge behind what it has judged, or fail    *)
(* one of its own order checks, whatever the clock answers. The clock's    *)
(* answers are in order as long as the endpoint keeps up.                  *)
(***************************************************************************)
EXTENDS JudgementScheduler, TransitionChannel_proofs

(* The inductive invariant, in named parts.                                *)
Entry == [sequence: U64, time: Int, held_before: Mask, held_after: Mask,
          eligible: BOOLEAN]
Coordinates == [time: Int, sequence: U64]

HistoryFields ==
    {"entries", "transport_epoch", "next_sequence", "base_next_sequence",
     "current_held", "causal_base", "causal_time_floor", "last_coordinate"}

(* A history keeps the newest of its records: consecutive sequences up to  *)
(* the next one, in time order, the newest of them the last coordinate.    *)
HistoryType(h) ==
    /\ DOMAIN h = HistoryFields
    /\ h.entries \in Seq(Entry)
    /\ h.transport_epoch \in U64
    /\ h.next_sequence \in U64
    /\ h.base_next_sequence \in Nat
    /\ h.current_held \in Mask
    /\ h.causal_time_floor \in Seq(Int) /\ Len(h.causal_time_floor) <= 1
    /\ h.last_coordinate \in Seq(Coordinates) /\ Len(h.last_coordinate) <= 1

HistoryInOrder(h) ==
    /\ h.base_next_sequence + Len(h.entries) = h.next_sequence
    /\ \A i \in 1 .. Len(h.entries) :
          h.entries[i].sequence = h.base_next_sequence + i - 1
    /\ \A i, j \in 1 .. Len(h.entries) :
          i <= j => h.entries[i].time <= h.entries[j].time
    /\ \A i \in 1 .. Len(h.last_coordinate) :
          h.last_coordinate[i].sequence = h.next_sequence - 1
    /\ Len(h.entries) > 0 =>
          h.last_coordinate = <<Coordinate(h.entries[Len(h.entries)])>>

(* The events from d on are retained and eligible.                         *)
Delivers(h, d) ==
    /\ d \in Nat /\ h.base_next_sequence <= d /\ d <= h.next_sequence
    /\ \A i \in 1 .. Len(h.entries) :
          h.entries[i].sequence >= d => h.entries[i].eligible

HistoryOK(h, d) == HistoryType(h) /\ HistoryInOrder(h) /\ Delivers(h, d)

StageInv ==
    /\ stage_open \in BOOLEAN /\ clock_bound \in BOOLEAN
    /\ stage_active \in BOOLEAN
    /\ cutoff.transport_epoch \in U64
    /\ cutoff.first_stage_sequence \in U64
    /\ cutoff.eviction_count \in U64
    /\ cutoff.stage_entry_time \in Nat
    /\ stage_open => /\ cutoff.transport_epoch <= transport_epoch
                     /\ cutoff.eviction_count <= eviction_count

(* The transport the stage was opened on, with no loss and none hidden.    *)
SameTransport ==
    /\ stage_open
    /\ transport_epoch = cutoff.transport_epoch
    /\ eviction_count = cutoff.eviction_count
    /\ eviction_count < MaxU64

(* The mask that the record after the drained ones has to start from.      *)
Handover == IF unresolved = <<>> THEN history.current_held
                                 ELSE unresolved[Len(unresolved)].held_after

LinkInv ==
    SameTransport =>
    /\ next_sequence = next_drain_sequence + Len(queue)
    /\ Handover = IF queue = <<>> THEN published_held ELSE queue[1].held_before

(* A drained record stays good when the transport is lost after the drain. *)
UnresolvedType ==
    /\ unresolved \in Seq(Record) /\ Len(unresolved) <= UnresolvedCapacity
    /\ \A i \in 1 .. Len(unresolved) : unresolved[i].sequence # MaxU64

UnresolvedInv ==
    /\ UnresolvedType
    /\ stage_open /\ cutoff.eviction_count < MaxU64 =>
       /\ history.transport_epoch = cutoff.transport_epoch
       /\ \A i \in 1 .. Len(unresolved) :
             /\ unresolved[i].transport_epoch = cutoff.transport_epoch
             /\ unresolved[i].sequence = history.next_sequence + i - 1
       /\ Len(unresolved) > 0 =>
             unresolved[1].held_before = history.current_held
       /\ \A i \in 1 .. Len(unresolved) - 1 :
             unresolved[i + 1].held_before = unresolved[i].held_after

Sampled == [held: Mask, time: Times]

(* The newest clock value the transport may already carry.                 *)
Newest == IF sampled = <<>> THEN qpc ELSE sampled[1].time

ClockType ==
    /\ qpc \in Times /\ host_time \in Times /\ host_time <= qpc
    /\ sampled \in Seq(Sampled) /\ Len(sampled) <= 1
    /\ \A i \in 1 .. Len(sampled) : sampled[i].time <= qpc

Anchor == [position: Nat, qpc: Nat]

AnchorsInv ==
    /\ anchors \in Seq(Anchor)
    /\ \A i, j \in 1 .. Len(anchors) : i <= j => anchors[i].qpc <= anchors[j].qpc

(* From a host time on, the clock answers nothing below a judgement time.  *)
Reached(time, tick) ==
    \/ EndpointFellBehind
    \/ /\ Backend = "asio" \/ anchors # <<>>
       /\ \A later \in Nat :
             later >= tick =>
                \A i \in DOMAIN JudgementTime(later) :
                   time <= JudgementTime(later)[i]

(* Clock order: resolved, unresolved, queued, about to be published.       *)
ClockInv ==
    /\ ClockType
    /\ \A i, j \in 1 .. Len(queue) :
          i <= j => queue[i].observed_time <= queue[j].observed_time
    /\ \A i, j \in 1 .. Len(unresolved) :
          i <= j => unresolved[i].observed_time <= unresolved[j].observed_time
    /\ \A i \in 1 .. Len(unresolved), j \in 1 .. Len(queue) :
          unresolved[i].observed_time <= queue[j].observed_time
    /\ \A i \in 1 .. Len(queue) : queue[i].observed_time <= Newest
    /\ \A i \in 1 .. Len(unresolved) : unresolved[i].observed_time <= Newest
    /\ \A k \in 1 .. Len(last_resolved_coordinate) :
          LET time == last_resolved_coordinate[k].time
          IN /\ Reached(time, Newest)
             /\ \A i \in 1 .. Len(unresolved) :
                   Reached(time, unresolved[i].observed_time)
             /\ \A i \in 1 .. Len(queue) : Reached(time, queue[i].observed_time)

CountersType ==
    counters \in [event_scopes: Nat, late_records: Nat, overload_drops: Nat,
                  cleanup_drops: Nat]

AccountInv ==
    /\ HistoryOK(history, next_delivery_sequence)
    /\ last_resolved_coordinate = history.last_coordinate
    /\ next_drain_sequence = history.next_sequence + Len(unresolved)
    /\ pending_event_count = history.next_sequence - next_delivery_sequence
    /\ CountersType
    /\ stage_open =>
          Classified = next_delivery_sequence - cutoff.first_stage_sequence

PhaseInv ==
    /\ phase \in {"idle", "entering", "draining", "binding", "resolving",
                  "scoping"}
    /\ phase \in {"draining", "binding", "resolving", "scoping"} => stage_open
    /\ phase = "resolving" => stage_active
    /\ stage_active => stage_open
    /\ committed_boundary_index \in Seq(Int)
    /\ Len(committed_boundary_index) <= 1
    /\ stage_active <=> committed_boundary_index # <<>>
    /\ drained_at_frontier \in Nat
    /\ drained_at_frontier <= history.next_sequence
    /\ outer_event_scope_count \in Nat /\ outer_heartbeat_scope_count \in Nat
    /\ OneKindOfScope
    /\ outer_horizon \in Seq(Int) /\ Len(outer_horizon) <= 1
    /\ outer_horizon # <<>> =>
          /\ phase = "scoping" /\ stage_active /\ unresolved = <<>>
          /\ Reached(outer_horizon[1], host_time)

(* The events from d on lie ahead of a coordinate, and beyond its tick     *)
(* when it closes a boundary.                                              *)
AheadOf(h, d, coordinate, is_boundary) ==
    \A i \in 1 .. Len(h.entries) :
       h.entries[i].sequence >= d =>
          /\ Precedes(coordinate, Coordinate(h.entries[i]))
          /\ is_boundary => h.entries[i].time > coordinate.time

FrontierInv ==
    /\ committed_frontier \in Seq(Coordinates) /\ Len(committed_frontier) <= 1
    /\ committed_frontier_is_boundary \in BOOLEAN
    /\ committed_frontier # <<>> =>
       LET frontier == committed_frontier[1]
       IN /\ stage_active
          /\ frontier.time <= NextBoundary
          /\ Reached(frontier.time, host_time)
          /\ IF committed_frontier_is_boundary
             THEN frontier.time = BoundaryAt(committed_boundary_index[1])
             ELSE frontier.sequence < MaxU64
          /\ AheadOf(history, next_delivery_sequence, frontier,
                     committed_frontier_is_boundary)

(* What the history has folded away lies behind the frontier.              *)
FloorInv ==
    \A i \in 1 .. Len(history.causal_time_floor) :
       /\ committed_frontier # <<>>
       /\ history.causal_time_floor[i] <= committed_frontier[1].time

(* A scope that is out fits between the frontier and the pending events.   *)
ScopeOut(scope) ==
    /\ scope.coordinate \in Coordinates
    /\ scope.commits_boundary \in BOOLEAN
    /\ scope.kind \in {"event", "heartbeat"}
    /\ scope.coordinate.time <= NextBoundary
    /\ Reached(scope.coordinate.time, host_time)
    /\ \A i \in 1 .. Len(committed_frontier) :
          /\ committed_frontier[i].time <= scope.coordinate.time
          /\ Precedes(committed_frontier[i], scope.coordinate)
    /\ scope.commits_boundary => scope.coordinate.time = NextBoundary
    /\ IF scope.kind = "event"
       THEN /\ scope.coordinate.sequence = next_delivery_sequence
            /\ next_delivery_sequence < history.next_sequence
            /\ outer_heartbeat_scope_count = 0
       ELSE scope.commits_boundary
    /\ AheadOf(history, DeliveryAfter(scope), scope.coordinate,
               scope.commits_boundary)

ScopeInv ==
    outstanding_scope # <<>> =>
    /\ outer_horizon # <<>>
    /\ outer_event_scope_count = 0
    /\ outer_heartbeat_scope_count < HeartbeatLimit
    /\ ScopeOut(outstanding_scope[1])

FaultInv == eviction_count < MaxU64 => NoOrderFault

(* What NoOrderFault asks of a fault, and the faults it asks nothing of.   *)
Blameless(reason) ==
    /\ reason \notin OrderFaults
    /\ reason = "ResolvedCoordinateRegressed" => EndpointFellBehind
    /\ reason = "TimelineProjectionDiscontinuous" =>
          EndpointFellBehind \/ Len(anchors) > AnchorCapacity

Suspects ==
    OrderFaults \cup {"ResolvedCoordinateRegressed",
                      "TimelineProjectionDiscontinuous"}

IInv ==
    /\ Inv /\ StageInv /\ LinkInv /\ UnresolvedInv /\ AnchorsInv /\ ClockInv
    /\ AccountInv /\ PhaseInv /\ FrontierInv /\ FloorInv /\ ScopeInv /\ FaultInv

-----------------------------------------------------------------------------
(* Operators: two sequences joined, the least index, the first failed      *)
(* check.                                                                  *)
LEMMA JoinedFacts ==
    ASSUME NEW S, NEW p \in Seq(S), NEW q \in Seq(S)
    PROVE  /\ p \o q \in Seq(S)
           /\ Len(p \o q) = Len(p) + Len(q)
           /\ \A i \in 1 .. Len(p) : (p \o q)[i] = p[i]
           /\ \A i \in 1 .. Len(q) : (p \o q)[Len(p) + i] = q[i]
  <1>1. Len(p) \in Nat /\ Len(q) \in Nat
    OBVIOUS
  <1>2. p \o q \in Seq(S) /\ Len(p \o q) = Len(p) + Len(q)
    OBVIOUS
  <1>3. \A i \in 1 .. Len(p) : (p \o q)[i] = p[i]
    BY <1>1
  <1>4. \A i \in 1 .. Len(q) : (p \o q)[Len(p) + i] = q[i]
    BY <1>1
  <1>5. QED  BY <1>2, <1>3, <1>4

LEMMA OptionalFacts ==
    ASSUME NEW S, NEW q \in Seq(S), Len(q) <= 1, q # <<>>
    PROVE  /\ Len(q) = 1 /\ DOMAIN q = 1 .. 1 /\ q[1] \in S
           /\ q = <<q[1]>>
  <1>1. Len(q) \in Nat /\ DOMAIN q = 1 .. Len(q)
    OBVIOUS
  <1>2. Len(q) # 0
    OBVIOUS
  <1>3. Len(q) = 1
    BY <1>1, <1>2
  <1>4. q[1] \in S
    BY <1>3
  <1>5. q = <<q[1]>>
    BY <1>3
  <1>6. QED  BY <1>1, <1>3, <1>4, <1>5

LEMMA EarliestIsLeast ==
    ASSUME NEW S, \A i \in S : i \in Nat, S # {}
    PROVE  Earliest(S) \in S /\ \A j \in S : Earliest(S) <= j
  <1>1. \E x \in S : \A y \in S : x <= y
    BY LeastExists
  <1>2. QED  BY <1>1 DEF Earliest

LEMMA FirstFaultIsFirst ==
    ASSUME NEW n \in Nat, NEW checks, DOMAIN checks = 1 .. n,
           \A i \in 1 .. n : checks[i][1] => checks[i][2] # "none"
    PROVE  /\ FirstFault(checks) = "none" <=> \A i \in 1 .. n : ~checks[i][1]
           /\ FirstFault(checks) # "none" =>
                 \E i \in 1 .. n : /\ checks[i][1]
                                   /\ FirstFault(checks) = checks[i][2]
                                   /\ \A j \in 1 .. i - 1 : ~checks[j][1]
  <1> DEFINE failed == {i \in DOMAIN checks : checks[i][1]}
  <1>1. FirstFault(checks)
           = IF failed = {} THEN "none" ELSE checks[Earliest(failed)][2]
    BY DEF FirstFault
  <1>2. /\ \A i \in failed : i \in Nat /\ i \in 1 .. n
        /\ \A i \in 1 .. n : i \in failed <=> checks[i][1]
    OBVIOUS
  <1>3. failed # {} =>
           Earliest(failed) \in failed /\ \A j \in failed : Earliest(failed) <= j
    BY <1>2, EarliestIsLeast
  <1> HIDE DEF failed
  <1>4. CASE failed = {}
    BY <1>1, <1>2, <1>4
  <1>5. CASE failed # {}
    <2> DEFINE i == Earliest(failed)
    <2>1. /\ i \in 1 .. n /\ checks[i][1] /\ FirstFault(checks) = checks[i][2]
          /\ \A j \in failed : i <= j
      BY <1>1, <1>2, <1>3, <1>5
    <2> HIDE DEF i
    <2>2. \A j \in 1 .. i - 1 : ~checks[j][1]
      BY <1>2, <2>1
    <2>3. QED  BY <2>1, <2>2
  <1>6. QED  BY <1>4, <1>5

-----------------------------------------------------------------------------
(* Histories.                                                              *)
LEMMA ResetHistory ==
    ASSUME NEW epoch \in U64, NEW sequence \in U64, NEW held \in Mask
    PROVE  LET h == Reset(Controls, epoch, sequence, held)
           IN /\ HistoryOK(h, sequence)
              /\ h.next_sequence = sequence /\ h.transport_epoch = epoch
              /\ h.current_held = held
              /\ h.entries = <<>> /\ h.causal_time_floor = <<>>
              /\ h.last_coordinate = <<>>
  <1> DEFINE h == Reset(Controls, epoch, sequence, held)
  <1>1. /\ DOMAIN h = HistoryFields
        /\ h.next_sequence = sequence /\ h.transport_epoch = epoch
        /\ h.current_held = held /\ h.base_next_sequence = sequence
        /\ h.entries = <<>> /\ h.causal_time_floor = <<>>
        /\ h.last_coordinate = <<>>
    BY DEF Reset, HistoryFields
  <1> HIDE DEF h
  <1>2. HistoryType(h)
    BY <1>1 DEF HistoryType, U64
  <1>3. HistoryInOrder(h) /\ Delivers(h, sequence)
    BY <1>1 DEF HistoryInOrder, Delivers, U64
  <1>4. QED  BY <1>1, <1>2, <1>3 DEF HistoryOK, h

LEMMA AppendHistory ==
    ASSUME NEW h, NEW d, HistoryOK(h, d), NEW record \in Record, NEW time \in Int,
           NEW eligible \in BOOLEAN, CanAppend(h, record, time),
           record.sequence # MaxU64,
           ~eligible => d = h.next_sequence
    PROVE  LET g == AppendEntry(h, record, time, eligible)
               e == IF eligible THEN d ELSE record.sequence + 1
           IN /\ HistoryOK(g, e)
              /\ g.next_sequence = h.next_sequence + 1
              /\ g.transport_epoch = h.transport_epoch
              /\ g.current_held = record.held_after
              /\ g.causal_time_floor = h.causal_time_floor
              /\ g.last_coordinate
                    = <<[time |-> time, sequence |-> record.sequence]>>
              /\ Len(g.entries) = Len(h.entries) + 1
              /\ \A i \in 1 .. Len(h.entries) : g.entries[i] = h.entries[i]
              /\ g.entries[Len(g.entries)].time = time
              /\ g.entries[Len(g.entries)].sequence = record.sequence
  <1> DEFINE g == AppendEntry(h, record, time, eligible)
             e == IF eligible THEN d ELSE record.sequence + 1
             entry == [sequence |-> record.sequence, time |-> time,
                       held_before |-> record.held_before,
                       held_after |-> record.held_after, eligible |-> eligible]
             n == Len(h.entries)
             c == [time |-> time, sequence |-> record.sequence]
  <1>1. /\ HistoryType(h) /\ HistoryInOrder(h) /\ Delivers(h, d)
        /\ n \in Nat
    BY DEF HistoryOK, HistoryType
  <1>2. /\ record.sequence = h.next_sequence /\ h.next_sequence \in Nat
        /\ h.next_sequence + 1 \in U64
        /\ record.held_after \in Mask
        /\ h.base_next_sequence \in Nat
        /\ h.base_next_sequence + n = h.next_sequence
    <2>1. record.sequence = h.next_sequence /\ h.next_sequence \in U64
      BY <1>1 DEF CanAppend, HistoryType
    <2>2. record.held_after \in Mask
      BY DEF Record
    <2>3. /\ h.base_next_sequence \in Nat
          /\ h.base_next_sequence + n = h.next_sequence
      BY <1>1 DEF HistoryType, HistoryInOrder
    <2> HIDE DEF n
    <2>4. h.next_sequence # MaxU64
      BY <2>1
    <2>5. h.next_sequence \in Nat /\ h.next_sequence + 1 \in U64
      BY <2>1, <2>4, MaxU64Assumption DEF U64
    <2>6. QED  BY <2>1, <2>2, <2>3, <2>5
  <1>3. entry \in Entry /\ Coordinate(entry) = c /\ c \in Coordinates
    BY DEF Entry, Record, Coordinate, Coordinates
  <1>4. /\ DOMAIN g = HistoryFields
        /\ g.entries = Append(h.entries, entry)
        /\ g.transport_epoch = h.transport_epoch
        /\ g.next_sequence = h.next_sequence + 1
        /\ g.base_next_sequence = h.base_next_sequence
        /\ g.current_held = record.held_after
        /\ g.causal_time_floor = h.causal_time_floor
        /\ g.last_coordinate = <<Coordinate(entry)>>
    BY <1>1 DEF AppendEntry, HistoryType, HistoryFields
  <1>5. /\ entry.sequence = record.sequence /\ entry.time = time
        /\ entry.eligible = eligible
    OBVIOUS
  <1> HIDE DEF g, entry, c
  <1>6. /\ g.entries \in Seq(Entry) /\ Len(g.entries) = n + 1
        /\ \A i \in 1 .. n : g.entries[i] = h.entries[i]
        /\ g.entries[n + 1] = entry
        /\ g.last_coordinate = <<c>>
    BY <1>1, <1>3, <1>4 DEF HistoryType
  <1> HIDE DEF n
  <1>7. HistoryType(g)
    <2>1. <<c>> \in Seq(Coordinates) /\ Len(<<c>>) = 1
      BY <1>3
    <2>2. QED  BY <1>1, <1>2, <1>4, <1>6, <2>1 DEF HistoryType
  <1>8. HistoryInOrder(g)
    <2>1. g.base_next_sequence + Len(g.entries) = g.next_sequence
      <3>1. /\ g.base_next_sequence = h.base_next_sequence
            /\ Len(g.entries) = n + 1
            /\ g.next_sequence = h.next_sequence + 1
        BY <1>4, <1>6
      <3>2. /\ n \in Nat /\ h.base_next_sequence \in Nat
            /\ h.base_next_sequence + n = h.next_sequence
        BY <1>1, <1>2
      <3>3. QED  BY <3>1, <3>2
    <2>2. ASSUME NEW i \in 1 .. Len(g.entries)
          PROVE  g.entries[i].sequence = g.base_next_sequence + i - 1
      <3>1. CASE i = n + 1
        BY <3>1, <1>1, <1>2, <1>4, <1>5, <1>6 DEF HistoryInOrder, HistoryType, n
      <3>2. CASE i # n + 1
        <4>1. i \in 1 .. n
          BY <3>2, <1>1, <1>6
        <4>2. QED  BY <4>1, <1>1, <1>4, <1>6 DEF HistoryInOrder, n
      <3>3. QED  BY <3>1, <3>2
    <2>3. \A i \in 1 .. n : h.entries[i].time \in Int /\ h.entries[i].time <= time
      <3>1. CASE n = 0
        BY <3>1, <1>1
      <3>2. CASE n > 0
        <4> DEFINE z == h.entries[n]
        <4>1. z \in Entry /\ h.last_coordinate = <<Coordinate(z)>>
          BY <3>2, <1>1 DEF HistoryInOrder, HistoryType, n
        <4> HIDE DEF z
        <4>2. DOMAIN h.last_coordinate = {1}
              /\ h.last_coordinate[1].time = z.time
              /\ z.time \in Int
          BY <4>1 DEF Coordinate, Entry
        <4>3. h.last_coordinate[1].time <= time
          BY <4>2 DEF CanAppend
        <4>4. \A i \in 1 .. n : h.entries[i].time \in Int /\ h.entries[i].time <= z.time
          <5>1. \A i \in 1 .. n : h.entries[i] \in Entry
            BY <1>1 DEF HistoryType, n
          <5>2. \A i \in 1 .. n : h.entries[i].time \in Int
            BY <5>1 DEF Entry
          <5>3. n \in 1 .. n
            BY <3>2, <1>1
          <5>4. QED
            BY <5>2, <5>3, <1>1 DEF HistoryInOrder, n, z
        <4>5. QED  BY <4>2, <4>3, <4>4
      <3>3. QED  BY <3>1, <3>2, <1>1
    <2>4. ASSUME NEW i \in 1 .. Len(g.entries), NEW j \in 1 .. Len(g.entries),
                 i <= j
          PROVE  g.entries[i].time <= g.entries[j].time
      <3>1. CASE j = n + 1
        <4>1. CASE i = n + 1
          BY <3>1, <4>1, <1>5, <1>6
        <4>2. CASE i # n + 1
          <5>1. i \in 1 .. n
            BY <4>2, <1>1, <1>6
          <5>2. QED  BY <5>1, <3>1, <2>3, <1>5, <1>6
        <4>3. QED  BY <4>1, <4>2
      <3>2. CASE j # n + 1
        <4>1. i \in 1 .. n /\ j \in 1 .. n
          BY <3>2, <2>4, <1>1, <1>6
        <4>2. QED  BY <4>1, <2>4, <1>1, <1>6 DEF HistoryInOrder, n
      <3>3. QED  BY <3>1, <3>2
    <2>5. \A i \in 1 .. Len(g.last_coordinate) :
             g.last_coordinate[i].sequence = g.next_sequence - 1
      BY <1>2, <1>4, <1>6 DEF c
    <2>6. g.last_coordinate = <<Coordinate(g.entries[Len(g.entries)])>>
      BY <1>4, <1>6
    <2>7. QED  BY <2>1, <2>2, <2>4, <2>5, <2>6 DEF HistoryInOrder
  <1>9. Delivers(g, e)
    <2>1. e \in Nat /\ g.base_next_sequence <= e /\ e <= g.next_sequence
      BY <1>1, <1>2, <1>4 DEF Delivers, HistoryType
    <2>2. ASSUME NEW i \in 1 .. Len(g.entries), g.entries[i].sequence >= e
          PROVE  g.entries[i].eligible
      <3>1. CASE i = n + 1
        <4>1. g.entries[i].sequence = record.sequence
          BY <3>1, <1>5, <1>6
        <4>2. eligible
          BY <4>1, <2>2, <1>2
        <4>3. QED  BY <4>2, <3>1, <1>5, <1>6
      <3>2. CASE i # n + 1
        <4>1. i \in 1 .. n /\ g.entries[i] = h.entries[i]
          BY <3>2, <1>1, <1>6
        <4>2. h.entries[i].sequence >= d
          <5>1. CASE eligible
            BY <5>1, <4>1, <2>2
          <5>2. CASE ~eligible
            <6>1. h.entries[i].sequence = h.base_next_sequence + i - 1
              BY <4>1, <1>1 DEF HistoryInOrder, n
            <6>2. h.entries[i].sequence >= h.next_sequence + 1
              BY <5>2, <4>1, <2>2, <1>2
            <6>3. QED  BY <4>1, <6>1, <6>2, <1>1, <1>2
          <5>3. QED  BY <5>1, <5>2
        <4>3. QED  BY <4>1, <4>2, <1>1 DEF Delivers, n
      <3>3. QED  BY <3>1, <3>2
    <2>3. QED  BY <2>1, <2>2 DEF Delivers
  <1>10. /\ Len(g.entries) = n + 1
         /\ \A i \in 1 .. n : g.entries[i] = h.entries[i]
         /\ g.entries[Len(g.entries)].time = time
         /\ g.entries[Len(g.entries)].sequence = record.sequence
         /\ g.last_coordinate = <<c>>
    BY <1>5, <1>6
  <1>11. HistoryOK(g, e)
    BY <1>7, <1>8, <1>9 DEF HistoryOK
  <1>12. QED  BY <1>4, <1>10, <1>11 DEF c, n, g

LEMMA ConvertHistory ==
    ASSUME NEW h, NEW d, HistoryOK(h, d), d < h.next_sequence
    PROVE  LET g == ConvertResolvedToStateOnly(h, d)
           IN /\ HistoryOK(g, d + 1)
              /\ g.next_sequence = h.next_sequence
              /\ g.transport_epoch = h.transport_epoch
              /\ g.current_held = h.current_held
              /\ g.causal_time_floor = h.causal_time_floor
              /\ g.last_coordinate = h.last_coordinate
              /\ Len(g.entries) = Len(h.entries)
              /\ \A i \in 1 .. Len(h.entries) :
                    /\ g.entries[i].time = h.entries[i].time
                    /\ g.entries[i].sequence = h.entries[i].sequence
  <1> DEFINE g == ConvertResolvedToStateOnly(h, d)
             n == Len(h.entries)
  <1>1. /\ HistoryType(h) /\ HistoryInOrder(h) /\ Delivers(h, d)
        /\ n \in Nat /\ h.entries \in Seq(Entry) /\ d \in Nat
        /\ h.next_sequence \in Nat
    BY DEF HistoryOK, HistoryType, Delivers, U64
  <1>2. /\ DOMAIN g = HistoryFields
        /\ g.entries = [i \in DOMAIN h.entries |->
                          IF h.entries[i].sequence = d
                          THEN [h.entries[i] EXCEPT !.eligible = FALSE]
                          ELSE h.entries[i]]
        /\ g.transport_epoch = h.transport_epoch
        /\ g.next_sequence = h.next_sequence
        /\ g.base_next_sequence = h.base_next_sequence
        /\ g.current_held = h.current_held
        /\ g.causal_time_floor = h.causal_time_floor
        /\ g.last_coordinate = h.last_coordinate
    BY <1>1 DEF ConvertResolvedToStateOnly, HistoryType, HistoryFields
  <1> HIDE DEF g
  <1>3. ASSUME NEW i \in 1 .. n
        PROVE  /\ g.entries[i] \in Entry
               /\ g.entries[i].time = h.entries[i].time
               /\ g.entries[i].sequence = h.entries[i].sequence
               /\ h.entries[i].sequence # d =>
                     g.entries[i].eligible = h.entries[i].eligible
    <2> DEFINE x == h.entries[i]
    <2>1. x \in Entry /\ DOMAIN h.entries = 1 .. n
      BY <1>1
    <2>2. g.entries[i] = IF x.sequence = d THEN [x EXCEPT !.eligible = FALSE]
                                           ELSE x
      BY <1>2, <2>1
    <2> HIDE DEF x
    <2>3. /\ [x EXCEPT !.eligible = FALSE] \in Entry
          /\ [x EXCEPT !.eligible = FALSE].time = x.time
          /\ [x EXCEPT !.eligible = FALSE].sequence = x.sequence
      BY <2>1 DEF Entry
    <2>4. QED  BY <2>1, <2>2, <2>3 DEF x
  <1>4. g.entries \in Seq(Entry) /\ Len(g.entries) = n
    <2>1. DOMAIN g.entries = 1 .. n /\ g.entries = [i \in 1 .. n |-> g.entries[i]]
      BY <1>1, <1>2
    <2> DEFINE f == g.entries
    <2>2. f = [i \in 1 .. n |-> f[i]] /\ \A i \in 1 .. n : f[i] \in Entry
      BY <1>3, <2>1
    <2> HIDE DEF f, n
    <2>3. f \in Seq(Entry) /\ Len(f) = n
      BY <1>1, <2>2
    <2>4. QED  BY <2>3 DEF f
  <1>5. HistoryType(g)
    BY <1>1, <1>2, <1>4 DEF HistoryType
  <1>6. HistoryInOrder(g)
    <2>1. /\ \A i \in 1 .. n : g.entries[i].sequence = g.base_next_sequence + i - 1
          /\ \A i, j \in 1 .. n : i <= j => g.entries[i].time <= g.entries[j].time
      BY <1>1, <1>2, <1>3 DEF HistoryInOrder
    <2>2. n > 0 => g.last_coordinate = <<Coordinate(g.entries[n])>>
      <3>1. SUFFICES ASSUME n > 0
                     PROVE  g.last_coordinate = <<Coordinate(g.entries[n])>>
        OBVIOUS
      <3>2. Coordinate(g.entries[n]) = Coordinate(h.entries[n])
        BY <1>1, <1>3, <3>1 DEF Coordinate
      <3>3. QED  BY <1>1, <1>2, <3>1, <3>2 DEF HistoryInOrder
    <2>3. g.base_next_sequence + n = g.next_sequence
      BY <1>1, <1>2 DEF HistoryInOrder
    <2>4. \A i \in 1 .. Len(g.last_coordinate) :
             g.last_coordinate[i].sequence = g.next_sequence - 1
      BY <1>1, <1>2 DEF HistoryInOrder
    <2> HIDE DEF n
    <2>5. QED  BY <1>4, <2>1, <2>2, <2>3, <2>4 DEF HistoryInOrder
  <1>7. Delivers(g, d + 1)
    <2>1. d + 1 \in Nat /\ g.base_next_sequence <= d + 1 /\ d + 1 <= g.next_sequence
      BY <1>1, <1>2 DEF Delivers, HistoryType
    <2>2. ASSUME NEW i \in 1 .. n, g.entries[i].sequence >= d + 1
          PROVE  g.entries[i].eligible
      <3>1. h.entries[i].sequence >= d /\ h.entries[i].sequence # d
        <4>1. g.entries[i].sequence = h.entries[i].sequence
          BY <1>3
        <4>2. h.entries[i] \in Entry
          BY <1>1
        <4>3. h.entries[i].sequence \in Nat
          BY <4>2 DEF Entry, U64
        <4>4. QED  BY <1>1, <2>2, <4>1, <4>3
      <3>2. h.entries[i].eligible
        BY <1>1, <3>1 DEF Delivers
      <3>3. QED  BY <1>3, <3>1, <3>2
    <2>3. QED  BY <1>4, <2>1, <2>2 DEF Delivers
  <1>8. HistoryOK(g, d + 1)
    BY <1>5, <1>6, <1>7 DEF HistoryOK
  <1>9. QED  BY <1>2, <1>3, <1>4, <1>8 DEF g

(* What Leading keeps of a sequence, given the positions where it stops.   *)
LEMMA PrefixFacts ==
    ASSUME NEW S, NEW q \in Seq(S), NEW stops, stops \subseteq 1 .. Len(q)
    PROVE  /\ Len(UpTo(q, stops)) \in 0 .. Len(q)
           /\ \A i \in 1 .. Len(UpTo(q, stops)) :
                 UpTo(q, stops)[i] = q[i] /\ i \notin stops
  <1>1. Len(q) \in Nat
    OBVIOUS
  <1>2. CASE stops = {}
    BY <1>1, <1>2 DEF UpTo
  <1>3. CASE stops # {}
    <2> DEFINE k == Earliest(stops) - 1
    <2>1. Earliest(stops) \in stops /\ \A j \in stops : Earliest(stops) <= j
      <3>1. \A i \in stops : i \in Nat
        OBVIOUS
      <3>2. QED  BY <1>3, <3>1, EarliestIsLeast
    <2>2. /\ UpTo(q, stops) = SubSeq(q, 1, k) /\ k \in 0 .. Len(q)
          /\ \A j \in stops : k < j
      <3>1. Earliest(stops) \in 1 .. Len(q)
        BY <2>1
      <3>2. \A j \in stops : j \in Nat /\ Earliest(stops) <= j
        BY <2>1
      <3>3. k \in 0 .. Len(q) /\ \A j \in stops : k < j
        BY <1>1, <3>1, <3>2
      <3>4. QED  BY <1>3, <3>3 DEF UpTo
    <2> HIDE DEF k
    <2>3. Len(SubSeq(q, 1, k)) = k /\ \A i \in 1 .. k : SubSeq(q, 1, k)[i] = q[i]
      BY <2>2, DropPrefix
    <2>4. \A i \in 1 .. k : i \notin stops
      BY <1>1, <2>2
    <2>5. QED  BY <2>2, <2>3, <2>4
  <1>4. QED  BY <1>2, <1>3

LEMMA PruneHistory ==
    ASSUME NEW h, NEW d, HistoryOK(h, d), NEW time \in Int
    PROVE  LET g == PruneBefore(h, time, d)
           IN /\ HistoryOK(g, d)
              /\ g.next_sequence = h.next_sequence
              /\ g.transport_epoch = h.transport_epoch
              /\ g.current_held = h.current_held
              /\ g.last_coordinate = h.last_coordinate
              /\ \E n \in 0 .. Len(h.entries) :
                    /\ Len(g.entries) = Len(h.entries) - n
                    /\ \A i \in 1 .. Len(g.entries) :
                          g.entries[i] = h.entries[i + n]
              /\ \/ g.causal_time_floor = h.causal_time_floor
                 \/ \E t \in Int : t <= time /\ g.causal_time_floor = <<t>>
  <1> DEFINE g == PruneBefore(h, time, d)
             m == Len(h.entries)
             stops == {i \in DOMAIN h.entries :
                         ~(/\ h.entries[i].sequence < d
                           /\ IsOld(h.entries[i], time))}
             p == UpTo(h.entries, stops)
  <1>1. /\ HistoryType(h) /\ HistoryInOrder(h) /\ Delivers(h, d)
        /\ m \in Nat /\ h.entries \in Seq(Entry) /\ d \in Nat
        /\ h.next_sequence \in Nat /\ h.base_next_sequence \in Nat
    BY DEF HistoryOK, HistoryType, Delivers, U64
  <1>2. g = IF Len(p) = 0 THEN h
            ELSE [h EXCEPT !.entries = SubSeq(@, Len(p) + 1, Len(@)),
                           !.causal_base = g.causal_base,
                           !.causal_time_floor = <<p[Len(p)].time>>,
                           !.base_next_sequence = p[Len(p)].sequence + 1]
    BY <1>1 DEF PruneBefore, Leading, HistoryType, HistoryFields
  <1>3. PICK n \in 0 .. m :
              /\ Len(p) = n
              /\ \A i \in 1 .. n : p[i] = h.entries[i] /\ i \notin stops
    <2>1. stops \subseteq 1 .. Len(h.entries) /\ h.entries \in Seq(Entry)
      BY <1>1
    <2> HIDE DEF stops
    <2>2. /\ Len(p) \in 0 .. Len(h.entries)
          /\ \A i \in 1 .. Len(p) : p[i] = h.entries[i] /\ i \notin stops
      BY <2>1, PrefixFacts
    <2>3. QED  BY <2>2
  <1>4. \A i \in 1 .. n : h.entries[i].sequence < d /\ IsOld(h.entries[i], time)
    <2>1. \A i \in 1 .. n : i \in DOMAIN h.entries /\ i \notin stops
      BY <1>1, <1>3
    <2>2. QED  BY <2>1
  <1> HIDE DEF g, stops, p
  <1>5. CASE n = 0
    <2>1. g = h
      BY <1>2, <1>3, <1>5
    <2>2. QED  BY <1>1, <2>1 DEF g
  <1>6. CASE n # 0
    <2> DEFINE z == h.entries[n]
    <2>1. /\ z \in Entry /\ p[Len(p)] = z /\ z.sequence < d /\ IsOld(z, time)
          /\ z.sequence = h.base_next_sequence + n - 1
      BY <1>1, <1>3, <1>4, <1>6 DEF HistoryInOrder
    <2> HIDE DEF z
    <2>2. z.time \in Int /\ z.time <= time
      BY <2>1, SchedulerAssumption DEF Entry, IsOld, PairedLookback
    <2>3. /\ DOMAIN g = HistoryFields
          /\ g.entries = SubSeq(h.entries, n + 1, m)
          /\ g.transport_epoch = h.transport_epoch
          /\ g.next_sequence = h.next_sequence
          /\ g.base_next_sequence = z.sequence + 1
          /\ g.current_held = h.current_held
          /\ g.causal_time_floor = <<z.time>>
          /\ g.last_coordinate = h.last_coordinate
      BY <1>1, <1>2, <1>3, <1>6, <2>1 DEF HistoryType, HistoryFields
    <2>4. /\ g.entries \in Seq(Entry) /\ Len(g.entries) = m - n
          /\ \A i \in 1 .. m - n : g.entries[i] = h.entries[i + n]
      BY <1>1, <2>3, DropPrefix
    <2>5. HistoryType(g)
      <3>1. z.sequence + 1 \in Nat /\ <<z.time>> \in Seq(Int) /\ Len(<<z.time>>) <= 1
        BY <2>1, <2>2 DEF Entry, U64
      <3>2. /\ h.transport_epoch \in U64 /\ h.next_sequence \in U64
            /\ h.current_held \in Mask
            /\ h.last_coordinate \in Seq(Coordinates) /\ Len(h.last_coordinate) <= 1
        BY <1>1, Zenon DEF HistoryType
      <3>3. QED  BY <2>3, <2>4, <3>1, <3>2, Zenon DEF HistoryType
    <2> HIDE DEF m
    <2>6. \A i \in 1 .. m - n : i + n \in 1 .. m
      BY <1>1, <1>3
    <2>7. HistoryInOrder(g)
      <3>1. g.base_next_sequence + Len(g.entries) = g.next_sequence
        BY <1>1, <1>3, <2>1, <2>3, <2>4 DEF HistoryInOrder, m
      <3>2. ASSUME NEW i \in 1 .. m - n
            PROVE  g.entries[i].sequence = g.base_next_sequence + i - 1
        <4>1. g.entries[i] = h.entries[i + n] /\ i + n \in 1 .. m
          BY <2>4, <2>6
        <4>2. h.entries[i + n].sequence = h.base_next_sequence + (i + n) - 1
          BY <1>1, <4>1 DEF HistoryInOrder, m
        <4>3. g.base_next_sequence = h.base_next_sequence + n
          BY <1>1, <1>3, <2>1, <2>3
        <4>4. /\ g.entries[i].sequence = h.base_next_sequence + (i + n) - 1
              /\ h.base_next_sequence \in Nat /\ n \in Nat /\ i \in Nat
          BY <1>1, <1>3, <4>1, <4>2
        <4>5. QED  BY <4>3, <4>4
      <3>3. ASSUME NEW i \in 1 .. m - n, NEW j \in 1 .. m - n, i <= j
            PROVE  g.entries[i].time <= g.entries[j].time
        <4>1. /\ i + n \in 1 .. m /\ j + n \in 1 .. m /\ i + n <= j + n
              /\ g.entries[i] = h.entries[i + n] /\ g.entries[j] = h.entries[j + n]
          <5>1. n \in Nat /\ i \in Nat /\ j \in Nat
            BY <1>1, <1>3
          <5>2. i + n <= j + n
            BY <3>3, <5>1
          <5>3. QED  BY <2>4, <2>6, <5>2
        <4>2. QED  BY <1>1, <4>1 DEF HistoryInOrder, m
      <3>4. m - n > 0 => g.last_coordinate = <<Coordinate(g.entries[m - n])>>
        <4>1. SUFFICES ASSUME m - n > 0
                       PROVE  g.last_coordinate = <<Coordinate(g.entries[m - n])>>
          OBVIOUS
        <4>2. m > 0 /\ g.entries[m - n] = h.entries[m]
          <5>1. m > 0 /\ m - n \in 1 .. m - n /\ (m - n) + n = m
            BY <1>1, <1>3, <4>1
          <5>2. QED  BY <2>4, <5>1
        <4>3. QED  BY <1>1, <2>3, <4>2 DEF HistoryInOrder, m
      <3>5. QED  BY <1>1, <2>3, <2>4, <3>1, <3>2, <3>3, <3>4 DEF HistoryInOrder
    <2>8. Delivers(g, d)
      <3>1. g.base_next_sequence <= d /\ d <= g.next_sequence
        BY <1>1, <1>3, <2>1, <2>3 DEF Delivers
      <3>2. \A i \in 1 .. m - n : g.entries[i].sequence >= d => g.entries[i].eligible
        BY <1>1, <2>4, <2>6 DEF Delivers, m
      <3>3. QED  BY <1>1, <2>4, <3>1, <3>2 DEF Delivers
    <2>9. HistoryOK(g, d)
      BY <2>5, <2>7, <2>8 DEF HistoryOK
    <2>10. QED  BY <1>3, <2>2, <2>3, <2>4, <2>9 DEF g, m
  <1>7. QED  BY <1>5, <1>6

(* While the events from d on are retained, the next event is the one with *)
(* the sequence asked for, and a query's prefix ends there.                *)
LEMMA NextEvent ==
    ASSUME NEW h, NEW d, HistoryOK(h, d),
           NEW s \in Nat, d <= s, s <= h.next_sequence
    PROVE  LET i == s - h.base_next_sequence + 1
           IN /\ s = h.next_sequence => FirstResolvedAtOrAfter(h, s) = <<>>
              /\ s < h.next_sequence =>
                    /\ i \in 1 .. Len(h.entries)
                    /\ h.entries[i] \in Entry
                    /\ h.entries[i].sequence = s
                    /\ FirstResolvedAtOrAfter(h, s) = <<h.entries[i]>>
              /\ CurrentHistoryPrefixEnd(h, s) = s
  <1> DEFINE i == s - h.base_next_sequence + 1
             m == Len(h.entries)
             found == {k \in DOMAIN h.entries :
                         /\ h.entries[k].eligible
                         /\ h.entries[k].sequence >= s}
  <1>1. /\ HistoryType(h) /\ HistoryInOrder(h) /\ Delivers(h, d)
        /\ m \in Nat /\ h.entries \in Seq(Entry) /\ d \in Nat
        /\ h.next_sequence \in Nat /\ h.base_next_sequence \in Nat
        /\ h.base_next_sequence + m = h.next_sequence
        /\ h.base_next_sequence <= d /\ d <= h.next_sequence
    BY DEF HistoryOK, HistoryType, HistoryInOrder, Delivers, U64
  <1>2. \A k \in 1 .. m : h.entries[k].sequence = h.base_next_sequence + k - 1
    BY <1>1 DEF HistoryInOrder
  <1>3. ASSUME NEW k \in 1 .. m
        PROVE  k \in found <=> i <= k
    <2>1. h.entries[k].sequence = h.base_next_sequence + k - 1
      BY <1>2
    <2>2. k \in DOMAIN h.entries
      BY <1>1
    <2>3. h.entries[k].sequence >= s <=> i <= k
      BY <2>1, <1>1
    <2>4. h.entries[k].sequence >= s => h.entries[k].eligible
      <3>1. h.entries[k].sequence >= s => h.entries[k].sequence >= d
        BY <2>1, <1>1
      <3>2. QED  BY <3>1, <1>1 DEF Delivers
    <2>5. QED  BY <2>2, <2>3, <2>4
  <1>4. found \subseteq 1 .. m /\ i \in Nat
    BY <1>1
  <1>5. FirstResolvedAtOrAfter(h, s)
          = IF found = {} THEN <<>> ELSE <<h.entries[Earliest(found)]>>
    BY DEF FirstResolvedAtOrAfter
  <1> HIDE DEF found
  <1>6. CASE s = h.next_sequence
    <2>1. i > m
      BY <1>1, <1>6
    <2>2. found = {}
      <3>1. ASSUME NEW k \in found PROVE FALSE
        <4>1. k \in 1 .. m /\ i <= k
          BY <1>3, <1>4
        <4>2. QED  BY <2>1, <4>1, <1>1, <1>4
      <3>2. QED  BY <3>1
    <2>3. QED  BY <1>5, <1>6, <2>2 DEF CurrentHistoryPrefixEnd
  <1>7. CASE s # h.next_sequence
    <2>1. i \in 1 .. m
      BY <1>1, <1>7
    <2>2. i \in found /\ \A k \in found : k \in Nat /\ i <= k
      BY <2>1, <1>1, <1>3, <1>4
    <2>3. Earliest(found) = i
      <3>1. Earliest(found) \in found /\ \A k \in found : Earliest(found) <= k
        <4>1. /\ \A k \in found : k \in Nat
              /\ found # {}
          BY <2>2
        <4>2. QED  BY <4>1, EarliestIsLeast
      <3> DEFINE e == Earliest(found)
      <3> HIDE DEF e, i
      <3>2. e \in Nat /\ i \in Nat /\ e <= i /\ i <= e
        BY <2>2, <3>1 DEF e
      <3>3. e = i
        BY <3>2
      <3>4. QED  BY <3>3 DEF e
    <2>4. FirstResolvedAtOrAfter(h, s) = <<h.entries[i]>>
      BY <1>5, <2>2, <2>3
    <2>5. h.entries[i].sequence = s /\ h.entries[i] \in Entry
      <3>1. h.entries[i].sequence = h.base_next_sequence + i - 1
        BY <1>2, <2>1
      <3>2. h.base_next_sequence + i - 1 = s
        BY <1>1
      <3>3. QED  BY <3>1, <3>2, <2>1, <1>1
    <2> DEFINE z == h.entries[i]
    <2>6. CurrentHistoryPrefixEnd(h, s) = s
      <3>1. FirstResolvedAtOrAfter(h, s) = <<z>> /\ z.sequence = s
        BY <2>4, <2>5
      <3> HIDE DEF z, i
      <3>2. QED  BY <3>1 DEF CurrentHistoryPrefixEnd
    <2>7. QED  BY <1>7, <2>1, <2>4, <2>5, <2>6
  <1>8. QED  BY <1>6, <1>7

-----------------------------------------------------------------------------
(* Boundaries of judgement time.                                           *)
LEMMA BoundaryStep ==
    ASSUME NEW index \in Int
    PROVE  /\ BoundaryAt(index) \in Int
           /\ BoundaryAt(index) < BoundaryAt(index + 1)
  BY SchedulerAssumption DEF BoundaryAt

LEMMA BoundaryBelow ==
    ASSUME NEW time \in Int, NEW index \in Int, Floor60(time) > index
    PROVE  Floor60(time) \in Int /\ BoundaryAt(index) <= time
  <1>1. Quantum \in Nat \ {0}
    BY SchedulerAssumption
  <1>2. time \div Quantum \in Int /\ (time \div Quantum) * Quantum <= time
    BY <1>1
  <1>3. ASSUME NEW x \in Int, x > index
        PROVE  index * Quantum <= x * Quantum
    BY <1>1, <1>3
  <1>4. QED  BY <1>1, <1>2, <1>3 DEF Floor60, BoundaryAt

-----------------------------------------------------------------------------
(* What the scheduler's checks leave: which one failed, and what is known  *)
(* when none did.                                                          *)
LEMMA ResolveFaultFacts ==
    ASSUME NEW late \in BOOLEAN
    PROVE  LET behind == \E i \in DOMAIN last_resolved_coordinate :
                            ~Precedes(last_resolved_coordinate[i], FrontCoordinate)
               early  == late /\ next_delivery_sequence # unresolved[1].sequence
               odd    == ~CanAppend(history, unresolved[1], FrontCoordinate.time)
               f      == ResolveFault(late)
           IN /\ f = "none" => ~behind /\ ~early /\ ~odd
              /\ f = "ResolvedCoordinateRegressed" => behind
              /\ f \in Suspects /\ f # "ResolvedCoordinateRegressed" =>
                    ~behind /\ (early \/ odd)
  <1> DEFINE behind == \E i \in DOMAIN last_resolved_coordinate :
                          ~Precedes(last_resolved_coordinate[i], FrontCoordinate)
             early  == late /\ next_delivery_sequence # unresolved[1].sequence
             odd    == ~CanAppend(history, unresolved[1], FrontCoordinate.time)
             full   == ~HasRoom(history)
             c      == << <<behind, "ResolvedCoordinateRegressed">>,
                          <<early, "DeliveryOrderViolated">>,
                          <<odd, "TransportMaskMismatch">>,
                          <<full, "HistoryCapacityExhausted">> >>
  <1>1. ResolveFault(late) = FirstFault(c)
    BY DEF ResolveFault
  <1> HIDE DEF behind, early, odd, full
  <1>2. /\ DOMAIN c = 1 .. 4
        /\ c[1][1] = behind /\ c[1][2] = "ResolvedCoordinateRegressed"
        /\ c[2][1] = early /\ c[2][2] = "DeliveryOrderViolated"
        /\ c[3][1] = odd /\ c[3][2] = "TransportMaskMismatch"
        /\ c[4][1] = full /\ c[4][2] = "HistoryCapacityExhausted"
    OBVIOUS
  <1> HIDE DEF c
  <1>3. /\ \A i \in 1 .. 4 : c[i][2] # "none"
        /\ \A i \in 1 .. 4 : i = 1 \/ i = 2 \/ i = 3 \/ i = 4
    BY <1>2
  <1>4. /\ FirstFault(c) = "none" <=> \A i \in 1 .. 4 : ~c[i][1]
        /\ FirstFault(c) # "none" =>
              \E i \in 1 .. 4 : /\ c[i][1] /\ FirstFault(c) = c[i][2]
                                /\ \A j \in 1 .. i - 1 : ~c[j][1]
    BY <1>2, <1>3, FirstFaultIsFirst
  <1>5. FirstFault(c) = "none" => ~behind /\ ~early /\ ~odd
    BY <1>2, <1>4
  <1>6. ASSUME FirstFault(c) \in Suspects
        PROVE  /\ FirstFault(c) = "ResolvedCoordinateRegressed" => behind
               /\ FirstFault(c) # "ResolvedCoordinateRegressed" =>
                     ~behind /\ (early \/ odd)
    <2>1. FirstFault(c) # "none"
      BY <1>6 DEF Suspects, OrderFaults
    <2>2. PICK i \in 1 .. 4 : /\ c[i][1] /\ FirstFault(c) = c[i][2]
                              /\ \A j \in 1 .. i - 1 : ~c[j][1]
      BY <1>4, <2>1
    <2>3. i # 4
      BY <1>2, <1>6, <2>2 DEF Suspects, OrderFaults
    <2>4. i > 1 => ~behind
      BY <1>2, <2>2
    <2>5. QED  BY <1>2, <1>3, <2>2, <2>3, <2>4
  <1>7. FirstFault(c) = "ResolvedCoordinateRegressed" => FirstFault(c) \in Suspects
    BY DEF Suspects
  <1>8. QED  BY <1>1, <1>5, <1>6, <1>7 DEF behind, early, odd

LEMMA FirstOfThree ==
    ASSUME NEW a \in BOOLEAN, NEW b \in BOOLEAN, NEW c \in BOOLEAN,
           NEW x, NEW y, NEW z,
           a => x # "none", b => y # "none", c => z # "none"
    PROVE  FirstFault(<< <<a, x>>, <<b, y>>, <<c, z>> >>)
             = IF a THEN x ELSE IF b THEN y ELSE IF c THEN z ELSE "none"
  <1> DEFINE s == << <<a, x>>, <<b, y>>, <<c, z>> >>
  <1>1. /\ DOMAIN s = 1 .. 3
        /\ s[1][1] = a /\ s[1][2] = x /\ s[2][1] = b /\ s[2][2] = y
        /\ s[3][1] = c /\ s[3][2] = z
    OBVIOUS
  <1> SUFFICES FirstFault(s)
                 = IF a THEN x ELSE IF b THEN y ELSE IF c THEN z ELSE "none"
    OBVIOUS
  <1> HIDE DEF s
  <1>2. \A i \in 1 .. 3 : (i = 1 \/ i = 2 \/ i = 3) /\ (s[i][1] => s[i][2] # "none")
    BY <1>1
  <1>3. /\ FirstFault(s) = "none" <=> \A i \in 1 .. 3 : ~s[i][1]
        /\ FirstFault(s) # "none" =>
              \E i \in 1 .. 3 : /\ s[i][1] /\ FirstFault(s) = s[i][2]
                                /\ \A j \in 1 .. i - 1 : ~s[j][1]
    BY <1>1, <1>2, FirstFaultIsFirst
  <1>4. CASE FirstFault(s) = "none"
    <2>1. ~s[1][1] /\ ~s[2][1] /\ ~s[3][1]
      BY <1>3, <1>4
    <2>2. QED  BY <1>1, <1>4, <2>1
  <1>5. CASE FirstFault(s) # "none"
    <2>1. PICK i \in 1 .. 3 : /\ s[i][1] /\ FirstFault(s) = s[i][2]
                              /\ \A j \in 1 .. i - 1 : ~s[j][1]
      BY <1>3, <1>5
    <2>2. i >= 2 => ~s[1][1]
      BY <2>1
    <2>3. i >= 3 => ~s[2][1]
      BY <2>1
    <2>4. i = 1 \/ i = 2 \/ i = 3
      BY <1>2
    <2>5. QED  BY <1>1, <2>1, <2>2, <2>3, <2>4
  <1>6. QED  BY <1>4, <1>5

LEMMA CommitFaultFacts ==
    ASSUME NEW scope
    PROVE  CommitFault(scope) =
             IF scope.kind = "event" /\ pending_event_count = 0
             THEN "DeliveryOrderViolated"
             ELSE IF \E i \in DOMAIN committed_frontier :
                        ~Precedes(committed_frontier[i], scope.coordinate)
             THEN "CommittedOrderViolation"
             ELSE IF ~CanPrune(history, PrefixEndAfter(scope))
             THEN "HistoryPromisedEntryMissing" ELSE "none"
  <1> DEFINE a == scope.kind = "event" /\ pending_event_count = 0
             b == \E i \in DOMAIN committed_frontier :
                     ~Precedes(committed_frontier[i], scope.coordinate)
             c == ~CanPrune(history, PrefixEndAfter(scope))
  <1>1. a \in BOOLEAN /\ b \in BOOLEAN /\ c \in BOOLEAN
    OBVIOUS
  <1>2. CommitFault(scope)
          = FirstFault(<< <<a, "DeliveryOrderViolated">>,
                          <<b, "CommittedOrderViolation">>,
                          <<c, "HistoryPromisedEntryMissing">> >>)
    BY DEF CommitFault
  <1> HIDE DEF a, b, c
  <1>3. CommitFault(scope)
          = IF a THEN "DeliveryOrderViolated"
            ELSE IF b THEN "CommittedOrderViolation"
            ELSE IF c THEN "HistoryPromisedEntryMissing" ELSE "none"
    BY <1>1, <1>2, FirstOfThree
  <1>4. QED  BY <1>3 DEF a, b, c

LEMMA BeginFaultFacts ==
    ASSUME stage_open \in BOOLEAN
    PROVE  /\ BeginFault \notin Suspects
           /\ BeginFault = "none" => ~stage_open /\ enabled /\ active
  <1> DEFINE good == enabled /\ active /\ transport_epoch # 0
             b == ~good /\ next_sequence = MaxU64
             c == ~good
  <1>1. b \in BOOLEAN /\ c \in BOOLEAN
    OBVIOUS
  <1>2. BeginFault
          = FirstFault(<< <<stage_open, "SemanticStageAlreadyOpen">>,
                          <<b, "SequenceExhausted">>,
                          <<c, "InputTransportInactiveAtStageEntry">> >>)
    BY DEF BeginFault
  <1> HIDE DEF b, c
  <1>3. BeginFault
          = IF stage_open THEN "SemanticStageAlreadyOpen"
            ELSE IF b THEN "SequenceExhausted"
            ELSE IF c THEN "InputTransportInactiveAtStageEntry" ELSE "none"
    BY <1>1, <1>2, FirstOfThree
  <1>4. QED  BY <1>3 DEF c, Suspects, OrderFaults

LEMMA CleanupFaultFacts ==
    /\ CleanupFault = "none" =>
          /\ enabled /\ active
          /\ transport_epoch = cutoff.transport_epoch
          /\ eviction_count = cutoff.eviction_count
          /\ ~(next_sequence < cutoff.first_stage_sequence)
    /\ CleanupFault \in Suspects =>
          /\ transport_epoch = cutoff.transport_epoch
          /\ eviction_count = cutoff.eviction_count
          /\ next_sequence < cutoff.first_stage_sequence
  <1> DEFINE lost == ~(enabled /\ active)
             b1 == lost /\ next_sequence = MaxU64
             b2 == lost /\ eviction_count # cutoff.eviction_count
             b4 == transport_epoch # cutoff.transport_epoch
             b5 == eviction_count # cutoff.eviction_count
             b6 == next_sequence < cutoff.first_stage_sequence
             s  == << <<b1, "SequenceExhausted">>, <<b2, "TransportEvicted">>,
                      <<lost, "InputTransportWorkerBecameInactive">>,
                      <<b4, "InputTransportEpochChanged">>,
                      <<b5, "TransportEvicted">>,
                      <<b6, "TransportSequenceDiscontinuous">> >>
  <1>1. CleanupFault = FirstFault(s)
    BY DEF CleanupFault
  <1> HIDE DEF lost, b1, b2, b4, b5, b6
  <1>2. /\ DOMAIN s = 1 .. 6
        /\ s[1][2] = "SequenceExhausted" /\ s[2][2] = "TransportEvicted"
        /\ s[3][1] = lost /\ s[3][2] = "InputTransportWorkerBecameInactive"
        /\ s[4][1] = b4 /\ s[4][2] = "InputTransportEpochChanged"
        /\ s[5][1] = b5 /\ s[5][2] = "TransportEvicted"
        /\ s[6][1] = b6 /\ s[6][2] = "TransportSequenceDiscontinuous"
    OBVIOUS
  <1> HIDE DEF s
  <1>3. \A i \in 1 .. 6 : /\ i = 1 \/ i = 2 \/ i = 3 \/ i = 4 \/ i = 5 \/ i = 6
                          /\ s[i][2] # "none"
    BY <1>2
  <1>4. /\ FirstFault(s) = "none" <=> \A i \in 1 .. 6 : ~s[i][1]
        /\ FirstFault(s) # "none" =>
              \E i \in 1 .. 6 : /\ s[i][1] /\ FirstFault(s) = s[i][2]
                                /\ \A j \in 1 .. i - 1 : ~s[j][1]
    BY <1>2, <1>3, FirstFaultIsFirst
  <1>5. FirstFault(s) = "none" => ~lost /\ ~b4 /\ ~b5 /\ ~b6
    BY <1>2, <1>4
  <1>6. FirstFault(s) \in Suspects => ~b4 /\ ~b5 /\ b6
    <2>1. SUFFICES ASSUME FirstFault(s) \in Suspects
                   PROVE  ~b4 /\ ~b5 /\ b6
      OBVIOUS
    <2>2. PICK i \in 1 .. 6 : /\ s[i][1] /\ FirstFault(s) = s[i][2]
                              /\ \A j \in 1 .. i - 1 : ~s[j][1]
      BY <1>4, <2>1 DEF Suspects, OrderFaults
    <2>3. i = 6
      BY <1>2, <1>3, <2>1, <2>2 DEF Suspects, OrderFaults
    <2>4. ~s[4][1] /\ ~s[5][1] /\ s[6][1]
      BY <2>2, <2>3
    <2>5. QED  BY <1>2, <2>4
  <1>7. QED  BY <1>1, <1>5, <1>6 DEF lost, b4, b5, b6

LEMMA EndFaultFacts ==
    /\ EndFault = "none" => stage_open = TRUE /\ CleanupFault = "none"
    /\ EndFault \in Suspects => stage_open = TRUE /\ CleanupFault \in Suspects
  <1> DEFINE a == ~(stage_open = TRUE)
             b == ~(clock_bound /\ stage_active)
             c == CleanupFault # "none"
  <1>1. a \in BOOLEAN /\ b \in BOOLEAN /\ c \in BOOLEAN
    OBVIOUS
  <1>2. EndFault
          = FirstFault(<< <<a, "SemanticStageExitWithoutOpen">>,
                          <<b, "StageOriginUnboundAtStageExit">>,
                          <<c, CleanupFault>> >>)
    BY DEF EndFault
  <1>3. c => CleanupFault # "none"
    OBVIOUS
  <1> HIDE DEF a, b, c
  <1>4. EndFault
          = IF a THEN "SemanticStageExitWithoutOpen"
            ELSE IF b THEN "StageOriginUnboundAtStageExit"
            ELSE IF c THEN CleanupFault ELSE "none"
    BY <1>1, <1>2, <1>3, FirstOfThree
  <1>5. QED  BY <1>4 DEF a, c, Suspects, OrderFaults

LEMMA DrainFaultFacts ==
    ASSUME NEW batch, NEW status, NEW room
    PROVE  LET same  == /\ status.transport_epoch = cutoff.transport_epoch
                        /\ status.eviction_count = cutoff.eviction_count
               below == status.next_sequence < status.depth
               other == \E i \in DOMAIN batch :
                           batch[i].transport_epoch # cutoff.transport_epoch
               gap   == \E i \in DOMAIN batch :
                           batch[i].sequence # next_drain_sequence + i - 1
               last  == \E i \in DOMAIN batch : batch[i].sequence = MaxU64
               miss  == status.next_sequence - status.depth
                           # next_drain_sequence + Len(batch)
               full  == status.depth # 0 /\ Len(batch) = room
               stuck == status.depth # 0 /\ batch = <<>>
               f     == DrainFault(batch, status, room)
           IN /\ f = "none" => same /\ ~other /\ ~gap /\ ~last /\ ~full
              /\ f \in Suspects =>
                    /\ same
                    /\ below \/ gap \/ miss \/ (stuck /\ ~full)
  <1> DEFINE a1 == ~status.enabled
             a2 == ~status.active /\ status.next_sequence = MaxU64
             a3 == ~status.active /\ status.eviction_count # cutoff.eviction_count
             a4 == ~status.active
             a5 == status.transport_epoch # cutoff.transport_epoch
             a6 == status.eviction_count # cutoff.eviction_count
             b1 == status.next_sequence < status.depth
             b2 == \E i \in DOMAIN batch :
                      batch[i].transport_epoch # cutoff.transport_epoch
             b3 == \E i \in DOMAIN batch :
                      batch[i].sequence # next_drain_sequence + i - 1
             b4 == \E i \in DOMAIN batch : batch[i].sequence = MaxU64
             b5 == status.next_sequence - status.depth
                      # next_drain_sequence + Len(batch)
             b6 == status.depth # 0 /\ Len(batch) = room
             b7 == status.depth # 0 /\ batch = <<>>
             t  == << <<a1, "InputTransportWorkerBecameInactive">>,
                      <<a2, "SequenceExhausted">>, <<a3, "TransportEvicted">>,
                      <<a4, "InputTransportWorkerBecameInactive">>,
                      <<a5, "InputTransportEpochChanged">>,
                      <<a6, "TransportEvicted">> >>
             u  == << <<b1, "TransportDrainContradiction">>,
                      <<b2, "InputTransportEpochChanged">>,
                      <<b3, "TransportSequenceDiscontinuous">>,
                      <<b4, "SequenceExhausted">>,
                      <<b5, "TransportSequenceDiscontinuous">>,
                      <<b6, "UnresolvedCapacityExhausted">>,
                      <<b7, "TransportDrainContradiction">> >>
             s  == t \o u
  <1>1. DrainFault(batch, status, room) = FirstFault(s)
    BY DEF DrainFault, TransportChecks
  <1> HIDE DEF a1, a2, a3, a4, a5, a6, b1, b2, b3, b4, b5, b6, b7
  <1>2. /\ Len(t) = 6 /\ t[1] = <<a1, "InputTransportWorkerBecameInactive">>
        /\ t[2] = <<a2, "SequenceExhausted">>
        /\ t[3] = <<a3, "TransportEvicted">>
        /\ t[4] = <<a4, "InputTransportWorkerBecameInactive">>
        /\ t[5] = <<a5, "InputTransportEpochChanged">>
        /\ t[6] = <<a6, "TransportEvicted">>
        /\ Len(u) = 7
        /\ u[1] = <<b1, "TransportDrainContradiction">>
        /\ u[2] = <<b2, "InputTransportEpochChanged">>
        /\ u[3] = <<b3, "TransportSequenceDiscontinuous">>
        /\ u[4] = <<b4, "SequenceExhausted">>
        /\ u[5] = <<b5, "TransportSequenceDiscontinuous">>
        /\ u[6] = <<b6, "UnresolvedCapacityExhausted">>
        /\ u[7] = <<b7, "TransportDrainContradiction">>
    OBVIOUS
  <1> DEFINE S == {<<a1, "InputTransportWorkerBecameInactive">>,
                   <<a2, "SequenceExhausted">>, <<a3, "TransportEvicted">>,
                   <<a4, "InputTransportWorkerBecameInactive">>,
                   <<a5, "InputTransportEpochChanged">>,
                   <<a6, "TransportEvicted">>,
                   <<b1, "TransportDrainContradiction">>,
                   <<b2, "InputTransportEpochChanged">>,
                   <<b3, "TransportSequenceDiscontinuous">>,
                   <<b4, "SequenceExhausted">>,
                   <<b5, "TransportSequenceDiscontinuous">>,
                   <<b6, "UnresolvedCapacityExhausted">>,
                   <<b7, "TransportDrainContradiction">>}
  <1>3. t \in Seq(S) /\ u \in Seq(S)
    OBVIOUS
  <1> HIDE DEF t, u, S
  <1>4. /\ DOMAIN s = 1 .. 13
        /\ \A i \in 1 .. 6 : s[i] = t[i]
        /\ \A i \in 1 .. 7 : s[6 + i] = u[i]
    <2>1. /\ s \in Seq(S) /\ Len(s) = Len(t) + Len(u)
          /\ \A i \in 1 .. Len(t) : s[i] = t[i]
          /\ \A i \in 1 .. Len(u) : s[Len(t) + i] = u[i]
      BY <1>3, JoinedFacts
    <2> HIDE DEF s
    <2>2. Len(t) = 6 /\ Len(u) = 7
      BY <1>2
    <2>3. QED  BY <2>1, <2>2
  <1> HIDE DEF s
  <1>5. /\ s[1] = t[1] /\ s[2] = t[2] /\ s[3] = t[3] /\ s[4] = t[4]
        /\ s[5] = t[5] /\ s[6] = t[6] /\ s[7] = u[1] /\ s[8] = u[2]
        /\ s[9] = u[3] /\ s[10] = u[4] /\ s[11] = u[5] /\ s[12] = u[6]
        /\ s[13] = u[7]
    BY <1>4
  <1>6. \A i \in 1 .. 13 :
           \/ i = 1 \/ i = 2 \/ i = 3 \/ i = 4 \/ i = 5 \/ i = 6 \/ i = 7
           \/ i = 8 \/ i = 9 \/ i = 10 \/ i = 11 \/ i = 12 \/ i = 13
    OBVIOUS
  <1>7. \A i \in 1 .. 13 : s[i][1] => s[i][2] # "none"
    BY <1>2, <1>5, <1>6
  <1>8. /\ FirstFault(s) = "none" <=> \A i \in 1 .. 13 : ~s[i][1]
        /\ FirstFault(s) # "none" =>
              \E i \in 1 .. 13 : /\ s[i][1] /\ FirstFault(s) = s[i][2]
                                 /\ \A j \in 1 .. i - 1 : ~s[j][1]
    BY <1>4, <1>7, FirstFaultIsFirst
  <1>9. FirstFault(s) = "none" =>
           ~a5 /\ ~a6 /\ ~b2 /\ ~b3 /\ ~b4 /\ ~b6
    <2>1. SUFFICES ASSUME \A i \in 1 .. 13 : ~s[i][1]
                   PROVE  ~a5 /\ ~a6 /\ ~b2 /\ ~b3 /\ ~b4 /\ ~b6
      BY <1>8
    <2>2. /\ ~s[5][1] /\ ~s[6][1] /\ ~s[8][1] /\ ~s[9][1] /\ ~s[10][1]
          /\ ~s[12][1]
      BY <2>1
    <2>3. QED  BY <1>2, <1>5, <2>2
  <1>10. FirstFault(s) \in Suspects =>
            ~a5 /\ ~a6 /\ (b1 \/ b3 \/ b5 \/ (b7 /\ ~b6))
    <2>1. SUFFICES ASSUME FirstFault(s) \in Suspects
                   PROVE  ~a5 /\ ~a6 /\ (b1 \/ b3 \/ b5 \/ (b7 /\ ~b6))
      OBVIOUS
    <2>2. PICK i \in 1 .. 13 : /\ s[i][1] /\ FirstFault(s) = s[i][2]
                               /\ \A j \in 1 .. i - 1 : ~s[j][1]
      BY <1>8, <2>1 DEF Suspects, OrderFaults
    <2>3. i = 7 \/ i = 9 \/ i = 11 \/ i = 13
      BY <1>2, <1>5, <1>6, <2>1, <2>2 DEF Suspects, OrderFaults
    <2>4. ~s[5][1] /\ ~s[6][1] /\ (i = 13 => ~s[12][1])
      BY <2>2, <2>3
    <2>5. QED  BY <1>2, <1>5, <2>2, <2>3, <2>4
  <1>11. QED  BY <1>1, <1>9, <1>10 DEF a5, a6, b1, b2, b3, b4, b5, b6, b7

LEMMA HorizonFaultFacts ==
    ASSUME NEW b \in BOOLEAN, NEW c \in BOOLEAN
    PROVE  FirstFault(<< <<b, "TimelineProjectionDiscontinuous">>,
                         <<c, "CommitTopologyMismatch">> >>)
             = IF b THEN "TimelineProjectionDiscontinuous"
               ELSE IF c THEN "CommitTopologyMismatch" ELSE "none"
  <1> DEFINE s == << <<b, "TimelineProjectionDiscontinuous">>,
                     <<c, "CommitTopologyMismatch">> >>
  <1>1. /\ DOMAIN s = 1 .. 2 /\ s[1][1] = b /\ s[2][1] = c
        /\ s[1][2] = "TimelineProjectionDiscontinuous"
        /\ s[2][2] = "CommitTopologyMismatch"
    OBVIOUS
  <1> SUFFICES FirstFault(s)
                 = IF b THEN "TimelineProjectionDiscontinuous"
                   ELSE IF c THEN "CommitTopologyMismatch" ELSE "none"
    OBVIOUS
  <1> HIDE DEF s
  <1>2. \A i \in 1 .. 2 : (i = 1 \/ i = 2) /\ s[i][2] # "none"
    BY <1>1
  <1>3. /\ FirstFault(s) = "none" <=> \A i \in 1 .. 2 : ~s[i][1]
        /\ FirstFault(s) # "none" =>
              \E i \in 1 .. 2 : /\ s[i][1] /\ FirstFault(s) = s[i][2]
                                /\ \A j \in 1 .. i - 1 : ~s[j][1]
    BY <1>1, <1>2, FirstFaultIsFirst
  <1>4. CASE FirstFault(s) = "none"
    <2>1. ~s[1][1] /\ ~s[2][1]
      BY <1>3, <1>4
    <2>2. QED  BY <1>1, <1>4, <2>1
  <1>5. CASE FirstFault(s) # "none"
    <2>1. PICK i \in 1 .. 2 : /\ s[i][1] /\ FirstFault(s) = s[i][2]
                              /\ \A j \in 1 .. i - 1 : ~s[j][1]
      BY <1>3, <1>5
    <2>2. i = 2 => ~s[1][1]
      BY <2>1
    <2>3. i = 1 \/ i = 2
      BY <1>2
    <2>4. QED  BY <1>1, <2>1, <2>2, <2>3
  <1>6. QED  BY <1>4, <1>5

-----------------------------------------------------------------------------
LEMMA InitIInv == SchedulerInit => IInv
  <1> SUFFICES ASSUME SchedulerInit PROVE IInv
    OBVIOUS
  <1>1. Inv
    <2>1. TypeOK
      <3>1. queue \in Seq(Record) /\ Len(queue) <= Capacity
        BY EmptyType, CapacityAssumption DEF SchedulerInit
      <3>2. /\ transport_epoch \in U64 /\ next_sequence \in U64
            /\ eviction_count \in U64
            /\ published_held \in Mask /\ answer \in Answer
        BY NoAnswerType, ZeroType DEF SchedulerInit
      <3>3. enabled \in BOOLEAN /\ active \in BOOLEAN
        BY DEF SchedulerInit
      <3>4. QED  BY <3>1, <3>2, <3>3 DEF TypeOK
    <2>2. Contiguous /\ HeldChain
      BY EmptyType DEF SchedulerInit, Contiguous, HeldChain
    <2>3. QED  BY <2>1, <2>2 DEF Inv
  <1>2. /\ 0 \in U64 /\ {} \in Mask /\ 1 \in Times
    BY ZeroType, SchedulerAssumption
  <1>3. StageInv
    BY <1>2 DEF SchedulerInit, StageInv, NoCutoff
  <1>4. LinkInv
    BY DEF SchedulerInit, LinkInv, SameTransport
  <1>5. UnresolvedInv
    BY SchedulerAssumption DEF SchedulerInit, UnresolvedInv, UnresolvedType
  <1>6. ClockInv
    BY <1>2 DEF SchedulerInit, ClockInv, ClockType
  <1>7. AccountInv
    <2>1. LET h == Reset(Controls, 0, 0, {})
          IN /\ HistoryOK(h, 0) /\ h.next_sequence = 0
             /\ h.last_coordinate = <<>>
      BY <1>2, ResetHistory
    <2>2. history = Reset(Controls, 0, 0, {})
      BY DEF SchedulerInit, EmptyHistory
    <2> DEFINE h == Reset(Controls, 0, 0, {})
    <2>3. /\ history = h /\ HistoryOK(h, 0) /\ h.next_sequence = 0
          /\ h.last_coordinate = <<>>
      BY <2>1, <2>2
    <2> HIDE DEF h
    <2>4. /\ HistoryOK(history, next_delivery_sequence)
          /\ last_resolved_coordinate = history.last_coordinate
      BY <2>3 DEF SchedulerInit
    <2>5. /\ next_drain_sequence = history.next_sequence + Len(unresolved)
          /\ pending_event_count = history.next_sequence - next_delivery_sequence
      BY <2>3 DEF SchedulerInit
    <2>6. CountersType
      BY DEF SchedulerInit, CountersType, NoCounters
    <2>7. QED  BY <2>4, <2>5, <2>6 DEF AccountInv, SchedulerInit
  <1>8. history = Reset(Controls, 0, 0, {}) /\ history.next_sequence = 0
        /\ history.causal_time_floor = <<>>
    BY DEF SchedulerInit, EmptyHistory, Reset
  <1>9. PhaseInv
    BY <1>8, SchedulerAssumption DEF SchedulerInit, PhaseInv, OneKindOfScope
  <1>10. FrontierInv /\ ScopeInv
    <2>1. /\ committed_frontier = <<>> /\ outstanding_scope = <<>>
          /\ committed_frontier_is_boundary = FALSE
      BY DEF SchedulerInit
    <2>2. committed_frontier \in Seq(Coordinates) /\ Len(committed_frontier) <= 1
      BY <2>1
    <2>3. QED  BY <2>1, <2>2 DEF FrontierInv, ScopeInv
  <1>11. FloorInv
    BY <1>8 DEF FloorInv
  <1>12. FaultInv
    BY DEF SchedulerInit, FaultInv, NoOrderFault, OrderFaults
  <1>13. AnchorsInv
    BY DEF SchedulerInit, AnchorsInv
  <1>14. QED
    BY <1>1, <1>13, <1>3, <1>4, <1>5, <1>6, <1>7, <1>9, <1>10, <1>11, <1>12 DEF IInv

(* What the parts of the invariant say about numbers and times.            *)
LEMMA ChannelTypes ==
    ASSUME IInv
    PROVE  /\ queue \in Seq(Record) /\ Len(queue) \in Nat
           /\ \A i \in 1 .. Len(queue) :
                 queue[i] \in Record /\ queue[i].observed_time \in Nat
                 /\ queue[i].sequence \in Nat
           /\ transport_epoch \in Nat /\ transport_epoch <= MaxU64
           /\ next_sequence \in Nat /\ next_sequence <= MaxU64
           /\ eviction_count \in Nat /\ eviction_count <= MaxU64
           /\ published_held \in Mask /\ MaxU64 \in Nat \ {0}
           /\ cutoff.transport_epoch \in Nat
           /\ cutoff.first_stage_sequence \in Nat
           /\ cutoff.eviction_count \in Nat
  <1>1. TypeOK /\ StageInv
    BY DEF IInv, Inv
  <1>2. \A r \in Record : r.observed_time \in Times /\ r.sequence \in U64
    BY DEF Record
  <1>3. MaxU64 \in Nat \ {0} /\ Times \subseteq Nat
    BY MaxU64Assumption, TimesAssumption
  <1>4. \A n \in U64 : n \in Nat /\ n <= MaxU64
    BY <1>3 DEF U64
  <1>5. queue \in Seq(Record) /\ Len(queue) \in Nat
    BY <1>1 DEF TypeOK
  <1>6. \A i \in 1 .. Len(queue) : queue[i] \in Record
    BY <1>5
  <1>7. QED  BY <1>1, <1>2, <1>3, <1>4, <1>5, <1>6 DEF TypeOK, StageInv

LEMMA GameTypes ==
    ASSUME IInv
    PROVE  /\ unresolved \in Seq(Record) /\ Len(unresolved) \in Nat
           /\ \A i \in 1 .. Len(unresolved) :
                 unresolved[i] \in Record /\ unresolved[i].observed_time \in Nat
                 /\ unresolved[i].sequence \in Nat
           /\ Len(last_resolved_coordinate) \in Nat
           /\ Len(last_resolved_coordinate) <= 1
           /\ \A i \in 1 .. Len(last_resolved_coordinate) :
                 /\ last_resolved_coordinate[i] \in Coordinates
                 /\ last_resolved_coordinate[i].time \in Int
                 /\ last_resolved_coordinate[i].sequence \in Nat
           /\ history.next_sequence \in Nat /\ next_delivery_sequence \in Nat
           /\ next_delivery_sequence <= history.next_sequence
           /\ history.next_sequence <= MaxU64
           /\ PlayOrigin \in Nat
  <1>1. UnresolvedType /\ AccountInv
    BY DEF IInv, UnresolvedInv
  <1>2. \A r \in Record : r.observed_time \in Times /\ r.sequence \in U64
    BY DEF Record
  <1>3. Times \subseteq Nat
    BY TimesAssumption
  <1>4. \A n \in U64 : n \in Nat /\ n <= MaxU64
    BY MaxU64Assumption DEF U64
  <1>5. unresolved \in Seq(Record) /\ Len(unresolved) \in Nat
    BY <1>1 DEF UnresolvedType
  <1>6. \A i \in 1 .. Len(unresolved) : unresolved[i] \in Record
    BY <1>5
  <1>7. /\ last_resolved_coordinate \in Seq(Coordinates)
        /\ Len(last_resolved_coordinate) <= 1
        /\ history.next_sequence \in U64
        /\ next_delivery_sequence \in Nat
        /\ next_delivery_sequence <= history.next_sequence
    BY <1>1 DEF AccountInv, HistoryOK, HistoryType, Delivers
  <1>8. \A i \in 1 .. Len(last_resolved_coordinate) :
           last_resolved_coordinate[i] \in Coordinates
    BY <1>7
  <1>9. \A c \in Coordinates : c.time \in Int /\ c.sequence \in U64
    BY DEF Coordinates
  <1>10. Len(last_resolved_coordinate) \in Nat /\ PlayOrigin \in Nat
    BY <1>7, SchedulerAssumption
  <1>11. QED
    BY <1>2, <1>3, <1>4, <1>5, <1>6, <1>7, <1>8, <1>9, <1>10

LEMMA ClockTypes ==
    ASSUME ClockType
    PROVE  /\ qpc \in Nat /\ host_time \in Nat /\ Newest \in Nat /\ Newest <= qpc
           /\ sampled # <<>> =>
                 /\ Len(sampled) = 1 /\ Newest = sampled[1].time
                 /\ sampled[1].held \in Mask /\ sampled[1].time \in Times
  <1>1. /\ qpc \in Nat /\ host_time \in Nat /\ Times \subseteq Nat
    BY TimesAssumption DEF ClockType
  <1>2. CASE sampled = <<>>
    BY <1>1, <1>2 DEF Newest
  <1>3. CASE sampled # <<>>
    <2>1. Len(sampled) = 1 /\ sampled[1] \in Sampled
          /\ sampled[1].time <= qpc
      <3>1. sampled \in Seq(Sampled) /\ Len(sampled) <= 1
        BY DEF ClockType
      <3>2. Len(sampled) = 1 /\ sampled[1] \in Sampled
        BY <1>3, <3>1, OptionalFacts
      <3>3. sampled[1].time <= qpc
        BY <3>2 DEF ClockType
      <3>4. QED  BY <3>2, <3>3
    <2>2. sampled[1].held \in Mask /\ sampled[1].time \in Times
      BY <2>1 DEF Sampled
    <2>3. QED  BY <1>1, <1>3, <2>1, <2>2 DEF Newest
  <1>4. QED  BY <1>2, <1>3

-----------------------------------------------------------------------------
(* The clock. Its answers are times, and an answer to a host time is       *)
(* reached by every answer to a later one: the later time goes on from the *)
(* same anchor or from a newer one, which leads the host clock no less.    *)
LEMMA AnchorTypes ==
    ASSUME AnchorsInv
    PROVE  /\ Len(anchors) \in Nat
           /\ \A i \in 1 .. Len(anchors) :
                 /\ anchors[i].position \in Nat /\ anchors[i].qpc \in Nat
                 /\ Lead(anchors[i]) \in Int
           /\ AnchorCapacity \in Nat \ {0} /\ PlayOrigin \in Nat
  <1>1. anchors \in Seq(Anchor)
    BY DEF AnchorsInv
  <1>2. \A i \in 1 .. Len(anchors) :
           anchors[i].position \in Nat /\ anchors[i].qpc \in Nat
    <2>1. \A i \in 1 .. Len(anchors) : anchors[i] \in Anchor
      BY <1>1
    <2>2. QED  BY <2>1 DEF Anchor
  <1>3. \A i \in 1 .. Len(anchors) : Lead(anchors[i]) \in Int
    BY <1>2 DEF Lead
  <1>4. QED  BY <1>1, <1>2, <1>3, SchedulerAssumption

(* The search ends at the newest anchor at or before the time.             *)
LEMMA SearchFacts ==
    ASSUME AnchorsInv, NEW tick \in Nat, Reaching(tick) # {}
    PROVE  \E k \in 1 .. Len(anchors) :
              /\ AnchorAt(Earliest(Reaching(tick))) = anchors[k]
              /\ k > Len(anchors) - AnchorCapacity /\ anchors[k].qpc <= tick
              /\ \A j \in 1 .. Len(anchors) : anchors[j].qpc <= tick => j <= k
  <1> DEFINE n == Len(anchors)
             o == Earliest(Reaching(tick))
  <1>1. n \in Nat /\ AnchorCapacity \in Nat \ {0}
    BY AnchorTypes
  <1>2. \A i \in Reaching(tick) : i \in Nat /\ i \in 0 .. n - 1
    BY <1>1 DEF Reaching, Retained
  <1>3. o \in Reaching(tick) /\ \A j \in Reaching(tick) : o <= j
    BY <1>2, EarliestIsLeast
  <1> HIDE DEF o
  <1>4. /\ o \in 0 .. n - 1 /\ o < AnchorCapacity
        /\ anchors[n - o].qpc <= tick
    BY <1>3 DEF Reaching, Retained, AnchorAt
  <1>5. /\ n - o \in 1 .. n /\ n - o > n - AnchorCapacity
    BY <1>1, <1>4
  <1>6. ASSUME NEW j \in 1 .. n, anchors[j].qpc <= tick, j > n - o
        PROVE  FALSE
    <2>1. n - j \in 0 .. n - 1 /\ n - j < o /\ n - (n - j) = j
      BY <1>1, <1>4, <1>6
    <2>2. n - j \in Reaching(tick)
      BY <1>1, <1>4, <1>6, <2>1 DEF Reaching, Retained, AnchorAt
    <2>3. QED  BY <1>1, <1>3, <1>4, <2>1, <2>2
  <1>7. \A j \in 1 .. n : anchors[j].qpc <= tick => j <= n - o
    BY <1>1, <1>4, <1>6
  <1>8. QED  BY <1>4, <1>5, <1>7 DEF AnchorAt, o

LEMMA JudgementTimeType ==
    ASSUME AnchorsInv, NEW tick \in Nat
    PROVE  /\ JudgementTime(tick) \in Seq(Int)
           /\ JudgementTime(tick) # <<>> =>
                 /\ DOMAIN JudgementTime(tick) = 1 .. 1
                 /\ JudgementTime(tick)[1] \in Int
  <1>1. PlayOrigin \in Nat
    BY AnchorTypes
  <1>2. CASE Backend = "asio"
    BY <1>1, <1>2 DEF JudgementTime
  <1>3. CASE Backend # "asio" /\ Reaching(tick) = {}
    BY <1>3 DEF JudgementTime
  <1>4. CASE Backend # "asio" /\ Reaching(tick) # {}
    <2>1. Lead(AnchorAt(Earliest(Reaching(tick)))) \in Int
      BY <1>4, SearchFacts, AnchorTypes
    <2>2. QED  BY <1>1, <1>4, <2>1 DEF JudgementTime
  <1>5. QED  BY <1>2, <1>3, <1>4

LEMMA AnswerReached ==
    ASSUME AnchorsInv, NEW tick \in Nat, JudgementTime(tick) # <<>>
    PROVE  Reached(JudgementTime(tick)[1], tick)
  <1>1. CASE Backend = "asio"
    BY <1>1, AnchorTypes DEF Reached, JudgementTime
  <1>2. CASE Backend # "asio"
    <2>1. Reaching(tick) # {}
      BY <1>2 DEF JudgementTime
    <2>2. PICK k \in 1 .. Len(anchors) :
             /\ AnchorAt(Earliest(Reaching(tick))) = anchors[k]
             /\ anchors[k].qpc <= tick
      BY <2>1, SearchFacts
    <2>3. anchors # <<>>
      BY <2>2, AnchorTypes
    <2>4. SUFFICES ASSUME ~EndpointFellBehind, NEW later \in Nat, later >= tick,
                          NEW i \in DOMAIN JudgementTime(later)
                   PROVE  JudgementTime(tick)[1] <= JudgementTime(later)[i]
      BY <2>3 DEF Reached
    <2>5. Reaching(later) # {}
      BY <1>2, <2>4 DEF JudgementTime
    <2>6. PICK l \in 1 .. Len(anchors) :
             /\ AnchorAt(Earliest(Reaching(later))) = anchors[l]
             /\ \A j \in 1 .. Len(anchors) : anchors[j].qpc <= later => j <= l
      BY <2>5, SearchFacts
    <2>7. k <= l /\ Lead(anchors[k]) \in Int /\ Lead(anchors[l]) \in Int
      BY <2>2, <2>4, <2>6, AnchorTypes
    <2>8. Lead(anchors[k]) <= Lead(anchors[l])
      <3>1. CASE k = l
        BY <2>7, <3>1
      <3>2. CASE k < l
        <4>1. ~(Lead(anchors[l]) < Lead(anchors[k]))
          BY <2>4, <3>2 DEF EndpointFellBehind
        <4>2. QED  BY <2>7, <4>1
      <3>3. QED  BY <2>7, <3>1, <3>2, AnchorTypes
    <2>9. /\ JudgementTime(tick)[1] = tick + Lead(anchors[k]) - PlayOrigin
          /\ i = 1
          /\ JudgementTime(later)[1] = later + Lead(anchors[l]) - PlayOrigin
      BY <1>2, <2>1, <2>2, <2>4, <2>5, <2>6 DEF JudgementTime
    <2>10. QED  BY <2>4, <2>7, <2>8, <2>9, AnchorTypes
  <1>3. QED  BY <1>1, <1>2

LEMMA ReachedLater ==
    ASSUME NEW time \in Int, NEW earlier \in Int, NEW a \in Nat, NEW b \in Nat,
           earlier <= time, a <= b, Reached(time, a), AnchorsInv
    PROVE  Reached(earlier, b)
  <1>1. ASSUME NEW later \in Nat, later >= b,
               NEW i \in DOMAIN JudgementTime(later),
               time <= JudgementTime(later)[i]
        PROVE  earlier <= JudgementTime(later)[i]
    <2>1. JudgementTime(later)[i] \in Int
      BY <1>1, JudgementTimeType
    <2>2. QED  BY <1>1, <2>1
  <1>2. \A later \in Nat : later >= b => later >= a
    OBVIOUS
  <1>3. QED  BY <1>1, <1>2 DEF Reached

(* What has been reached is behind the answer to any later time.           *)
LEMMA ReachedAnswer ==
    ASSUME NEW time \in Int, NEW tick \in Nat, Reached(time, tick),
           JudgementTime(tick) # <<>>, AnchorsInv, ~EndpointFellBehind
    PROVE  time <= JudgementTime(tick)[1]
  BY JudgementTimeType DEF Reached

LEMMA ReachedSame ==
    ASSUME UNCHANGED anchors
    PROVE  /\ AnchorsInv => AnchorsInv'
           /\ EndpointFellBehind' <=> EndpointFellBehind
           /\ \A tick : JudgementTime(tick)' = JudgementTime(tick)
           /\ \A time, tick : Reached(time, tick)' <=> Reached(time, tick)
  <1>1. AnchorsInv => AnchorsInv'
    BY DEF AnchorsInv
  <1>2. EndpointFellBehind' <=> EndpointFellBehind
    BY DEF EndpointFellBehind
  <1>3. Retained' = Retained /\ \A o : AnchorAt(o)' = AnchorAt(o)
    BY DEF Retained, AnchorAt
  <1>4. ASSUME NEW tick
        PROVE  JudgementTime(tick)' = JudgementTime(tick)
    <2>1. Reaching(tick)' = Reaching(tick)
      BY <1>3 DEF Reaching
    <2>2. QED  BY <1>3, <2>1 DEF JudgementTime
  <1>5. ASSUME NEW time, NEW tick
        PROVE  Reached(time, tick)' <=> Reached(time, tick)
    BY <1>2, <1>4 DEF Reached
  <1>6. QED  BY <1>1, <1>2, <1>4, <1>5

(* A new anchor takes nothing back: where it changes an answer, the old    *)
(* answer went on from an older anchor, which led the host clock no more.  *)
LEMMA NextSearchFacts ==
    ASSUME AnchorsInv', NEW tick \in Nat, Reaching(tick)' # {}
    PROVE  \E k \in 1 .. Len(anchors') :
              /\ AnchorAt(Earliest(Reaching(tick)))' = anchors'[k]
              /\ k > Len(anchors') - AnchorCapacity /\ anchors'[k].qpc <= tick
              /\ \A j \in 1 .. Len(anchors') : anchors'[j].qpc <= tick => j <= k
  <1> DEFINE n == Len(anchors')
             o == Earliest(Reaching(tick)')
  <1>1. n \in Nat /\ AnchorCapacity \in Nat \ {0}
    BY SchedulerAssumption DEF AnchorsInv
  <1>2. \A i \in Reaching(tick)' : i \in Nat /\ i \in 0 .. n - 1
    BY <1>1 DEF Reaching, Retained
  <1>3. o \in Reaching(tick)' /\ \A j \in Reaching(tick)' : o <= j
    BY <1>2, EarliestIsLeast
  <1> HIDE DEF o
  <1>4. /\ o \in 0 .. n - 1 /\ o < AnchorCapacity
        /\ anchors'[n - o].qpc <= tick
    BY <1>3 DEF Reaching, Retained, AnchorAt
  <1>5. /\ n - o \in 1 .. n /\ n - o > n - AnchorCapacity
    BY <1>1, <1>4
  <1>6. ASSUME NEW j \in 1 .. n, anchors'[j].qpc <= tick, j > n - o
        PROVE  FALSE
    <2>1. n - j \in 0 .. n - 1 /\ n - j < o /\ n - (n - j) = j
      BY <1>1, <1>4, <1>6
    <2>2. n - j \in Reaching(tick)'
      BY <1>1, <1>4, <1>6, <2>1 DEF Reaching, Retained, AnchorAt
    <2>3. QED  BY <1>1, <1>3, <1>4, <2>1, <2>2
  <1>7. \A j \in 1 .. n : anchors'[j].qpc <= tick => j <= n - o
    BY <1>1, <1>4, <1>6
  <1>8. AnchorAt(Earliest(Reaching(tick)))' = anchors'[n - o]
    BY DEF AnchorAt, o
  <1>9. QED  BY <1>4, <1>5, <1>7, <1>8

LEMMA AnchorAppended ==
    ASSUME AnchorsInv, NEW tick \in Nat, NEW position \in Nat,
           PublishAnchor(tick, position)
    PROVE  /\ AnchorsInv' /\ Backend # "asio"
           /\ Len(anchors') = Len(anchors) + 1
           /\ \A i \in 1 .. Len(anchors) : anchors'[i] = anchors[i]
           /\ Len(anchors) > 0 => anchors[Len(anchors)].qpc <= tick
           /\ anchors'[Len(anchors')].qpc = tick
  <1> DEFINE n == Len(anchors)
             anchor == [position |-> position, qpc |-> tick]
  <1>1. /\ anchors \in Seq(Anchor) /\ n \in Nat
        /\ \A i \in 1 .. n : anchors[i].qpc \in Nat
        /\ \A i, j \in 1 .. n : i <= j => anchors[i].qpc <= anchors[j].qpc
    BY AnchorTypes DEF AnchorsInv
  <1>2. /\ anchors' = Append(anchors, anchor) /\ Backend # "asio"
        /\ n > 0 => anchors[n].qpc <= tick
    BY <1>1 DEF PublishAnchor, AnchorAt
  <1>3. anchor \in Anchor /\ anchor.qpc = tick
    BY DEF Anchor
  <1> HIDE DEF anchor
  <1>4. /\ anchors' \in Seq(Anchor) /\ Len(anchors') = n + 1
        /\ \A i \in 1 .. n : anchors'[i] = anchors[i]
        /\ anchors'[n + 1] = anchor
    BY <1>1, <1>2, <1>3
  <1>5. ASSUME NEW i \in 1 .. n + 1, NEW j \in 1 .. n + 1, i <= j
        PROVE  anchors'[i].qpc <= anchors'[j].qpc
    <2>1. CASE j \in 1 .. n
      BY <1>1, <1>4, <1>5, <2>1
    <2>2. CASE j = n + 1 /\ i \in 1 .. n
      <3>1. anchors[i].qpc <= anchors[n].qpc /\ anchors[n].qpc <= tick
        BY <1>1, <1>2, <2>2
      <3>2. QED  BY <1>1, <1>3, <1>4, <2>2, <3>1
    <2>3. CASE j = n + 1 /\ i = n + 1
      BY <1>3, <1>4, <2>3
    <2>4. QED  BY <1>1, <2>1, <2>2, <2>3
  <1>6. AnchorsInv'
    BY <1>4, <1>5 DEF AnchorsInv
  <1>7. QED  BY <1>1, <1>2, <1>3, <1>4, <1>6

LEMMA ReachedKept ==
    ASSUME AnchorsInv, NEW tick \in Nat, NEW position \in Nat,
           PublishAnchor(tick, position)
    PROVE  /\ EndpointFellBehind => EndpointFellBehind'
           /\ \A time \in Int, since \in Nat :
                 Reached(time, since) => Reached(time, since)'
  <1>1. /\ AnchorsInv' /\ Backend # "asio"
        /\ Len(anchors') = Len(anchors) + 1
        /\ \A i \in 1 .. Len(anchors) : anchors'[i] = anchors[i]
        /\ Len(anchors) > 0 => anchors[Len(anchors)].qpc <= tick
        /\ anchors'[Len(anchors')].qpc = tick
    BY AnchorAppended
  <1> DEFINE n == Len(anchors)
  <1>2. /\ n \in Nat
        /\ \A i \in 1 .. n : anchors[i].qpc \in Nat /\ Lead(anchors[i]) \in Int
        /\ DOMAIN anchors = 1 .. n /\ DOMAIN anchors' = 1 .. n + 1
        /\ AnchorCapacity \in Nat \ {0} /\ PlayOrigin \in Nat
    BY <1>1, AnchorTypes DEF AnchorsInv
  <1>3. \A k \in 1 .. n + 1 : Lead(anchors'[k]) \in Int
    <2>1. ASSUME NEW k \in 1 .. n + 1
          PROVE  anchors'[k] \in Anchor
      BY <1>1, <1>2 DEF AnchorsInv
    <2>2. QED  BY <2>1 DEF Anchor, Lead
  <1>4. EndpointFellBehind => EndpointFellBehind'
    BY <1>1, <1>2 DEF EndpointFellBehind
  <1>5. ASSUME NEW time \in Int, NEW since \in Nat, Reached(time, since)
        PROVE  Reached(time, since)'
    <2>1. CASE EndpointFellBehind
      BY <1>4, <2>1 DEF Reached
    <2>2. CASE ~EndpointFellBehind
      <3>1. /\ anchors # <<>> /\ n > 0
            /\ \A later \in Nat :
                  later >= since =>
                     \A i \in DOMAIN JudgementTime(later) :
                        time <= JudgementTime(later)[i]
        BY <1>1, <1>2, <1>5, <2>2 DEF Reached
      <3>2. anchors' # <<>>
        BY <1>1, <1>2
      <3>3. SUFFICES ASSUME ~EndpointFellBehind', NEW later \in Nat,
                            later >= since, NEW i \in DOMAIN JudgementTime(later)'
                     PROVE  time <= JudgementTime(later)'[i]
        BY <3>2 DEF Reached
      <3>4. Reaching(later)' # {}
        BY <1>1, <3>3 DEF JudgementTime
      <3>5. PICK k \in 1 .. Len(anchors') :
               /\ AnchorAt(Earliest(Reaching(later)))' = anchors'[k]
               /\ k > Len(anchors') - AnchorCapacity
               /\ anchors'[k].qpc <= later
               /\ \A j \in 1 .. Len(anchors') : anchors'[j].qpc <= later => j <= k
        BY <1>1, <3>4, NextSearchFacts
      <3>6. Reaching(later) # {}
        <4>1. CASE k \in 1 .. n
          <5>1. n - k \in Retained /\ AnchorAt(n - k) = anchors[k]
            BY <1>1, <1>2, <3>5, <4>1 DEF Retained, AnchorAt
          <5>2. QED  BY <1>1, <3>5, <4>1, <5>1 DEF Reaching
        <4>2. CASE k = n + 1
          <5>1. 0 \in Retained /\ AnchorAt(0) = anchors[n]
            BY <1>2, <3>1 DEF Retained, AnchorAt
          <5>2. anchors[n].qpc <= later
            BY <1>1, <1>2, <3>1, <3>5, <4>2
          <5>3. QED  BY <5>1, <5>2 DEF Reaching
        <4>3. QED  BY <1>1, <1>2, <4>1, <4>2
      <3>7. PICK l \in 1 .. n :
               /\ AnchorAt(Earliest(Reaching(later))) = anchors[l]
               /\ anchors[l].qpc <= later
        BY <3>6, SearchFacts
      <3>8. l <= k /\ anchors'[l] = anchors[l] /\ l \in 1 .. n + 1
        BY <1>1, <1>2, <3>5, <3>7
      <3>9. Lead(anchors[l]) <= Lead(anchors'[k])
        <4>1. CASE l = k
          BY <1>2, <3>7, <3>8, <4>1
        <4>2. CASE l < k
          <5>1. ~(Lead(anchors'[k]) < Lead(anchors'[l]))
            BY <1>1, <1>2, <3>3, <3>5, <3>8, <4>2 DEF EndpointFellBehind
          <5>2. QED  BY <1>1, <1>2, <1>3, <3>5, <3>7, <3>8, <5>1
        <4>3. QED  BY <1>1, <1>2, <3>5, <3>7, <3>8, <4>1, <4>2
      <3>10. /\ JudgementTime(later)
                   = <<later + Lead(anchors[l]) - PlayOrigin>>
             /\ JudgementTime(later)'
                   = <<later + Lead(anchors'[k]) - PlayOrigin>>
        BY <1>1, <3>4, <3>5, <3>6, <3>7 DEF JudgementTime
      <3>11. time <= later + Lead(anchors[l]) - PlayOrigin
        BY <3>1, <3>3, <3>10
      <3>12. i = 1
        BY <3>3, <3>10
      <3>13. QED  BY <1>1, <1>2, <1>3, <3>5, <3>7, <3>9, <3>10, <3>11, <3>12
    <2>3. QED  BY <2>1, <2>2
  <1>6. QED  BY <1>4, <1>5

(* The clock order survives a later clock.                                 *)
LEMMA LaterClock ==
    ASSUME IInv, ClockType', Newest \in Nat, Newest' \in Nat, Newest <= Newest',
           UNCHANGED <<unresolved, last_resolved_coordinate, anchors>>,
           UNCHANGED queue \/ queue' = <<>>
    PROVE  ClockInv'
  <1>1. ClockInv
    BY DEF IInv
  <1> HIDE DEF Newest
  <1>2. /\ \A i \in 1 .. Len(queue) : queue[i].observed_time <= Newest'
        /\ \A i \in 1 .. Len(unresolved) : unresolved[i].observed_time <= Newest'
    <2>1. /\ \A i \in 1 .. Len(queue) : queue[i].observed_time <= Newest
          /\ \A i \in 1 .. Len(unresolved) : unresolved[i].observed_time <= Newest
      BY <1>1 DEF ClockInv
    <2>2. /\ \A i \in 1 .. Len(queue) : queue[i].observed_time \in Nat
          /\ \A i \in 1 .. Len(unresolved) : unresolved[i].observed_time \in Nat
      BY ChannelTypes, GameTypes
    <2>3. QED  BY <2>1, <2>2
  <1>3. ASSUME NEW k \in 1 .. Len(last_resolved_coordinate)
        PROVE  LET time == last_resolved_coordinate[k].time
               IN (/\ Reached(time, Newest)
                   /\ \A i \in 1 .. Len(unresolved) :
                         Reached(time, unresolved[i].observed_time)
                   /\ \A i \in 1 .. Len(queue) :
                         Reached(time, queue[i].observed_time))'
    <2> DEFINE time == last_resolved_coordinate[k].time
    <2>1. /\ Reached(time, Newest)
          /\ \A i \in 1 .. Len(unresolved) :
                Reached(time, unresolved[i].observed_time)
          /\ \A i \in 1 .. Len(queue) : Reached(time, queue[i].observed_time)
      BY <1>1 DEF ClockInv
    <2>2. time \in Int /\ AnchorsInv
      BY GameTypes DEF IInv
    <2>3. Reached(time, Newest')
      BY <2>1, <2>2, ReachedLater
    <2>4. QED  BY <2>1, <2>3, ReachedSame
  <1>4. QED  BY <1>1, <1>2, <1>3 DEF ClockInv

LEMMA ClockSame ==
    ASSUME IInv,
           UNCHANGED <<qpc, anchors, sampled, host_time, unresolved,
                       last_resolved_coordinate>>,
           UNCHANGED queue \/ queue' = <<>>
    PROVE  ClockInv' /\ AnchorsInv'
  <1>1. ClockType /\ AnchorsInv
    BY DEF IInv, ClockInv
  <1>2. ClockType' /\ Newest' = Newest
    BY <1>1 DEF ClockType, Newest
  <1>3. Newest \in Nat
    BY <1>1, ClockTypes
  <1>4. Newest' \in Nat /\ Newest <= Newest'
    BY <1>2, <1>3
  <1>5. ClockInv'
    BY <1>2, <1>3, <1>4, LaterClock
  <1>6. QED  BY <1>1, <1>5, ReachedSame

(* The parts about the game's own state hold while that state stays and    *)
(* the clock takes nothing back.                                           *)
KeepsReached ==
    \A time \in Int, since \in Nat : Reached(time, since) => Reached(time, since)'

LEMMA ReachedTypes ==
    ASSUME IInv
    PROVE  /\ host_time \in Nat
           /\ outer_horizon # <<>> => outer_horizon[1] \in Int
           /\ committed_frontier # <<>> =>
                 /\ committed_frontier[1].time \in Int
                 /\ committed_frontier[1] \in Coordinates
           /\ outstanding_scope # <<>> =>
                 outstanding_scope[1].coordinate.time \in Int
  <1>1. host_time \in Nat
    BY ClockTypes DEF IInv, ClockInv
  <1>2. outer_horizon # <<>> => outer_horizon[1] \in Int
    BY OptionalFacts DEF IInv, PhaseInv
  <1>3. committed_frontier # <<>> => committed_frontier[1] \in Coordinates
    BY OptionalFacts DEF IInv, FrontierInv
  <1>4. outstanding_scope # <<>> =>
           outstanding_scope[1].coordinate \in Coordinates
    BY DEF IInv, ScopeInv, ScopeOut
  <1>5. \A c \in Coordinates : c.time \in Int
    BY DEF Coordinates
  <1>6. QED  BY <1>1, <1>2, <1>3, <1>4, <1>5

LEMMA GameKept ==
    ASSUME IInv, UNCHANGED gameVars, KeepsReached
    PROVE  /\ UnresolvedInv' /\ AccountInv' /\ PhaseInv' /\ FrontierInv'
           /\ FloorInv' /\ ScopeInv'
  <1>1. UNCHANGED <<phase, host_time, stage_open, clock_bound, stage_active,
                    cutoff, unresolved, history, next_drain_sequence,
                    next_delivery_sequence, pending_event_count>>
    BY DEF gameVars, stageVars, recordVars
  <1>2. UNCHANGED <<marked_overload_count, last_resolved_coordinate, counters,
                    committed_frontier, committed_frontier_is_boundary,
                    committed_boundary_index, drained_at_frontier>>
    BY DEF gameVars, recordVars, commitVars
  <1>3. UNCHANGED <<outer_horizon, outstanding_scope, outer_event_scope_count,
                    outer_heartbeat_scope_count>>
    BY DEF gameVars, outerVars
  <1>4. UnresolvedInv'
    BY <1>1 DEF IInv, UnresolvedInv, UnresolvedType
  <1>5. AccountInv'
    BY <1>1, <1>2 DEF IInv, AccountInv, CountersType, Classified
  <1>6. PhaseInv'
    <2>1. outer_horizon # <<>> => Reached(outer_horizon[1], host_time)'
      BY <1>1, <1>3, ReachedTypes DEF IInv, PhaseInv, KeepsReached
    <2>2. QED  BY <1>1, <1>2, <1>3, <2>1 DEF IInv, PhaseInv, OneKindOfScope
  <1>7. FrontierInv'
    <2>1. committed_frontier # <<>> =>
             Reached(committed_frontier[1].time, host_time)'
      BY <1>1, <1>2, ReachedTypes DEF IInv, FrontierInv, KeepsReached
    <2>2. QED  BY <1>1, <1>2, <1>3, <2>1 DEF IInv, FrontierInv, NextBoundary
  <1>8. FloorInv'
    BY <1>1, <1>2 DEF IInv, FloorInv
  <1>9. ScopeInv'
    <2>1. outstanding_scope # <<>> =>
             Reached(outstanding_scope[1].coordinate.time, host_time)'
      BY <1>1, <1>3, ReachedTypes DEF IInv, ScopeInv, ScopeOut, KeepsReached
    <2>2. QED
      BY <1>1, <1>2, <1>3, <2>1 DEF IInv, ScopeInv, ScopeOut, NextBoundary,
         DeliveryAfter
  <1>10. QED
    BY <1>4, <1>5, <1>6, <1>7, <1>8, <1>9

LEMMA SameKeeps ==
    ASSUME UNCHANGED anchors
    PROVE  KeepsReached /\ (AnchorsInv => AnchorsInv')
  BY ReachedSame DEF KeepsReached

LEMMA NoFault ==
    ASSUME Alive, UNCHANGED fatal
    PROVE  FaultInv'
  BY DEF Alive, FaultInv, NoOrderFault, OrderFaults

(* A step of the worker or of the clock leaves the game's own state alone. *)
LEMMA GameUntouched ==
    ASSUME IInv, Alive, UNCHANGED gameVars, UNCHANGED fatal, UNCHANGED anchors
    PROVE  /\ UnresolvedInv' /\ AccountInv' /\ PhaseInv' /\ FrontierInv'
           /\ FloorInv' /\ ScopeInv' /\ FaultInv' /\ AnchorsInv'
  <1>1. KeepsReached /\ AnchorsInv'
    BY SameKeeps DEF IInv
  <1>2. QED  BY <1>1, GameKept, NoFault

LEMMA TickStep ==
    ASSUME IInv, Alive, NEW tick \in Times, Tick(tick)
    PROVE  IInv'
  <1>1. /\ UNCHANGED <<vars, anchors, sampled, gameVars, fatal>>
        /\ qpc' = tick /\ tick > qpc
    BY DEF Tick, workerVars
  <1>2. UNCHANGED <<queue, transport_epoch, next_sequence, eviction_count,
                    enabled, active, published_held, answer>>
    BY <1>1 DEF vars
  <1>3. UNCHANGED <<host_time, stage_open, clock_bound, stage_active, cutoff,
                    unresolved, history, next_drain_sequence,
                    last_resolved_coordinate>>
    BY <1>1 DEF gameVars, stageVars, recordVars
  <1>4. Inv'
    BY <1>2 DEF IInv, Inv, TypeOK, Contiguous, HeldChain
  <1>5. StageInv'
    BY <1>2, <1>3 DEF IInv, StageInv
  <1>6. LinkInv'
    BY <1>2, <1>3 DEF IInv, LinkInv, SameTransport, Handover
  <1>7. ClockInv'
    <2>1. ClockType
      BY DEF IInv, ClockInv
    <2>2. qpc \in Nat /\ host_time \in Nat /\ tick \in Nat /\ Newest \in Nat
      BY <2>1, ClockTypes, TimesAssumption
    <2>3. ClockType'
      <3>1. \A i \in 1 .. Len(sampled) : sampled[i].time \in Nat
        <4>1. sampled \in Seq(Sampled)
          BY <2>1 DEF ClockType
        <4>2. \A i \in 1 .. Len(sampled) : sampled[i] \in Sampled
          BY <4>1
        <4>3. QED  BY <4>2, TimesAssumption DEF Sampled
      <3>2. host_time <= tick /\ \A i \in 1 .. Len(sampled) : sampled[i].time <= tick
        BY <1>1, <2>1, <2>2, <3>1 DEF ClockType
      <3>3. QED  BY <1>1, <1>3, <2>1, <3>2 DEF ClockType
    <2>4. Newest' \in Nat /\ Newest <= Newest'
      BY <1>1, <2>1, <2>2, ClockTypes DEF Newest
    <2>5. QED  BY <1>1, <1>2, <1>3, <2>2, <2>3, <2>4, LaterClock
  <1>8. QED  BY <1>1, <1>4, <1>5, <1>6, <1>7, GameUntouched DEF IInv

(* Once the transport has lost a record or its epoch, it stays another one.*)
LEMMA LostTransport ==
    ASSUME IInv, UNCHANGED <<stage_open, cutoff>>,
           \/ transport_epoch' > transport_epoch /\ transport_epoch' \in Nat
           \/ eviction_count' = Evicted(eviction_count)
    PROVE  ~SameTransport'
  <1>1. /\ stage_open => /\ cutoff.transport_epoch <= transport_epoch
                         /\ cutoff.eviction_count <= eviction_count
        /\ transport_epoch \in Nat /\ eviction_count \in Nat
        /\ eviction_count <= MaxU64 /\ MaxU64 \in Nat
        /\ cutoff.transport_epoch \in Nat /\ cutoff.eviction_count \in Nat
    BY ChannelTypes DEF IInv, StageInv
  <1>2. CASE transport_epoch' > transport_epoch /\ transport_epoch' \in Nat
    BY <1>1, <1>2 DEF SameTransport
  <1>3. CASE eviction_count' = Evicted(eviction_count)
    BY <1>1, <1>3 DEF SameTransport, Evicted
  <1>4. QED  BY <1>2, <1>3

LEMMA GameSame ==
    ASSUME UNCHANGED gameVars
    PROVE  UNCHANGED <<host_time, stage_open, clock_bound, stage_active, cutoff,
                       unresolved, history, next_drain_sequence,
                       last_resolved_coordinate>>
  BY DEF gameVars, stageVars, recordVars

LEMMA PublishAnchorStep ==
    ASSUME IInv, Alive, NEW tick \in Times, NEW position \in Positions,
           PublishAnchor(tick, position)
    PROVE  IInv'
  <1>1. UNCHANGED <<vars, qpc, sampled, gameVars, fatal>>
    BY DEF PublishAnchor, workerVars
  <1>2. UNCHANGED <<queue, transport_epoch, next_sequence, eviction_count,
                    enabled, active, published_held, answer>>
    BY <1>1 DEF vars
  <1>3. UNCHANGED <<host_time, stage_open, clock_bound, stage_active, cutoff,
                    unresolved, history, next_drain_sequence,
                    last_resolved_coordinate>>
    BY <1>1, GameSame
  <1>4. tick \in Nat /\ position \in Nat /\ AnchorsInv
    BY TimesAssumption, SchedulerAssumption DEF IInv
  <1>5. AnchorsInv' /\ KeepsReached
    BY <1>4, AnchorAppended, ReachedKept DEF KeepsReached
  <1>6. Inv'
    BY <1>2 DEF IInv, Inv, TypeOK, Contiguous, HeldChain
  <1>7. StageInv' /\ LinkInv'
    BY <1>2, <1>3 DEF IInv, StageInv, LinkInv, SameTransport, Handover
  <1>8. ClockInv'
    <2>1. ClockType' /\ Newest' = Newest
      BY <1>1, <1>3 DEF IInv, ClockInv, ClockType, Newest
    <2>2. ASSUME NEW k \in 1 .. Len(last_resolved_coordinate)
          PROVE  LET time == last_resolved_coordinate[k].time
                 IN (/\ Reached(time, Newest)
                     /\ \A i \in 1 .. Len(unresolved) :
                           Reached(time, unresolved[i].observed_time)
                     /\ \A i \in 1 .. Len(queue) :
                           Reached(time, queue[i].observed_time))'
      <3> DEFINE time == last_resolved_coordinate[k].time
      <3>1. /\ Reached(time, Newest)
            /\ \A i \in 1 .. Len(unresolved) :
                  Reached(time, unresolved[i].observed_time)
            /\ \A i \in 1 .. Len(queue) : Reached(time, queue[i].observed_time)
        BY DEF IInv, ClockInv
      <3>2. time \in Int /\ Newest \in Nat
        BY GameTypes, ClockTypes DEF IInv, ClockInv
      <3>3. /\ \A i \in 1 .. Len(unresolved) :
                  unresolved[i].observed_time \in Nat
            /\ \A i \in 1 .. Len(queue) : queue[i].observed_time \in Nat
        BY ChannelTypes, GameTypes
      <3>4. QED
        BY <1>2, <1>3, <1>5, <2>1, <3>1, <3>2, <3>3 DEF KeepsReached
    <2>3. QED  BY <1>2, <1>3, <2>1, <2>2 DEF IInv, ClockInv
  <1>9. QED
    BY <1>1, <1>5, <1>6, <1>7, <1>8, GameKept, NoFault DEF IInv

LEMMA StageStays ==
    ASSUME IInv, UNCHANGED <<stage_open, clock_bound, stage_active, cutoff>>,
           transport_epoch' \in Nat, transport_epoch <= transport_epoch',
           eviction_count' \in Nat, eviction_count <= eviction_count'
    PROVE  StageInv'
  BY ChannelTypes DEF IInv, StageInv

LEMMA EvictedGrows ==
    ASSUME NEW n \in Nat
    PROVE  Evicted(n) \in Nat /\ n <= Evicted(n)
  BY DEF Evicted

LEMMA WorkerStartsStep ==
    ASSUME IInv, Alive, WorkerStarts
    PROVE  IInv'
  <1>1. UNCHANGED <<qpc, anchors, sampled, gameVars, fatal>> /\ Begin({})
    BY DEF WorkerStarts, clockVars
  <1>2. UNCHANGED <<host_time, stage_open, clock_bound, stage_active, cutoff,
                    unresolved, history, next_drain_sequence,
                    last_resolved_coordinate>>
    BY <1>1, GameSame
  <1>3. Inv'
    <2>1. Next
      BY <1>1, ZeroType DEF Next
    <2>2. QED  BY <2>1, NextInv DEF IInv
  <1>4. /\ queue' = <<>>
        /\ \/ /\ transport_epoch' = transport_epoch
              /\ eviction_count' = Evicted(eviction_count)
           \/ /\ transport_epoch' = transport_epoch + 1
              /\ eviction_count' = eviction_count
    BY <1>1 DEF Begin
  <1>5. transport_epoch \in Nat /\ eviction_count \in Nat
    BY ChannelTypes
  <1>6. StageInv'
    <2>1. /\ transport_epoch' \in Nat /\ transport_epoch <= transport_epoch'
          /\ eviction_count' \in Nat /\ eviction_count <= eviction_count'
      <3>1. Evicted(eviction_count) \in Nat
            /\ eviction_count <= Evicted(eviction_count)
        BY <1>5, EvictedGrows
      <3>2. QED  BY <1>4, <1>5, <3>1
    <2>2. QED  BY <1>2, <2>1, StageStays
  <1>7. ~SameTransport'
    BY <1>2, <1>4, <1>5, LostTransport
  <1>8. ClockInv'
    BY <1>1, <1>2, <1>4, ClockSame
  <1>9. QED
    BY <1>1, <1>3, <1>6, <1>7, <1>8, GameUntouched DEF IInv, LinkInv

LEMMA SampleStep ==
    ASSUME IInv, Alive, NEW held \in Mask, Sample(held)
    PROVE  IInv'
  <1>1. /\ UNCHANGED <<vars, qpc, anchors, gameVars, fatal>>
        /\ sampled = <<>> /\ sampled' = <<[held |-> held, time |-> qpc]>>
    BY DEF Sample, clockVars
  <1>2. UNCHANGED <<host_time, stage_open, clock_bound, stage_active, cutoff,
                    unresolved, history, next_drain_sequence,
                    last_resolved_coordinate>>
    BY <1>1, GameSame
  <1>3. UNCHANGED <<queue, transport_epoch, next_sequence, eviction_count,
                    enabled, active, published_held, answer>>
    BY <1>1 DEF vars
  <1>4. Inv'
    BY <1>3 DEF IInv, Inv, TypeOK, Contiguous, HeldChain
  <1>5. StageInv' /\ LinkInv'
    BY <1>2, <1>3 DEF IInv, StageInv, LinkInv, SameTransport, Handover
  <1>6. ClockInv'
    <2> DEFINE x == [held |-> held, time |-> qpc]
    <2>1. ClockType /\ qpc \in Nat /\ Newest = qpc
      BY <1>1, ClockTypes DEF IInv, ClockInv, Newest
    <2>2. x \in Sampled /\ x.time = qpc
      BY <2>1 DEF ClockType, Sampled
    <2>3. sampled' = <<x>>
      BY <1>1
    <2> HIDE DEF x
    <2>4. sampled' \in Seq(Sampled) /\ Len(sampled') = 1 /\ sampled'[1] = x
          /\ sampled' # <<>>
      BY <2>2, <2>3
    <2>5. ClockType'
      BY <1>1, <1>2, <2>1, <2>2, <2>4 DEF ClockType
    <2>6. Newest' = qpc
      BY <2>2, <2>4 DEF Newest
    <2>7. QED  BY <1>1, <1>2, <1>3, <2>1, <2>5, <2>6, LaterClock
  <1>7. QED  BY <1>1, <1>4, <1>5, <1>6, GameUntouched DEF IInv

LEMMA WorkerStopsStep ==
    ASSUME IInv, Alive, WorkerStops
    PROVE  IInv'
  <1>1. UNCHANGED <<qpc, anchors, sampled, gameVars, fatal>> /\ End
    BY DEF WorkerStops, clockVars
  <1>2. UNCHANGED <<host_time, stage_open, clock_bound, stage_active, cutoff,
                    unresolved, history, next_drain_sequence,
                    last_resolved_coordinate>>
    BY <1>1, GameSame
  <1>3. UNCHANGED <<queue, transport_epoch, next_sequence, eviction_count,
                    published_held>>
    BY <1>1 DEF End
  <1>4. Inv'
    BY <1>1, NextInv DEF IInv, Next
  <1>5. StageInv' /\ LinkInv'
    BY <1>2, <1>3 DEF IInv, StageInv, LinkInv, SameTransport, Handover
  <1>6. ClockInv'
    BY <1>1, <1>2, <1>3, ClockSame
  <1>7. QED  BY <1>1, <1>4, <1>5, <1>6, GameUntouched DEF IInv

LEMMA PublishSampledStep ==
    ASSUME IInv, Alive, PublishSampled
    PROVE  IInv'
  <1> DEFINE next == sampled[1].held
             time == sampled[1].time
  <1>1. /\ UNCHANGED <<qpc, anchors, gameVars, fatal>>
        /\ sampled # <<>> /\ sampled' = <<>>
        /\ Publish(published_held, next, time)
    BY DEF PublishSampled, clockVars
  <1>2. UNCHANGED <<host_time, stage_open, clock_bound, stage_active, cutoff,
                    unresolved, history, next_drain_sequence,
                    last_resolved_coordinate>>
    BY <1>1, GameSame
  <1>3. /\ ClockType /\ next \in Mask /\ time \in Times /\ Newest = time
        /\ qpc \in Nat /\ host_time \in Nat /\ Newest \in Nat /\ Newest <= qpc
    BY <1>1, ClockTypes DEF IInv, ClockInv
  <1> HIDE DEF next, time
  <1>4. Inv'
    <2>1. Next
      BY <1>1, <1>3 DEF Next
    <2>2. QED  BY <2>1, NextInv DEF IInv
  <1>5. ClockType' /\ Newest' = qpc
    BY <1>1, <1>2, <1>3 DEF ClockType, Newest
  <1> HIDE DEF Newest
  <1>6. transport_epoch' = transport_epoch /\ transport_epoch \in Nat
        /\ eviction_count \in Nat
    BY <1>1, ChannelTypes DEF Publish, PublishExhausted, PublishRecord
  <1>7. CASE PublishExhausted
    <2>1. UNCHANGED queue /\ eviction_count' = Evicted(eviction_count)
      BY <1>7 DEF PublishExhausted
    <2>2. StageInv'
      BY <1>2, <1>6, <2>1, EvictedGrows, StageStays
    <2>3. ~SameTransport'
      BY <1>2, <2>1, LostTransport
    <2>4. ClockInv'
      BY <1>1, <1>2, <1>3, <1>5, <2>1, LaterClock
    <2>5. QED
      BY <1>1, <1>4, <2>2, <2>3, <2>4, GameUntouched DEF IInv, LinkInv
  <1>8. CASE PublishRecord(published_held, next, time)
    <2> DEFINE rec == NewRecord(published_held, next, time)
               d == IF Len(queue) = Capacity THEN 1 ELSE 0
    <2>1. /\ rec.observed_time = time /\ rec.held_before = published_held
          /\ rec.held_after = next
      BY DEF NewRecord
    <2>2. rec \in Record
      BY <1>3, ZeroType DEF IInv, Inv, TypeOK, NewRecord, Record
    <2>3. /\ Len(queue') = Len(queue) - d + 1
          /\ \A i \in 1 .. Len(queue') - 1 : queue'[i] = queue[i + d]
          /\ queue'[Len(queue')] = rec
      BY <1>8, <2>2, RoomThenAppend DEF PublishRecord, IInv, Inv, TypeOK
    <2>4. /\ Len(queue) \in Nat /\ d \in 0 .. 1 /\ d <= Len(queue)
          /\ Len(queue') \in Nat /\ queue \in Seq(Record)
      BY <2>3, CapacityAssumption, ChannelTypes
    <2>5. /\ eviction_count' = IF d = 1 THEN Evicted(eviction_count)
                                        ELSE eviction_count
          /\ next_sequence' = next_sequence + 1 /\ published_held' = next
      BY <1>8 DEF PublishRecord
    <2> HIDE DEF rec, d
    <2>6. StageInv'
      BY <1>2, <1>6, <2>5, EvictedGrows, StageStays
    <2>7. LinkInv'
      <3>1. SUFFICES ASSUME SameTransport'
                     PROVE  /\ next_sequence' = next_drain_sequence' + Len(queue')
                            /\ Handover' = IF queue' = <<>> THEN published_held'
                                           ELSE queue'[1].held_before
        BY DEF LinkInv
      <3>2. d = 0
        BY <1>2, <2>4, <2>5, <3>1, LostTransport
      <3>3. SameTransport
        BY <1>2, <1>6, <2>5, <3>1, <3>2 DEF SameTransport
      <3>4. /\ next_sequence = next_drain_sequence + Len(queue)
            /\ Handover = IF queue = <<>> THEN published_held
                                          ELSE queue[1].held_before
        BY <3>3 DEF IInv, LinkInv
      <3>5. next_sequence' = next_drain_sequence' + Len(queue')
        <4>1. /\ next_drain_sequence' = next_drain_sequence
              /\ Len(queue') = Len(queue) + 1
              /\ next_drain_sequence \in Nat
          BY <1>2, <2>3, <2>4, <3>2, GameTypes DEF IInv, AccountInv
        <4>2. QED  BY <4>1, <2>4, <2>5, <3>4
      <3>6. Handover' = Handover
        BY <1>2 DEF Handover
      <3>7. queue' # <<>>
        BY <2>3, <2>4, <3>2
      <3>8. CASE queue = <<>>
        <4>1. Len(queue') = 1 /\ queue'[1] = rec
          BY <2>3, <2>4, <3>2, <3>8
        <4>2. QED  BY <2>1, <3>4, <3>5, <3>6, <3>7, <3>8, <4>1
      <3>9. CASE queue # <<>>
        <4>1. Len(queue) # 0
          BY <2>4, <3>9
        <4>2. queue'[1] = queue[1]
          BY <2>3, <2>4, <3>2, <4>1
        <4>3. QED  BY <3>4, <3>5, <3>6, <3>7, <3>9, <4>2
      <3>10. QED  BY <3>8, <3>9
    <2>8. ClockInv'
      <3>1. ClockInv
        BY DEF IInv
      <3>2. \A i \in 1 .. Len(queue') :
               \/ i = Len(queue') /\ queue'[i] = rec
               \/ /\ i < Len(queue') /\ i + d \in 1 .. Len(queue)
                  /\ queue'[i] = queue[i + d]
        BY <2>3, <2>4
      <3>3. /\ \A i \in 1 .. Len(queue) :
                  queue[i].observed_time \in Nat /\ queue[i].observed_time <= Newest
            /\ \A i, j \in 1 .. Len(queue) :
                  i <= j => queue[i].observed_time <= queue[j].observed_time
        BY <3>1, ChannelTypes DEF ClockInv
      <3>4. rec.observed_time = Newest
        BY <1>3, <2>1
      <3>5. \A i, j \in 1 .. Len(queue') :
               i <= j => queue'[i].observed_time <= queue'[j].observed_time
        <4>1. ASSUME NEW i \in 1 .. Len(queue'), NEW j \in 1 .. Len(queue'), i <= j
              PROVE  queue'[i].observed_time <= queue'[j].observed_time
          <5>1. CASE j = Len(queue')
            BY <1>3, <2>3, <3>2, <3>3, <3>4, <5>1
          <5>2. CASE j # Len(queue')
            <6>1. i # Len(queue')
              BY <2>4, <4>1, <5>2
            <6>2. i + d <= j + d
              BY <2>4, <4>1
            <6>3. QED  BY <3>2, <3>3, <5>2, <6>1, <6>2
          <5>3. QED  BY <5>1, <5>2
        <4>2. QED  BY <4>1
      <3>6. \A i \in 1 .. Len(queue') : queue'[i].observed_time <= Newest'
        BY <1>3, <1>5, <3>2, <3>3, <3>4
      <3>7. \A i \in 1 .. Len(unresolved) :
               unresolved[i].observed_time \in Nat
               /\ unresolved[i].observed_time <= Newest
        BY <3>1, GameTypes DEF ClockInv
      <3>8. \A i \in 1 .. Len(unresolved) : unresolved[i].observed_time <= Newest'
        BY <1>3, <1>5, <3>7
      <3>9. \A i \in 1 .. Len(unresolved), j \in 1 .. Len(queue') :
               unresolved[i].observed_time <= queue'[j].observed_time
        BY <3>1, <3>2, <3>4, <3>7 DEF ClockInv
      <3>10. ASSUME NEW k \in 1 .. Len(last_resolved_coordinate)
             PROVE  LET t == last_resolved_coordinate[k].time
                    IN (/\ Reached(t, Newest)
                        /\ \A i \in 1 .. Len(unresolved) :
                              Reached(t, unresolved[i].observed_time)
                        /\ \A i \in 1 .. Len(queue) :
                              Reached(t, queue[i].observed_time))'
        <4> DEFINE t == last_resolved_coordinate[k].time
        <4>1. t \in Int /\ AnchorsInv
          BY GameTypes DEF IInv
        <4>2. /\ Reached(t, Newest)
              /\ \A i \in 1 .. Len(unresolved) :
                    Reached(t, unresolved[i].observed_time)
              /\ \A i \in 1 .. Len(queue) : Reached(t, queue[i].observed_time)
          BY <3>1 DEF ClockInv
        <4>3. Reached(t, Newest')
          BY <1>3, <1>5, <4>1, <4>2, ReachedLater
        <4>4. \A i \in 1 .. Len(queue') : Reached(t, queue'[i].observed_time)
          BY <3>2, <3>4, <4>2
        <4>5. QED  BY <1>1, <1>2, <4>2, <4>3, <4>4, ReachedSame
      <3>11. QED
        BY <1>2, <1>5, <3>1, <3>5, <3>6, <3>8, <3>9, <3>10 DEF ClockInv
    <2>9. QED  BY <1>1, <1>4, <2>6, <2>7, <2>8, GameUntouched DEF IInv
  <1>9. QED  BY <1>1, <1>7, <1>8 DEF Publish

(* A step of the game that leaves the transport and the worker alone.      *)
LEMMA ChannelSame ==
    ASSUME IInv, UNCHANGED vars
    PROVE  /\ UNCHANGED <<queue, transport_epoch, next_sequence, eviction_count,
                          enabled, active, published_held, answer>>
           /\ Inv'
  <1>1. UNCHANGED <<queue, transport_epoch, next_sequence, eviction_count,
                    enabled, active, published_held, answer>>
    BY DEF vars
  <1>2. Inv'
    BY <1>1 DEF IInv, Inv, TypeOK, Contiguous, HeldChain
  <1>3. QED  BY <1>1, <1>2

(* The invariant survives a death of anything but the order of records.    *)
LEMMA DieStep ==
    ASSUME IInv, NEW reason, Die(reason),
           eviction_count < MaxU64 => Blameless(reason)
    PROVE  IInv'
  <1>1. UNCHANGED <<vars, qpc, anchors, sampled, gameVars>> /\ fatal' = reason
    BY DEF Die, clockVars, workerVars
  <1>2. /\ UNCHANGED <<queue, transport_epoch, next_sequence, eviction_count,
                       enabled, active, published_held, answer>>
        /\ Inv'
    BY <1>1, ChannelSame
  <1>3. UNCHANGED <<host_time, stage_open, clock_bound, stage_active, cutoff,
                    unresolved, history, next_drain_sequence,
                    last_resolved_coordinate>>
    BY <1>1, GameSame
  <1>4. StageInv'
    BY <1>2, <1>3 DEF IInv, StageInv
  <1>5. LinkInv'
    BY <1>2, <1>3 DEF IInv, LinkInv, SameTransport, Handover
  <1>6. ClockInv'
    BY <1>1, <1>2, <1>3, ClockSame
  <1>7. FaultInv'
    BY <1>1, <1>2, ReachedSame DEF FaultInv, NoOrderFault, Blameless
  <1>8. QED
    BY <1>1, <1>2, <1>4, <1>5, <1>6, <1>7, SameKeeps, GameKept DEF IInv

(* A fault that is no order check and no check of the clock's answers.     *)
LEMMA Unsuspected ==
    ASSUME NEW reason, reason \notin Suspects
    PROVE  Blameless(reason)
  BY DEF Suspects, Blameless

(* Outside the scopes nothing of an outer call is left.                    *)
LEMMA NoCall ==
    ASSUME IInv, phase # "scoping"
    PROVE  outer_horizon = <<>> /\ outstanding_scope = <<>>
  BY DEF IInv, PhaseInv, ScopeInv

(* The clock reads of a stage entry and of an outer call.                  *)
LEMMA ClockReadStep ==
    ASSUME IInv, Alive, phase = "idle",
           \/ phase' = "entering"
           \/ phase' = "draining" /\ stage_open,
           host_time' = qpc, outer_horizon' = <<>>,
           outer_event_scope_count' \in Nat,
           outer_heartbeat_scope_count' \in Nat, OneKindOfScope',
           UNCHANGED <<vars, qpc, anchors, worker_running, sampled, stageVars,
                       recordVars, commitVars, outstanding_scope, fatal>>
    PROVE  IInv'
  <1>1. /\ UNCHANGED <<queue, transport_epoch, next_sequence, eviction_count,
                       enabled, active, published_held, answer>>
        /\ Inv'
    BY ChannelSame
  <1>2. UNCHANGED <<stage_open, clock_bound, stage_active, cutoff, unresolved,
                    history, next_drain_sequence, next_delivery_sequence,
                    pending_event_count, last_resolved_coordinate, counters>>
    BY DEF stageVars, recordVars
  <1>3. UNCHANGED <<committed_frontier, committed_frontier_is_boundary,
                    committed_boundary_index, drained_at_frontier>>
    BY DEF commitVars
  <1>4. StageInv' /\ LinkInv'
    BY <1>1, <1>2 DEF IInv, StageInv, LinkInv, SameTransport, Handover
  <1>5. ClockType /\ qpc \in Nat /\ host_time \in Nat /\ host_time <= qpc
    BY ClockTypes DEF IInv, ClockInv, ClockType
  <1>6. ClockInv'
    <2>1. ClockType'
      BY <1>5 DEF ClockType
    <2>2. Newest' = Newest
      BY DEF Newest
    <2>3. QED  BY <1>1, <1>2, <1>5, <2>1, <2>2, ClockTypes, LaterClock
  <1>7. UnresolvedInv' /\ AccountInv'
    BY <1>2 DEF IInv, UnresolvedInv, UnresolvedType, AccountInv, CountersType,
                Classified
  <1>8. PhaseInv'
    BY <1>2, <1>3 DEF IInv, PhaseInv
  <1>9. FrontierInv'
    <2>1. committed_frontier # <<>> =>
             Reached(committed_frontier[1].time, host_time')
      <3>1. committed_frontier # <<>> =>
               /\ Reached(committed_frontier[1].time, host_time)
               /\ committed_frontier[1].time \in Int
        BY ReachedTypes DEF IInv, FrontierInv
      <3>2. AnchorsInv /\ host_time' \in Nat /\ host_time <= host_time'
        BY <1>5 DEF IInv
      <3>3. ASSUME NEW time \in Int, Reached(time, host_time)
            PROVE  Reached(time, host_time')
        BY <1>5, <3>2, <3>3, ReachedLater
      <3>4. QED  BY <3>1, <3>3
    <2>2. committed_frontier # <<>> =>
             Reached(committed_frontier[1].time, host_time)'
      BY <1>3, <2>1, ReachedSame
    <2>3. QED
      BY <1>2, <1>3, <2>2 DEF IInv, FrontierInv, NextBoundary
  <1>10. FloorInv' /\ ScopeInv'
    BY <1>2, <1>3, NoCall DEF IInv, FloorInv, ScopeInv
  <1>11. QED
    BY <1>1, <1>4, <1>6, <1>7, <1>8, <1>9, <1>10, NoFault, ReachedSame DEF IInv

LEMMA CaptureStageEntryStep ==
    ASSUME IInv, Alive, CaptureStageEntry
    PROVE  IInv'
  <1>1. /\ phase = "idle" /\ phase' = "entering" /\ host_time' = qpc
        /\ UNCHANGED <<vars, qpc, anchors, worker_running, sampled, stageVars,
                       recordVars, commitVars, outerVars, fatal>>
    BY DEF CaptureStageEntry, clockVars, workerVars
  <1>2. UNCHANGED <<outer_horizon, outstanding_scope, outer_event_scope_count,
                    outer_heartbeat_scope_count>>
    BY <1>1 DEF outerVars
  <1>3. /\ outer_horizon' = <<>> /\ OneKindOfScope'
        /\ outer_event_scope_count' \in Nat
        /\ outer_heartbeat_scope_count' \in Nat
    BY <1>1, <1>2, NoCall DEF IInv, PhaseInv, OneKindOfScope
  <1>4. QED  BY <1>1, <1>2, <1>3, ClockReadStep

LEMMA StartOuterCallStep ==
    ASSUME IInv, Alive, StartOuterCall
    PROVE  IInv'
  <1>1. /\ phase = "idle" /\ phase' = "draining" /\ stage_open
        /\ host_time' = qpc /\ outer_horizon' = <<>>
        /\ outer_event_scope_count' = 0 /\ outer_heartbeat_scope_count' = 0
        /\ UNCHANGED <<vars, qpc, anchors, worker_running, sampled, stageVars,
                       recordVars, commitVars, outstanding_scope, fatal>>
    BY DEF StartOuterCall, clockVars, workerVars
  <1>2. OneKindOfScope'
    BY <1>1, SchedulerAssumption DEF OneKindOfScope
  <1>3. QED  BY <1>1, <1>2, ClockReadStep

(* A stage begins or ends: everything it owns starts again from a cutoff.  *)
LEMMA FreshStage ==
    ASSUME IInv, Alive, NEW epoch \in U64, NEW sequence \in U64, NEW held \in Mask,
           StageOwnedState(Reset(Controls, epoch, sequence, held)),
           queue' = <<>>, CountersType', phase' = "idle", stage_active' = FALSE,
           stage_open' =>
              /\ cutoff'.transport_epoch = epoch
              /\ Classified' = sequence - cutoff'.first_stage_sequence,
           UNCHANGED <<transport_epoch, next_sequence, eviction_count, enabled,
                       active, published_held, answer, qpc, anchors, sampled, host_time,
                       fatal>>
    PROVE  /\ Inv' /\ UnresolvedInv' /\ ClockInv' /\ AccountInv' /\ PhaseInv'
           /\ FrontierInv' /\ FloorInv' /\ ScopeInv' /\ FaultInv' /\ AnchorsInv'
           /\ next_drain_sequence' = sequence /\ Handover' = held
  <1> DEFINE h == Reset(Controls, epoch, sequence, held)
  <1>1. /\ HistoryOK(h, sequence) /\ h.next_sequence = sequence
        /\ h.transport_epoch = epoch /\ h.current_held = held
        /\ h.causal_time_floor = <<>> /\ h.last_coordinate = <<>>
    BY ResetHistory
  <1>2. /\ unresolved' = <<>> /\ history' = h
        /\ next_drain_sequence' = h.next_sequence
        /\ next_delivery_sequence' = h.next_sequence
        /\ pending_event_count' = 0 /\ last_resolved_coordinate' = <<>>
        /\ committed_frontier' = <<>> /\ committed_frontier_is_boundary' = FALSE
        /\ drained_at_frontier' = 0 /\ committed_boundary_index' = <<>>
        /\ outer_horizon' = <<>> /\ outstanding_scope' = <<>>
        /\ outer_event_scope_count' = 0 /\ outer_heartbeat_scope_count' = 0
    BY DEF StageOwnedState, ClearFrontier
  <1> HIDE DEF h
  <1>3. sequence \in Nat
    BY MaxU64Assumption DEF U64
  <1>4. Inv'
    <2>1. TypeOK'
      BY EmptyType, CapacityAssumption DEF IInv, Inv, TypeOK
    <2>2. QED  BY <2>1, EmptyQueue
  <1>5. UnresolvedInv'
    <2>1. UnresolvedType'
      BY <1>2, SchedulerAssumption DEF UnresolvedType
    <2>2. QED  BY <1>1, <1>2, <2>1 DEF UnresolvedInv
  <1>6. ClockInv'
    <2>1. ClockType' /\ unresolved' = <<>> /\ last_resolved_coordinate' = <<>>
      BY <1>2 DEF IInv, ClockInv, ClockType
    <2>2. QED  BY <2>1 DEF ClockInv
  <1>7. AccountInv'
    <2>1. /\ HistoryOK(history', next_delivery_sequence')
          /\ last_resolved_coordinate' = history'.last_coordinate
          /\ next_drain_sequence' = history'.next_sequence + Len(unresolved')
          /\ pending_event_count'
                = history'.next_sequence - next_delivery_sequence'
      BY <1>1, <1>2, <1>3
    <2>2. stage_open' => Classified' = next_delivery_sequence'
                                          - cutoff'.first_stage_sequence
      BY <1>1, <1>2
    <2>3. QED  BY <2>1, <2>2 DEF AccountInv
  <1>8. PhaseInv'
    BY <1>1, <1>2, <1>3, SchedulerAssumption DEF PhaseInv, OneKindOfScope
  <1>9. FrontierInv' /\ FloorInv' /\ ScopeInv'
    <2>1. committed_frontier' \in Seq(Coordinates) /\ Len(committed_frontier') <= 1
      BY <1>2
    <2>2. /\ committed_frontier' = <<>> /\ outstanding_scope' = <<>>
          /\ committed_frontier_is_boundary' = FALSE
          /\ history'.causal_time_floor = <<>>
      BY <1>1, <1>2
    <2>3. FrontierInv'
      BY ONLY <2>1, <2>2 DEF FrontierInv
    <2>4. FloorInv'
      BY ONLY <2>2 DEF FloorInv
    <2>5. ScopeInv'
      BY ONLY <2>2 DEF ScopeInv
    <2>6. QED  BY <2>3, <2>4, <2>5
  <1>10. Handover' = held
    BY <1>1, <1>2 DEF Handover
  <1>11. QED
    BY <1>1, <1>2, <1>4, <1>5, <1>6, <1>7, <1>8, <1>9, <1>10, NoFault, ReachedSame
       DEF IInv

LEMMA BeginSemanticStageStep ==
    ASSUME IInv, Alive, BeginSemanticStage
    PROVE  IInv'
  <1>1. CASE BeginFault # "none"
    <2>1. Die(BeginFault)
      BY <1>1 DEF BeginSemanticStage
    <2>2. stage_open \in BOOLEAN
      BY DEF IInv, StageInv
    <2>3. QED  BY <2>1, <2>2, BeginFaultFacts, Unsuspected, DieStep
  <1>2. CASE BeginFault = "none"
    <2> DEFINE start == CutoffAt(host_time)
    <2>1. /\ start.transport_epoch = transport_epoch
          /\ start.first_stage_sequence = next_sequence
          /\ start.eviction_count = eviction_count
          /\ start.held_baseline = published_held
          /\ start.stage_entry_time = host_time
      BY DEF CutoffAt
    <2>2. /\ queue' = <<>> /\ cutoff' = start
          /\ StageOwnedState(Reset(Controls, start.transport_epoch,
                                   start.first_stage_sequence,
                                   start.held_baseline))
          /\ counters' = NoCounters /\ phase' = "idle"
          /\ stage_open' = TRUE /\ clock_bound' = FALSE /\ stage_active' = FALSE
          /\ UNCHANGED <<transport_epoch, next_sequence, eviction_count, enabled,
                         active, published_held, answer, qpc, anchors, sampled, host_time,
                         fatal>>
      BY <1>2 DEF BeginSemanticStage, clockVars, workerVars
    <2> HIDE DEF start
    <2>3. /\ transport_epoch \in U64 /\ next_sequence \in U64
          /\ eviction_count \in U64 /\ published_held \in Mask
      BY DEF IInv, Inv, TypeOK
    <2>4. StageOwnedState(Reset(Controls, transport_epoch, next_sequence,
                                published_held))
      BY <2>1, <2>2
    <2>5. CountersType' /\ Classified' = 0
      BY <2>2 DEF CountersType, Classified, NoCounters
    <2>6. next_sequence \in Nat /\ eviction_count \in Nat /\ transport_epoch \in Nat
          /\ host_time \in Nat
      BY ChannelTypes, ClockTypes DEF IInv, ClockInv
    <2>7. Classified' = next_sequence - cutoff'.first_stage_sequence
      BY <2>1, <2>2, <2>5, <2>6
    <2>8. /\ Inv' /\ UnresolvedInv' /\ ClockInv' /\ AccountInv' /\ PhaseInv'
          /\ FrontierInv' /\ FloorInv' /\ ScopeInv' /\ FaultInv' /\ AnchorsInv'
          /\ next_drain_sequence' = next_sequence /\ Handover' = published_held
      BY <2>1, <2>2, <2>3, <2>4, <2>5, <2>7, FreshStage
    <2>9. StageInv'
      <3>1. /\ cutoff'.transport_epoch = transport_epoch
            /\ cutoff'.first_stage_sequence = next_sequence
            /\ cutoff'.eviction_count = eviction_count
            /\ cutoff'.stage_entry_time = host_time
            /\ transport_epoch' = transport_epoch
            /\ eviction_count' = eviction_count
        BY <2>1, <2>2
      <3>2. transport_epoch <= transport_epoch /\ eviction_count <= eviction_count
        BY <2>6
      <3>3. QED  BY <2>2, <2>3, <2>6, <3>1, <3>2 DEF StageInv
    <2>10. LinkInv'
      BY <2>2, <2>6, <2>8 DEF LinkInv
    <2>11. QED  BY <2>8, <2>9, <2>10 DEF IInv
  <1>3. QED  BY <1>1, <1>2

LEMMA CloseStageStep ==
    ASSUME IInv, Alive, phase = "idle", CloseStage
    PROVE  IInv'
  <1>1. /\ queue' = <<>> /\ cutoff' = NoCutoff
        /\ counters' = [counters EXCEPT !.cleanup_drops =
                          IF PostCutoffRecords >= Classified
                          THEN PostCutoffRecords - Classified ELSE 0]
        /\ StageOwnedState(Reset(Controls, 0, 0, {}))
        /\ stage_open' = FALSE /\ clock_bound' = FALSE /\ stage_active' = FALSE
        /\ phase' = "idle"
        /\ UNCHANGED <<transport_epoch, next_sequence, eviction_count, enabled,
                       active, published_held, answer, qpc, anchors, sampled, host_time,
                       fatal>>
    BY DEF CloseStage, EmptyHistory, clockVars, workerVars
  <1>2. CountersType'
    <2>1. counters \in [event_scopes: Nat, late_records: Nat,
                        overload_drops: Nat, cleanup_drops: Nat]
      BY DEF IInv, AccountInv, CountersType
    <2>2. next_sequence \in Nat /\ cutoff.first_stage_sequence \in Nat
      BY ChannelTypes
    <2>3. PostCutoffRecords \in Int /\ Classified \in Nat
      BY <2>1, <2>2 DEF PostCutoffRecords, Classified
    <2> DEFINE drops == IF PostCutoffRecords >= Classified
                        THEN PostCutoffRecords - Classified ELSE 0
    <2>4. drops \in Nat
      BY <2>3
    <2>5. counters' = [counters EXCEPT !.cleanup_drops = drops]
      BY <1>1
    <2> HIDE DEF drops
    <2>6. QED  BY <2>1, <2>4, <2>5 DEF CountersType
  <1>3. /\ Inv' /\ UnresolvedInv' /\ ClockInv' /\ AccountInv' /\ PhaseInv'
        /\ FrontierInv' /\ FloorInv' /\ ScopeInv' /\ FaultInv' /\ AnchorsInv'
    BY <1>1, <1>2, ZeroType, FreshStage
  <1>4. StageInv'
    BY <1>1, ZeroType DEF StageInv, NoCutoff
  <1>5. LinkInv'
    BY <1>1 DEF LinkInv, SameTransport
  <1>6. QED  BY <1>3, <1>4, <1>5 DEF IInv

LEMMA FiveTerms ==
    ASSUME NEW first \in Nat, NEW classified \in Nat, NEW pending \in Nat,
           NEW drained \in Nat, NEW queued \in Nat, NEW delivery, NEW history_next,
           NEW next_drain, NEW next,
           delivery = first + classified, history_next = delivery + pending,
           next_drain = history_next + drained, next = next_drain + queued
    PROVE  next = first + (classified + pending + drained + queued)
  OBVIOUS

(* The sequence numbers of a stage never run behind its cutoff.            *)
LEMMA CutoffBehind ==
    ASSUME IInv, SameTransport
    PROVE  /\ next_sequence - cutoff.first_stage_sequence
                 = Classified + pending_event_count + Len(unresolved) + Len(queue)
           /\ ~(next_sequence < cutoff.first_stage_sequence)
           /\ Classified \in Nat /\ pending_event_count \in Nat
  <1>1. stage_open /\ next_sequence = next_drain_sequence + Len(queue)
    BY DEF IInv, LinkInv, SameTransport
  <1>2. /\ next_drain_sequence = history.next_sequence + Len(unresolved)
        /\ pending_event_count = history.next_sequence - next_delivery_sequence
        /\ Classified = next_delivery_sequence - cutoff.first_stage_sequence
    BY <1>1 DEF IInv, AccountInv
  <1>3. Classified \in Nat
    BY DEF IInv, AccountInv, CountersType, Classified
  <1>4. /\ history.next_sequence \in Nat /\ next_delivery_sequence \in Nat
        /\ next_delivery_sequence <= history.next_sequence
        /\ Len(unresolved) \in Nat /\ Len(queue) \in Nat
        /\ next_sequence \in Nat /\ cutoff.first_stage_sequence \in Nat
    BY GameTypes, ChannelTypes
  <1>5. next_drain_sequence \in Nat /\ pending_event_count \in Nat
    BY <1>2, <1>4
  <1>6. next_delivery_sequence = cutoff.first_stage_sequence + Classified
    BY <1>2, <1>3, <1>4
  <1>7. history.next_sequence = next_delivery_sequence + pending_event_count
    BY <1>2, <1>4, <1>5
  <1>8. next_sequence = cutoff.first_stage_sequence
           + (Classified + pending_event_count + Len(unresolved) + Len(queue))
    <2> DEFINE first == cutoff.first_stage_sequence
               classified == Classified
               drained == Len(unresolved)
               queued == Len(queue)
               past == history.next_sequence
    <2>1. /\ next_drain_sequence = past + drained
          /\ next_sequence = next_drain_sequence + queued
          /\ next_delivery_sequence = first + classified
          /\ past = next_delivery_sequence + pending_event_count
          /\ first \in Nat /\ classified \in Nat /\ drained \in Nat
          /\ queued \in Nat /\ pending_event_count \in Nat
      BY <1>1, <1>2, <1>3, <1>4, <1>5, <1>6, <1>7
    <2> HIDE DEF first, classified, drained, queued, past
    <2>2. next_sequence = first + (classified + pending_event_count + drained
                                   + queued)
      BY ONLY <2>1, FiveTerms
    <2>3. QED  BY <2>2 DEF first, classified, drained, queued
  <1>9. QED  BY <1>3, <1>4, <1>5, <1>8

LEMMA CleanupIsNoOrderFault ==
    ASSUME IInv, stage_open, eviction_count < MaxU64
    PROVE  CleanupFault \notin Suspects
  <1>1. SUFFICES ASSUME CleanupFault \in Suspects PROVE FALSE
    OBVIOUS
  <1>2. /\ transport_epoch = cutoff.transport_epoch
        /\ eviction_count = cutoff.eviction_count
        /\ next_sequence < cutoff.first_stage_sequence
    BY <1>1, CleanupFaultFacts
  <1>3. SameTransport
    BY <1>2 DEF SameTransport
  <1>4. QED  BY <1>2, <1>3, CutoffBehind

LEMMA EndSemanticStageStep ==
    ASSUME IInv, Alive, EndSemanticStage
    PROVE  IInv'
  <1>1. CASE EndFault # "none"
    <2>1. Die(EndFault)
      BY <1>1 DEF EndSemanticStage
    <2>2. eviction_count < MaxU64 => Blameless(EndFault)
      BY EndFaultFacts, CleanupIsNoOrderFault, Unsuspected
    <2>3. QED  BY <2>1, <2>2, DieStep
  <1>2. CASE EndFault = "none"
    BY <1>2, CloseStageStep DEF EndSemanticStage
  <1>3. QED  BY <1>1, <1>2

LEMMA TerminateStep ==
    ASSUME IInv, Alive, TerminateForGameplayInitialization
    PROVE  IInv'
  <1>1. CASE CleanupFault # "none"
    <2>1. Die(CleanupFault) /\ stage_open
      BY <1>1 DEF TerminateForGameplayInitialization
    <2>2. QED  BY <2>1, CleanupIsNoOrderFault, Unsuspected, DieStep
  <1>2. CASE CleanupFault = "none"
    BY <1>2, CloseStageStep DEF TerminateForGameplayInitialization
  <1>3. QED  BY <1>1, <1>2

(* A step of an outer call that leaves the drained records alone.          *)
LEMMA DrainedSame ==
    ASSUME IInv, Alive,
           UNCHANGED <<vars, qpc, anchors, sampled, host_time, stage_open, cutoff,
                       unresolved, next_drain_sequence,
                       last_resolved_coordinate, fatal>>,
           stage_active' \in BOOLEAN, clock_bound' \in BOOLEAN,
           history'.next_sequence = history.next_sequence,
           history'.transport_epoch = history.transport_epoch,
           history'.current_held = history.current_held
    PROVE  /\ Inv' /\ StageInv' /\ LinkInv' /\ UnresolvedInv' /\ ClockInv'
           /\ FaultInv' /\ AnchorsInv'
  <1>1. /\ UNCHANGED <<queue, transport_epoch, next_sequence, eviction_count,
                       enabled, active, published_held, answer>>
        /\ Inv'
    BY ChannelSame
  <1>2. StageInv'
    BY <1>1 DEF IInv, StageInv
  <1>3. LinkInv'
    BY <1>1 DEF IInv, LinkInv, SameTransport, Handover
  <1>4. UnresolvedInv'
    BY DEF IInv, UnresolvedInv, UnresolvedType
  <1>5. ClockInv'
    BY <1>1, ClockSame
  <1>6. QED  BY <1>1, <1>2, <1>3, <1>4, <1>5, NoFault, ReachedSame DEF IInv

LEMMA BindClockStep ==
    ASSUME IInv, Alive, NEW playing \in BOOLEAN, NEW entry_resolved \in BOOLEAN,
           BindClock(playing, entry_resolved)
    PROVE  IInv'
  <1> DEFINE entry == JudgementTime(cutoff.stage_entry_time)
             bound == clock_bound \/ (playing /\ entry # <<>>)
             activate == ~stage_active /\ bound /\ entry_resolved /\ entry # <<>>
  <1>1. /\ phase = "binding"
        /\ clock_bound' = bound
        /\ stage_active' = (stage_active \/ activate)
        /\ committed_boundary_index' =
              IF activate
              THEN <<Ceil60(entry[1]) - 1>>
              ELSE committed_boundary_index
        /\ phase' = IF stage_active' THEN "resolving" ELSE "scoping"
        /\ UNCHANGED <<vars, qpc, anchors, sampled, host_time, stage_open, cutoff,
                       recordVars, committed_frontier,
                       committed_frontier_is_boundary, drained_at_frontier,
                       outerVars, fatal>>
    BY DEF BindClock, clockVars, workerVars
  <1>2. UNCHANGED <<unresolved, history, next_drain_sequence,
                    next_delivery_sequence, pending_event_count,
                    last_resolved_coordinate, counters>>
    BY <1>1 DEF recordVars
  <1>3. UNCHANGED <<outer_horizon, outstanding_scope, outer_event_scope_count,
                    outer_heartbeat_scope_count>>
    BY <1>1 DEF outerVars
  <1>4. /\ stage_active \in BOOLEAN /\ clock_bound \in BOOLEAN
        /\ cutoff.stage_entry_time \in Nat
    BY DEF IInv, StageInv
  <1>5. outer_horizon = <<>> /\ outstanding_scope = <<>>
    BY <1>1, NoCall
  <1>6. stage_open /\ (stage_active <=> committed_boundary_index # <<>>)
    BY <1>1 DEF IInv, PhaseInv
  <1>7. activate \in BOOLEAN /\ (activate => ~stage_active)
    BY <1>4
  <1>8. /\ committed_boundary_index' \in Seq(Int)
        /\ Len(committed_boundary_index') <= 1
        /\ stage_active' <=> committed_boundary_index' # <<>>
    <2>1. CASE activate
      <3> DEFINE index == Ceil60(entry[1]) - 1
      <3>1. entry[1] \in Int
        BY <1>4, <2>1, JudgementTimeType DEF IInv
      <3>2. Ceil60(entry[1]) \in Int
        BY <3>1, SchedulerAssumption DEF Ceil60
      <3>3. index \in Int
        BY <3>2
      <3> HIDE DEF index
      <3>4. committed_boundary_index' = <<index>> /\ stage_active'
        BY <1>1, <2>1 DEF index
      <3>5. QED  BY <3>3, <3>4
    <2>2. CASE ~activate
      BY <1>1, <1>6, <2>2 DEF IInv, PhaseInv
    <2>3. QED  BY <2>1, <2>2
  <1>9. stage_active' \in BOOLEAN /\ clock_bound' \in BOOLEAN
    <2>1. bound \in BOOLEAN
      BY <1>4
    <2>2. QED  BY <1>1, <1>4, <1>7, <2>1
  <1>10. committed_frontier # <<>> =>
            ~activate /\ committed_boundary_index' = committed_boundary_index
            /\ stage_active'
    BY <1>1, <1>7 DEF IInv, FrontierInv
  <1> HIDE DEF entry, bound, activate
  <1>11. /\ Inv' /\ StageInv' /\ LinkInv' /\ UnresolvedInv' /\ ClockInv'
         /\ FaultInv' /\ AnchorsInv'
    BY <1>1, <1>2, <1>9, DrainedSame
  <1>12. AccountInv'
    BY <1>1, <1>2 DEF IInv, AccountInv, CountersType, Classified
  <1>13. PhaseInv'
    BY <1>1, <1>2, <1>3, <1>5, <1>6, <1>8, <1>9
       DEF IInv, PhaseInv, OneKindOfScope
  <1>14. FrontierInv'
    <2>1. committed_frontier # <<>> =>
             Reached(committed_frontier[1].time, host_time)'
      BY <1>1, ReachedSame DEF IInv, FrontierInv
    <2>2. QED  BY <1>1, <1>2, <1>10, <2>1 DEF IInv, FrontierInv, NextBoundary
  <1>15. FloorInv' /\ ScopeInv'
    BY <1>1, <1>2, <1>3, <1>5 DEF IInv, FloorInv, ScopeInv
  <1>16. QED  BY <1>11, <1>12, <1>13, <1>14, <1>15 DEF IInv

(* A step that only moves the outer call on: its phase and its horizon.    *)
LEMMA CallMovesOn ==
    ASSUME IInv, Alive, phase \in {"resolving", "scoping"},
           outstanding_scope = <<>>, phase' \in {"idle", "scoping"},
           outer_horizon' \in Seq(Int), Len(outer_horizon') <= 1,
           outer_horizon' # <<>> =>
              /\ phase' = "scoping" /\ stage_active /\ unresolved = <<>>
              /\ Reached(outer_horizon'[1], host_time),
           outer_event_scope_count' \in Nat, outer_heartbeat_scope_count' \in Nat,
           OneKindOfScope',
           UNCHANGED <<vars, qpc, anchors, sampled, host_time, stageVars, unresolved,
                       history, next_drain_sequence, next_delivery_sequence,
                       pending_event_count, last_resolved_coordinate, counters,
                       commitVars, outstanding_scope, fatal>>
    PROVE  IInv'
  <1>1. UNCHANGED <<stage_open, clock_bound, stage_active, cutoff>>
    BY DEF stageVars
  <1>2. UNCHANGED <<committed_frontier, committed_frontier_is_boundary,
                    committed_boundary_index, drained_at_frontier>>
    BY DEF commitVars
  <1>3. stage_active' \in BOOLEAN /\ clock_bound' \in BOOLEAN
    BY <1>1 DEF IInv, StageInv
  <1>4. /\ Inv' /\ StageInv' /\ LinkInv' /\ UnresolvedInv' /\ ClockInv'
        /\ FaultInv' /\ AnchorsInv'
    BY <1>1, <1>3, DrainedSame
  <1>5. AccountInv'
    BY <1>1 DEF IInv, AccountInv, CountersType, Classified
  <1>6. PhaseInv'
    <2>1. outer_horizon' # <<>> => Reached(outer_horizon[1], host_time)'
      BY ReachedSame
    <2>2. stage_open
      BY DEF IInv, PhaseInv
    <2>3. QED  BY <1>1, <1>2, <2>1, <2>2 DEF IInv, PhaseInv
  <1>7. FrontierInv'
    <2>1. committed_frontier # <<>> =>
             Reached(committed_frontier[1].time, host_time)'
      BY <1>2, ReachedSame DEF IInv, FrontierInv
    <2>2. QED  BY <1>1, <1>2, <2>1 DEF IInv, FrontierInv, NextBoundary
  <1>8. FloorInv' /\ ScopeInv'
    BY <1>2 DEF IInv, FloorInv, ScopeInv
  <1>9. QED  BY <1>4, <1>5, <1>6, <1>7, <1>8 DEF IInv

LEMMA ClockNotReadyStep ==
    ASSUME IInv, Alive, ClockNotReady
    PROVE  IInv'
  <1>1. /\ phase = "resolving" /\ phase' = "scoping"
        /\ UNCHANGED <<vars, qpc, anchors, sampled, host_time, stageVars, recordVars,
                       commitVars, outerVars, fatal>>
    BY DEF ClockNotReady, clockVars, workerVars
  <1>2. UNCHANGED <<unresolved, history, next_drain_sequence,
                    next_delivery_sequence, pending_event_count,
                    last_resolved_coordinate, counters>>
    BY <1>1 DEF recordVars
  <1>3. UNCHANGED <<outer_horizon, outstanding_scope, outer_event_scope_count,
                    outer_heartbeat_scope_count>>
    BY <1>1 DEF outerVars
  <1>4. outer_horizon = <<>> /\ outstanding_scope = <<>>
    BY <1>1, NoCall
  <1>5. /\ outer_event_scope_count' \in Nat
        /\ outer_heartbeat_scope_count' \in Nat /\ OneKindOfScope'
    BY <1>3 DEF IInv, PhaseInv, OneKindOfScope
  <1>6. outer_horizon' \in Seq(Int) /\ Len(outer_horizon') <= 1
        /\ outer_horizon' = <<>>
    BY <1>3, <1>4
  <1>7. QED  BY <1>1, <1>2, <1>3, <1>4, <1>5, <1>6, CallMovesOn

LEMMA ClockFailsStep ==
    ASSUME IInv, Alive, NEW reason \in ClockReasons, ClockFails(reason)
    PROVE  IInv'
  <1>1. reason = "TimelineProjectionDiscontinuous" => Len(anchors) > AnchorCapacity
    BY DEF ClockFails, ClockFailures, BindFailures, HistoryLost
  <1>2. reason \notin OrderFaults /\ reason # "ResolvedCoordinateRegressed"
    BY DEF ClockReasons, ClockFailures, BindFailures, OrderFaults
  <1>3. Blameless(reason)
    BY <1>1, <1>2 DEF Blameless
  <1>4. QED  BY <1>3, DieStep DEF ClockFails

LEMMA FinishOuterCallStep ==
    ASSUME IInv, Alive, FinishOuterCall
    PROVE  IInv'
  <1>1. OneKindOfScope
    BY DEF IInv, PhaseInv
  <1>2. /\ phase = "scoping" /\ phase' = "idle" /\ outstanding_scope = <<>>
        /\ outer_horizon' = <<>> /\ outer_event_scope_count' = 0
        /\ outer_heartbeat_scope_count' = 0
        /\ UNCHANGED <<vars, qpc, anchors, sampled, host_time, stageVars, recordVars,
                       commitVars, outstanding_scope, fatal>>
    BY <1>1 DEF FinishOuterCall, clockVars, workerVars
  <1>3. UNCHANGED <<unresolved, history, next_drain_sequence,
                    next_delivery_sequence, pending_event_count,
                    last_resolved_coordinate, counters>>
    BY <1>2 DEF recordVars
  <1>4. outer_horizon' \in Seq(Int) /\ Len(outer_horizon') <= 1
    BY <1>2
  <1>5. OneKindOfScope'
    BY <1>2, SchedulerAssumption DEF OneKindOfScope
  <1>6. QED  BY <1>2, <1>3, <1>4, <1>5, CallMovesOn

LEMMA SelectHorizonStep ==
    ASSUME IInv, Alive, SelectHorizon
    PROVE  IInv'
  <1> DEFINE ready == JudgementTime(host_time)[1]
             last  == committed_boundary_index[1] + HeartbeatLimit
             b     == \E i \in DOMAIN committed_frontier :
                         ready < committed_frontier[i].time
             c     == committed_boundary_index = <<>>
             fault == FirstFault(<< <<b, "TimelineProjectionDiscontinuous">>,
                                    <<c, "CommitTopologyMismatch">> >>)
  <1>1. phase = "resolving" /\ unresolved = <<>>
    BY DEF SelectHorizon, AllResolved
  <1>2. stage_active /\ committed_boundary_index # <<>>
        /\ committed_boundary_index[1] \in Int
    BY <1>1, OptionalFacts DEF IInv, PhaseInv
  <1>3. /\ ready \in Int /\ JudgementTime(host_time) # <<>>
        /\ host_time \in Nat /\ AnchorsInv /\ Reached(ready, host_time)
    <2>1. JudgementTime(host_time) # <<>> /\ host_time \in Nat /\ AnchorsInv
      BY ReachedTypes DEF SelectHorizon, IInv
    <2>2. QED  BY <2>1, JudgementTimeType, AnswerReached
  <1>4. b => EndpointFellBehind
    <2>1. SUFFICES ASSUME b, ~EndpointFellBehind PROVE FALSE
      OBVIOUS
    <2>2. PICK i \in DOMAIN committed_frontier : ready < committed_frontier[i].time
      BY <2>1
    <2>3. committed_frontier # <<>> /\ i = 1
      BY <2>2, OptionalFacts DEF IInv, FrontierInv
    <2>4. committed_frontier[1].time <= ready
      BY <1>3, <2>1, <2>3, ReachedTypes, ReachedAnswer DEF IInv, FrontierInv
    <2>5. QED  BY <1>3, <2>2, <2>3, <2>4, ReachedTypes
  <1>5. CASE fault # "none"
    <2>1. Die(fault)
      BY <1>5 DEF SelectHorizon
    <2>2. b \in BOOLEAN /\ c \in BOOLEAN /\ ~c
      BY <1>2
    <2> HIDE DEF b, c
    <2>3. fault = "TimelineProjectionDiscontinuous" /\ EndpointFellBehind
      BY <1>4, <1>5, <2>2, HorizonFaultFacts
    <2>4. Blameless(fault)
      BY <2>3 DEF Blameless, OrderFaults
    <2>5. QED  BY <2>1, <2>4, DieStep
  <1>6. CASE fault = "none"
    <2>1. /\ outer_horizon' = IF Floor60(ready) > last
                              THEN <<BoundaryAt(last)>> ELSE <<ready>>
          /\ phase' = "scoping"
          /\ UNCHANGED <<vars, qpc, anchors, sampled, host_time, stageVars,
                         unresolved, history, next_drain_sequence,
                         next_delivery_sequence, pending_event_count,
                         last_resolved_coordinate, counters, commitVars,
                         outstanding_scope, outer_event_scope_count,
                         outer_heartbeat_scope_count, fatal>>
      BY <1>6 DEF SelectHorizon, clockVars, workerVars
    <2>2. last \in Int
      BY <1>2, SchedulerAssumption
    <2> HIDE DEF ready, last, b, c, fault
    <2>3. /\ outer_horizon' \in Seq(Int) /\ Len(outer_horizon') <= 1
          /\ outer_horizon'[1] \in Int /\ outer_horizon'[1] <= ready
      <3>1. CASE Floor60(ready) > last
        <4>1. BoundaryAt(last) \in Int /\ BoundaryAt(last) <= ready
          BY <1>3, <2>2, <3>1, BoundaryBelow, BoundaryStep
        <4>2. QED  BY <2>1, <3>1, <4>1
      <3>2. CASE ~(Floor60(ready) > last)
        BY <1>3, <2>1, <3>2
      <3>3. QED  BY <3>1, <3>2
    <2>4. /\ outer_event_scope_count' \in Nat
          /\ outer_heartbeat_scope_count' \in Nat /\ OneKindOfScope'
      BY <2>1 DEF IInv, PhaseInv, OneKindOfScope
    <2>5. outstanding_scope = <<>>
      BY <1>1, NoCall
    <2>6. Reached(outer_horizon'[1], host_time)
      BY <1>3, <2>3, ReachedLater
    <2>7. QED
      BY <1>1, <1>2, <2>1, <2>3, <2>4, <2>5, <2>6, CallMovesOn
  <1>7. QED  BY <1>5, <1>6

-----------------------------------------------------------------------------
(* The transport is drained.                                               *)
LEMMA DrainCounts ==
    ASSUME IInv
    PROVE  LET room  == UnresolvedCapacity - Len(unresolved)
               span  == IF room < DrainBatch THEN room ELSE DrainBatch
               count == DrainCount(span)
           IN /\ room \in Nat /\ count \in 0 .. Len(queue)
              /\ count <= room
              /\ count = 0 => room = 0 \/ Len(queue) = 0
              /\ Batch(span) \in Seq(Record) /\ Len(Batch(span)) = count
              /\ \A i \in 1 .. count : Batch(span)[i] = queue[i]
              /\ Rest(span) \in Seq(Record) /\ Len(Rest(span)) = Len(queue) - count
              /\ \A i \in 1 .. Len(queue) - count : Rest(span)[i] = queue[i + count]
  <1> DEFINE room  == UnresolvedCapacity - Len(unresolved)
             span  == IF room < DrainBatch THEN room ELSE DrainBatch
             count == DrainCount(span)
  <1>1. /\ Len(unresolved) \in Nat /\ Len(unresolved) <= UnresolvedCapacity
        /\ Len(queue) \in Nat /\ queue \in Seq(Record)
    BY GameTypes, ChannelTypes DEF IInv, UnresolvedInv, UnresolvedType
  <1>2. room \in Nat /\ DrainBatch \in Nat \ {0}
    BY <1>1, SchedulerAssumption
  <1> HIDE DEF room
  <1>3. /\ count \in 0 .. Len(queue) /\ count <= room
        /\ count = 0 => room = 0 \/ Len(queue) = 0
    BY <1>1, <1>2 DEF DrainCount
  <1>4. /\ Batch(span) = SubSeq(queue, 1, count)
        /\ Rest(span) = SubSeq(queue, count + 1, Len(queue))
    BY DEF Batch, Rest
  <1> HIDE DEF count, span
  <1>5. /\ Batch(span) \in Seq(Record) /\ Len(Batch(span)) = count
        /\ \A i \in 1 .. count : Batch(span)[i] = queue[i]
        /\ Rest(span) \in Seq(Record) /\ Len(Rest(span)) = Len(queue) - count
        /\ \A i \in 1 .. Len(queue) - count : Rest(span)[i] = queue[i + count]
    BY <1>1, <1>3, <1>4, DropPrefix
  <1>6. QED  BY <1>2, <1>3, <1>5 DEF room, span, count

(* What the queue holds when it is the transport of the stage.             *)
LEMMA QueueFacts ==
    ASSUME IInv
    PROVE  /\ Len(queue) <= next_sequence
           /\ \A i \in 1 .. Len(queue) :
                 queue[i].sequence = next_sequence - Len(queue) + i - 1
           /\ \A i \in 1 .. Len(queue) - 1 :
                 queue[i + 1].held_before = queue[i].held_after
           /\ Len(queue) > 0 => queue[Len(queue)].held_after = published_held
           /\ SameTransport =>
                 /\ next_drain_sequence \in Nat
                 /\ next_sequence = next_drain_sequence + Len(queue)
                 /\ \A i \in 1 .. Len(queue) :
                       queue[i].sequence = next_drain_sequence + i - 1
                 /\ Len(queue) > 0 => Handover = queue[1].held_before
                 /\ Len(queue) = 0 => Handover = published_held
  <1>1. /\ Len(queue) <= next_sequence
        /\ \A i \in 1 .. Len(queue) :
              queue[i].sequence = next_sequence - Len(queue) + i - 1
        /\ \A i \in 1 .. Len(queue) - 1 :
              queue[i + 1].held_before = queue[i].held_after
        /\ Len(queue) > 0 => queue[Len(queue)].held_after = published_held
    BY DEF IInv, Inv, Contiguous, HeldChain
  <1>2. ASSUME SameTransport
        PROVE  /\ next_drain_sequence \in Nat
               /\ next_sequence = next_drain_sequence + Len(queue)
               /\ \A i \in 1 .. Len(queue) :
                     queue[i].sequence = next_drain_sequence + i - 1
               /\ Len(queue) > 0 => Handover = queue[1].held_before
               /\ Len(queue) = 0 => Handover = published_held
    <2>1. next_drain_sequence \in Nat
      BY GameTypes DEF IInv, AccountInv
    <2>2. /\ next_sequence = next_drain_sequence + Len(queue)
          /\ Handover = IF queue = <<>> THEN published_held
                                        ELSE queue[1].held_before
      BY <1>2 DEF IInv, LinkInv
    <2>3. /\ Len(queue) > 0 => queue # <<>>
          /\ Len(queue) = 0 => queue = <<>>
          /\ Len(queue) \in Nat
      BY ChannelTypes
    <2>4. \A i \in 1 .. Len(queue) :
             queue[i].sequence = next_drain_sequence + i - 1
      BY <1>1, <2>1, <2>2, <2>3
    <2>5. QED  BY <2>1, <2>2, <2>3, <2>4
  <1>3. QED  BY <1>1, <1>2

LEMMA DrainDies ==
    ASSUME IInv, Alive, phase = "draining",
           NEW room, NEW span, NEW count,
           room = UnresolvedCapacity - Len(unresolved),
           span = IF room < DrainBatch THEN room ELSE DrainBatch,
           count = DrainCount(span), eviction_count < MaxU64
    PROVE  DrainFault(Batch(span), StatusAfter(span), room) \notin Suspects
  <1> DEFINE batch  == Batch(span)
             status == StatusAfter(span)
             f      == DrainFault(batch, status, room)
  <1>1. SUFFICES ASSUME f \in Suspects PROVE FALSE
    OBVIOUS
  <1>2. /\ room \in Nat /\ count \in 0 .. Len(queue) /\ count <= room
        /\ count = 0 => room = 0 \/ Len(queue) = 0
        /\ batch \in Seq(Record) /\ Len(batch) = count
        /\ \A i \in 1 .. count : batch[i] = queue[i]
    BY DrainCounts
  <1>3. /\ status.transport_epoch = transport_epoch
        /\ status.eviction_count = eviction_count
        /\ status.next_sequence = next_sequence
        /\ status.depth = Len(queue) - count
    BY DEF StatusAfter
  <1> HIDE DEF batch, status
  <1>4. /\ status.transport_epoch = cutoff.transport_epoch
        /\ status.eviction_count = cutoff.eviction_count
        /\ \/ status.next_sequence < status.depth
           \/ \E i \in DOMAIN batch :
                 batch[i].sequence # next_drain_sequence + i - 1
           \/ status.next_sequence - status.depth
                 # next_drain_sequence + Len(batch)
           \/ /\ status.depth # 0 /\ batch = <<>>
              /\ ~(status.depth # 0 /\ Len(batch) = room)
    BY <1>1, DrainFaultFacts
  <1>5. SameTransport
    BY <1>3, <1>4 DEF IInv, PhaseInv, SameTransport
  <1>6. /\ next_drain_sequence \in Nat
        /\ next_sequence = next_drain_sequence + Len(queue)
        /\ Len(queue) <= next_sequence
        /\ \A i \in 1 .. Len(queue) :
              queue[i].sequence = next_drain_sequence + i - 1
    BY <1>5, QueueFacts
  <1>7. Len(queue) \in Nat /\ next_sequence \in Nat
    BY ChannelTypes
  <1>8. DOMAIN batch = 1 .. count
    BY <1>2
  <1>9. ~(status.next_sequence < status.depth)
    BY <1>2, <1>3, <1>6, <1>7
  <1>10. ~(\E i \in DOMAIN batch :
              batch[i].sequence # next_drain_sequence + i - 1)
    <2>1. \A i \in 1 .. count : i \in 1 .. Len(queue) /\ batch[i] = queue[i]
      BY <1>2, <1>7
    <2>2. \A i \in 1 .. count :
             batch[i].sequence = next_drain_sequence + i - 1
      BY <1>6, <2>1
    <2>3. QED  BY <1>8, <2>2
  <1>11. status.next_sequence - status.depth = next_drain_sequence + Len(batch)
    BY <1>2, <1>3, <1>6, <1>7
  <1>12. status.depth # 0 /\ batch = <<>> =>
            status.depth # 0 /\ Len(batch) = room
    <2>1. batch = <<>> => count = 0
      BY <1>2
    <2>2. QED  BY <1>2, <1>3, <1>7, <2>1
  <1>13. QED  BY <1>4, <1>9, <1>10, <1>11, <1>12

(* The drained records continue the unresolved ones.                       *)
LEMMA DrainUnresolved ==
    ASSUME IInv, stage_open, NEW count \in 0 .. Len(queue), NEW batch \in Seq(Record),
           Len(batch) = count, \A i \in 1 .. count : batch[i] = queue[i],
           Len(unresolved) + count <= UnresolvedCapacity,
           transport_epoch = cutoff.transport_epoch,
           eviction_count = cutoff.eviction_count,
           \A i \in 1 .. count :
              /\ batch[i].transport_epoch = cutoff.transport_epoch
              /\ batch[i].sequence = next_drain_sequence + i - 1
              /\ batch[i].sequence # MaxU64,
           unresolved' = unresolved \o batch,
           UNCHANGED <<stage_open, cutoff, history>>
    PROVE  /\ UnresolvedInv'
           /\ count = 0 => Handover' = Handover
           /\ count > 0 => Handover' = queue[count].held_after
  <1> DEFINE n == Len(unresolved)
  <1>1. /\ unresolved \in Seq(Record) /\ n \in Nat /\ UnresolvedType
        /\ count \in Nat /\ Len(queue) \in Nat
    BY GameTypes, ChannelTypes DEF IInv, UnresolvedInv
  <1>2. /\ unresolved' \in Seq(Record) /\ Len(unresolved') = n + count
        /\ \A i \in 1 .. n : unresolved'[i] = unresolved[i]
        /\ \A i \in 1 .. count : unresolved'[n + i] = batch[i]
    BY <1>1, JoinedFacts
  <1> HIDE DEF n
  <1>3. \A i \in 1 .. n + count :
           \/ i \in 1 .. n /\ unresolved'[i] = unresolved[i]
           \/ /\ i > n /\ i - n \in 1 .. count
              /\ unresolved'[i] = batch[i - n]
    <2>1. ASSUME NEW i \in 1 .. n + count, ~(i \in 1 .. n)
          PROVE  i > n /\ i - n \in 1 .. count /\ unresolved'[i] = batch[i - n]
      <3>1. i > n /\ i - n \in 1 .. count /\ n + (i - n) = i
        BY <1>1, <2>1
      <3>2. QED  BY <1>2, <3>1
    <2>2. QED  BY <1>2, <2>1
  <1>4. UnresolvedType'
    <2>1. \A i \in 1 .. n : unresolved[i].sequence # MaxU64
      BY <1>1 DEF UnresolvedType, n
    <2>2. \A i \in 1 .. n + count : unresolved'[i].sequence # MaxU64
      BY <1>3, <2>1
    <2>3. QED  BY <1>2, <2>2 DEF UnresolvedType, n
  <1>5. /\ n = 0 => Handover = history.current_held
        /\ n > 0 => Handover = unresolved[n].held_after
    <2>1. (n = 0 => unresolved = <<>>) /\ (n > 0 => unresolved # <<>>)
      BY <1>1 DEF n
    <2>2. QED  BY <1>1, <2>1 DEF Handover, n
  <1>6. /\ count = 0 => Handover' = Handover
        /\ count > 0 => Handover' = queue[count].held_after
    <2>1. CASE n + count = 0
      <3>1. unresolved' = <<>> /\ n = 0 /\ count = 0
        BY <1>1, <1>2, <2>1
      <3>2. QED  BY <1>5, <3>1 DEF Handover
    <2>2. CASE n + count > 0
      <3>1. unresolved' # <<>>
        BY <1>1, <1>2, <2>2
      <3>2. Handover' = unresolved'[n + count].held_after
        BY <1>2, <3>1 DEF Handover
      <3>3. CASE count = 0
        BY <1>1, <1>2, <1>5, <2>2, <3>2, <3>3
      <3>4. CASE count > 0
        <4>1. count \in 1 .. count
          BY <1>1, <3>4
        <4>2. QED  BY <1>2, <3>2, <3>4, <4>1
      <3>5. QED  BY <1>1, <3>3, <3>4
    <2>3. QED  BY <1>1, <2>1, <2>2
  <1>7. ASSUME cutoff.eviction_count < MaxU64
        PROVE  /\ history.transport_epoch = cutoff.transport_epoch
               /\ \A i \in 1 .. n + count :
                     /\ unresolved'[i].transport_epoch = cutoff.transport_epoch
                     /\ unresolved'[i].sequence = history.next_sequence + i - 1
               /\ n + count > 0 =>
                     unresolved'[1].held_before = history.current_held
               /\ \A i \in 1 .. n + count - 1 :
                     unresolved'[i + 1].held_before = unresolved'[i].held_after
    <2>1. /\ history.transport_epoch = cutoff.transport_epoch
          /\ \A i \in 1 .. n :
                /\ unresolved[i].transport_epoch = cutoff.transport_epoch
                /\ unresolved[i].sequence = history.next_sequence + i - 1
          /\ n > 0 => unresolved[1].held_before = history.current_held
          /\ \A i \in 1 .. n - 1 :
                unresolved[i + 1].held_before = unresolved[i].held_after
      BY <1>7 DEF IInv, UnresolvedInv, n
    <2>2. SameTransport
      BY <1>7 DEF SameTransport
    <2>3. /\ count > 0 => Handover = queue[1].held_before
          /\ \A i \in 1 .. Len(queue) - 1 :
                queue[i + 1].held_before = queue[i].held_after
      BY <1>1, <2>2, QueueFacts
    <2>4. history.next_sequence \in Nat
          /\ next_drain_sequence = history.next_sequence + n
      BY GameTypes DEF IInv, AccountInv, n
    <2>5. \A i \in 1 .. n + count :
             /\ unresolved'[i].transport_epoch = cutoff.transport_epoch
             /\ unresolved'[i].sequence = history.next_sequence + i - 1
      <3>1. \A i \in 1 .. count :
               /\ batch[i].transport_epoch = cutoff.transport_epoch
               /\ batch[i].sequence = next_drain_sequence + i - 1
        OBVIOUS
      <3>2. ASSUME NEW i \in 1 .. n + count
            PROVE  /\ unresolved'[i].transport_epoch = cutoff.transport_epoch
                   /\ unresolved'[i].sequence = history.next_sequence + i - 1
        <4>1. CASE i \in 1 .. n /\ unresolved'[i] = unresolved[i]
          BY ONLY <2>1, <4>1
        <4>2. CASE i - n \in 1 .. count /\ unresolved'[i] = batch[i - n]
          <5>1. next_drain_sequence + (i - n) - 1 = history.next_sequence + i - 1
            BY ONLY <1>1, <2>4, <3>2
          <5>2. QED  BY ONLY <3>1, <4>2, <5>1
        <4>3. QED  BY ONLY <1>3, <3>2, <4>1, <4>2
      <3>3. QED  BY ONLY <3>2
    <2>6. n + count > 0 => unresolved'[1].held_before = history.current_held
      <3>1. CASE n > 0
        BY <1>1, <1>2, <2>1, <3>1
      <3>2. CASE n = 0 /\ count > 0
        <4>1. 1 \in 1 .. count /\ n + 1 = 1
          BY <1>1, <3>2
        <4>2. unresolved'[1] = queue[1]
          BY <1>2, <4>1
        <4>3. QED  BY <1>5, <2>3, <3>2, <4>2
      <3>3. QED  BY ONLY <1>1, <3>1, <3>2
    <2>7. ASSUME NEW i \in 1 .. n + count - 1
          PROVE  unresolved'[i + 1].held_before = unresolved'[i].held_after
      <3>1. CASE i < n
        <4>1. i \in 1 .. n /\ i + 1 \in 1 .. n /\ i \in 1 .. n - 1
          BY <1>1, <3>1
        <4>2. QED  BY <1>2, <2>1, <4>1
      <3>2. CASE i = n
        <4>1. n > 0 /\ n \in 1 .. n /\ 1 \in 1 .. count /\ count > 0
          BY <1>1, <3>2
        <4>2. unresolved'[n + 1] = queue[1] /\ unresolved'[n] = unresolved[n]
          BY <1>2, <4>1
        <4>3. QED  BY <1>5, <2>3, <3>2, <4>1, <4>2
      <3>3. CASE i > n
        <4> DEFINE k == i - n
        <4>1. /\ k \in 1 .. count /\ k + 1 \in 1 .. count
              /\ k \in 1 .. Len(queue) - 1
              /\ n + k = i /\ n + (k + 1) = i + 1
          BY <1>1, <3>3
        <4> HIDE DEF k
        <4>2. unresolved'[i] = queue[k] /\ unresolved'[i + 1] = queue[k + 1]
          BY <1>2, <4>1
        <4>3. QED  BY <2>3, <4>1, <4>2
      <3>4. QED  BY ONLY <1>1, <2>7, <3>1, <3>2, <3>3
    <2>8. QED  BY <2>1, <2>5, <2>6, <2>7
  <1>8. UnresolvedInv'
    <2>1. UNCHANGED <<cutoff, history>>
      OBVIOUS
    <2>2. cutoff'.eviction_count < MaxU64 =>
             /\ history'.transport_epoch = cutoff'.transport_epoch
             /\ \A i \in 1 .. Len(unresolved') :
                   /\ unresolved'[i].transport_epoch = cutoff'.transport_epoch
                   /\ unresolved'[i].sequence = history'.next_sequence + i - 1
             /\ Len(unresolved') > 0 =>
                   unresolved'[1].held_before = history'.current_held
             /\ \A i \in 1 .. Len(unresolved') - 1 :
                   unresolved'[i + 1].held_before = unresolved'[i].held_after
      <3> DEFINE m == Len(unresolved')
      <3>1. m = n + count /\ n + count = m
        BY <1>2
      <3> HIDE DEF m
      <3>2. ASSUME cutoff'.eviction_count < MaxU64
            PROVE  /\ history'.transport_epoch = cutoff'.transport_epoch
                   /\ m > 0 => unresolved'[1].held_before = history'.current_held
        BY ONLY <1>7, <2>1, <3>1, <3>2
      <3>3. ASSUME cutoff'.eviction_count < MaxU64, NEW i \in 1 .. m
            PROVE  /\ unresolved'[i].transport_epoch = cutoff'.transport_epoch
                   /\ unresolved'[i].sequence = history'.next_sequence + i - 1
        BY ONLY <1>7, <2>1, <3>1, <3>3
      <3>4. ASSUME cutoff'.eviction_count < MaxU64, NEW i \in 1 .. m - 1
            PROVE  unresolved'[i + 1].held_before = unresolved'[i].held_after
        <4>1. i \in 1 .. n + count - 1
          BY ONLY <1>1, <3>1, <3>4
        <4>2. cutoff.eviction_count < MaxU64
          BY ONLY <2>1, <3>4
        <4>3. QED  BY ONLY <1>7, <4>1, <4>2
      <3>5. QED  BY ONLY <3>2, <3>3, <3>4 DEF m
    <2>3. QED  BY ONLY <1>4, <2>2 DEF UnresolvedInv
  <1>9. QED  BY <1>6, <1>8

LEMMA DrainClock ==
    ASSUME IInv, NEW count \in 0 .. Len(queue), NEW batch \in Seq(Record),
           Len(batch) = count, \A i \in 1 .. count : batch[i] = queue[i],
           unresolved' = unresolved \o batch,
           Len(queue') = Len(queue) - count,
           \A i \in 1 .. Len(queue') : queue'[i] = queue[i + count],
           UNCHANGED <<qpc, anchors, sampled, host_time, last_resolved_coordinate>>
    PROVE  ClockInv'
  <1> DEFINE n == Len(unresolved)
  <1>1. /\ unresolved \in Seq(Record) /\ n \in Nat
        /\ count \in Nat /\ Len(queue) \in Nat
    BY GameTypes, ChannelTypes
  <1>2. /\ unresolved' \in Seq(Record) /\ Len(unresolved') = n + count
        /\ \A i \in 1 .. n : unresolved'[i] = unresolved[i]
        /\ \A i \in 1 .. count : unresolved'[n + i] = batch[i]
    <2>1. /\ unresolved \o batch \in Seq(Record)
          /\ Len(unresolved \o batch) = n + Len(batch)
          /\ \A i \in 1 .. n : (unresolved \o batch)[i] = unresolved[i]
          /\ \A i \in 1 .. Len(batch) :
                (unresolved \o batch)[n + i] = batch[i]
      <3>1. unresolved \in Seq(Record) /\ batch \in Seq(Record)
        BY <1>1
      <3>2. QED  BY ONLY <3>1, JoinedFacts DEF n
    <2>2. QED  BY <2>1
  <1>3. /\ \A i, j \in 1 .. Len(queue) :
              i <= j => queue[i].observed_time <= queue[j].observed_time
        /\ \A i, j \in 1 .. n :
              i <= j => unresolved[i].observed_time <= unresolved[j].observed_time
        /\ \A i \in 1 .. n, j \in 1 .. Len(queue) :
              unresolved[i].observed_time <= queue[j].observed_time
        /\ \A i \in 1 .. Len(queue) : queue[i].observed_time <= Newest
        /\ \A i \in 1 .. n : unresolved[i].observed_time <= Newest
        /\ \A k \in 1 .. Len(last_resolved_coordinate) :
              LET time == last_resolved_coordinate[k].time
              IN /\ Reached(time, Newest)
                 /\ \A i \in 1 .. n : Reached(time, unresolved[i].observed_time)
                 /\ \A i \in 1 .. Len(queue) :
                       Reached(time, queue[i].observed_time)
    BY DEF IInv, ClockInv, n
  <1> HIDE DEF n
  <1>4. \A i \in 1 .. count : i \in 1 .. Len(queue) /\ unresolved'[n + i] = queue[i]
    <2>1. \A i \in 1 .. count : i \in 1 .. Len(queue)
      BY ONLY <1>1, count \in 0 .. Len(queue)
    <2>2. QED  BY <1>2, <2>1, Zenon
  <1>5. \A i \in 1 .. Len(queue') :
           /\ i + count \in 1 .. Len(queue) /\ i + count > count
           /\ queue'[i] = queue[i + count]
    BY <1>1
  <1>6. \A i \in 1 .. n + count :
           \/ i \in 1 .. n /\ unresolved'[i] = unresolved[i]
           \/ \E k \in 1 .. count :
                 i = n + k /\ k \in 1 .. Len(queue) /\ unresolved'[i] = queue[k]
    <2>1. ASSUME NEW i \in 1 .. n + count, ~(i \in 1 .. n)
          PROVE  \E k \in 1 .. count :
                    i = n + k /\ k \in 1 .. Len(queue) /\ unresolved'[i] = queue[k]
      <3>1. i - n \in 1 .. count /\ n + (i - n) = i
        BY ONLY <1>1, <2>1
      <3>2. QED  BY ONLY <1>4, <3>1
    <2>2. QED  BY ONLY <1>2, <2>1
  <1>7. Newest' = Newest /\ ClockType'
    BY DEF IInv, ClockInv, ClockType, Newest
  <1>8. \A i, j \in 1 .. Len(queue') :
           i <= j => queue'[i].observed_time <= queue'[j].observed_time
    <2>1. ASSUME NEW i \in 1 .. Len(queue'), NEW j \in 1 .. Len(queue'), i <= j
          PROVE  queue'[i].observed_time <= queue'[j].observed_time
      <3>1. Len(queue') \in Nat
        BY <1>1
      <3>2. i + count <= j + count
        BY ONLY <1>1, <2>1, <3>1
      <3>3. QED  BY ONLY <1>3, <1>5, <2>1, <3>2
    <2>2. QED  BY ONLY <2>1
  <1>9. \A i, j \in 1 .. n + count :
           i <= j => unresolved'[i].observed_time <= unresolved'[j].observed_time
    <2>1. ASSUME NEW i \in 1 .. n + count, NEW j \in 1 .. n + count, i <= j
          PROVE  unresolved'[i].observed_time <= unresolved'[j].observed_time
      <3>1. CASE i \in 1 .. n /\ j \in 1 .. n
        BY ONLY <1>2, <1>3, <2>1, <3>1
      <3>2. CASE i \in 1 .. n /\ ~(j \in 1 .. n)
        BY ONLY <1>2, <1>3, <1>6, <2>1, <3>2
      <3>3. CASE ~(i \in 1 .. n)
        <4>1. ~(j \in 1 .. n)
          BY ONLY <1>1, <2>1, <3>3
        <4>2. PICK k \in 1 .. count :
                 i = n + k /\ k \in 1 .. Len(queue) /\ unresolved'[i] = queue[k]
          BY ONLY <1>6, <2>1, <3>3
        <4>3. PICK l \in 1 .. count :
                 j = n + l /\ l \in 1 .. Len(queue) /\ unresolved'[j] = queue[l]
          BY ONLY <1>6, <2>1, <4>1
        <4>4. k <= l
          BY ONLY <1>1, <2>1, <4>2, <4>3
        <4>5. QED  BY ONLY <1>3, <4>2, <4>3, <4>4
      <3>4. QED  BY <3>1, <3>2, <3>3
    <2>2. QED  BY ONLY <2>1
  <1>10. \A i \in 1 .. n + count, j \in 1 .. Len(queue') :
            unresolved'[i].observed_time <= queue'[j].observed_time
    <2>1. ASSUME NEW i \in 1 .. n + count, NEW j \in 1 .. Len(queue')
          PROVE  unresolved'[i].observed_time <= queue'[j].observed_time
      <3>1. CASE i \in 1 .. n
        BY ONLY <1>2, <1>3, <1>5, <2>1, <3>1
      <3>2. CASE ~(i \in 1 .. n)
        <4>1. PICK k \in 1 .. count :
                 i = n + k /\ k \in 1 .. Len(queue) /\ unresolved'[i] = queue[k]
          BY ONLY <1>6, <2>1, <3>2
        <4>2. k <= j + count
          BY ONLY <1>1, <1>5, <2>1, <4>1
        <4>3. QED  BY ONLY <1>3, <1>5, <2>1, <4>1, <4>2
      <3>3. QED  BY <3>1, <3>2
    <2>2. QED  BY ONLY <2>1
  <1>11. /\ \A i \in 1 .. Len(queue') : queue'[i].observed_time <= Newest
         /\ \A i \in 1 .. n + count : unresolved'[i].observed_time <= Newest
    BY ONLY <1>3, <1>5, <1>6
  <1>12. \A k \in 1 .. Len(last_resolved_coordinate) :
            LET time == last_resolved_coordinate[k].time
            IN /\ Reached(time, Newest)
               /\ \A i \in 1 .. n + count :
                     Reached(time, unresolved'[i].observed_time)
               /\ \A i \in 1 .. Len(queue') :
                     Reached(time, queue'[i].observed_time)
    BY ONLY <1>3, <1>5, <1>6
  <1>13. last_resolved_coordinate' = last_resolved_coordinate
    OBVIOUS
  <1>14. ASSUME NEW k \in 1 .. Len(last_resolved_coordinate')
         PROVE  LET time == last_resolved_coordinate[k].time
                IN (/\ Reached(time, Newest)
                    /\ \A i \in 1 .. Len(unresolved) :
                          Reached(time, unresolved[i].observed_time)
                    /\ \A i \in 1 .. Len(queue) :
                          Reached(time, queue[i].observed_time))'
    BY <1>2, <1>7, <1>12, <1>13, ReachedSame
  <1>15. QED
    BY ONLY <1>2, <1>7, <1>8, <1>9, <1>10, <1>11, <1>13, <1>14 DEF ClockInv

LEMMA DrainTransportStep ==
    ASSUME IInv, Alive, DrainTransport
    PROVE  IInv'
  <1> DEFINE room   == UnresolvedCapacity - Len(unresolved)
             span   == IF room < DrainBatch THEN room ELSE DrainBatch
             count  == DrainCount(span)
             batch  == Batch(span)
             status == StatusAfter(span)
             fault  == DrainFault(batch, status, room)
  <1>1. phase = "draining"
    BY DEF DrainTransport
  <1>2. CASE fault # "none"
    <2>1. Die(fault)
      BY <1>2 DEF DrainTransport
    <2>2. eviction_count < MaxU64 => Blameless(fault)
      BY <1>1, DrainDies, Unsuspected
    <2> HIDE DEF fault
    <2>3. QED  BY <2>1, <2>2, DieStep
  <1>3. CASE fault = "none"
    <2>1. /\ queue' = Rest(span) /\ unresolved' = unresolved \o batch
          /\ next_drain_sequence' = next_drain_sequence + Len(batch)
          /\ phase' = IF status.depth = 0 THEN "binding" ELSE "draining"
          /\ UNCHANGED <<transport_epoch, next_sequence, eviction_count,
                         enabled, active, published_held, answer, qpc, anchors, sampled,
                         host_time, stageVars, history, next_delivery_sequence,
                         pending_event_count, last_resolved_coordinate,
                         counters, commitVars, outerVars, fatal>>
      BY <1>3 DEF DrainTransport, clockVars, workerVars
    <2>2. UNCHANGED <<stage_open, clock_bound, stage_active, cutoff>>
      BY <2>1 DEF stageVars
    <2>3. UNCHANGED <<committed_frontier, committed_frontier_is_boundary,
                      committed_boundary_index, drained_at_frontier>>
      BY <2>1 DEF commitVars
    <2>4. UNCHANGED <<outer_horizon, outstanding_scope, outer_event_scope_count,
                      outer_heartbeat_scope_count>>
      BY <2>1 DEF outerVars
    <2>5. /\ count \in 0 .. Len(queue) /\ count <= room
          /\ batch \in Seq(Record) /\ Len(batch) = count
          /\ \A i \in 1 .. count : batch[i] = queue[i]
          /\ queue' \in Seq(Record) /\ Len(queue') = Len(queue) - count
          /\ \A i \in 1 .. Len(queue') : queue'[i] = queue[i + count]
      BY <2>1, DrainCounts
    <2>6. /\ transport_epoch = cutoff.transport_epoch
          /\ eviction_count = cutoff.eviction_count
          /\ \A i \in 1 .. count :
                /\ batch[i].transport_epoch = cutoff.transport_epoch
                /\ batch[i].sequence = next_drain_sequence + i - 1
                /\ batch[i].sequence # MaxU64
      <3>1. /\ status.transport_epoch = transport_epoch
            /\ status.eviction_count = eviction_count
        BY DEF StatusAfter
      <3>2. DOMAIN batch = 1 .. count
        BY <2>5
      <3> HIDE DEF batch, status, count, room, span
      <3>3. /\ status.transport_epoch = cutoff.transport_epoch
            /\ status.eviction_count = cutoff.eviction_count
            /\ ~(\E i \in DOMAIN batch :
                    batch[i].transport_epoch # cutoff.transport_epoch)
            /\ ~(\E i \in DOMAIN batch :
                    batch[i].sequence # next_drain_sequence + i - 1)
            /\ ~(\E i \in DOMAIN batch : batch[i].sequence = MaxU64)
        BY <1>3, DrainFaultFacts
      <3>4. QED  BY <3>1, <3>2, <3>3
    <2>7. /\ Len(unresolved) \in Nat /\ UnresolvedCapacity \in Nat
          /\ Len(queue) \in Nat /\ count \in Nat /\ stage_open
      BY <1>1, <2>5, GameTypes, ChannelTypes, SchedulerAssumption
         DEF IInv, PhaseInv
    <2>8. Len(unresolved) + count <= UnresolvedCapacity
      BY <2>5, <2>7
    <2> HIDE DEF batch, status, count, room, span, fault
    <2>9. /\ UnresolvedInv'
          /\ count = 0 => Handover' = Handover
          /\ count > 0 => Handover' = queue[count].held_after
      BY <2>1, <2>2, <2>5, <2>6, <2>7, <2>8, DrainUnresolved
    <2>10. ClockInv'
      BY <2>1, <2>5, DrainClock
    <2>11. Inv'
      <3>1. answer' \in Answer
        BY <2>1 DEF IInv, Inv, TypeOK
      <3>2. QED  BY <2>1, <2>5, <3>1, RestInv DEF IInv
    <2>12. StageInv'
      BY <2>1, <2>2 DEF IInv, StageInv
    <2>13. LinkInv'
      <3>1. SUFFICES ASSUME SameTransport'
                     PROVE  /\ next_sequence' = next_drain_sequence' + Len(queue')
                            /\ Handover' = IF queue' = <<>> THEN published_held'
                                           ELSE queue'[1].held_before
        BY DEF LinkInv
      <3>2. SameTransport
        BY <2>1, <2>2, <3>1 DEF SameTransport
      <3>3. /\ next_drain_sequence \in Nat
            /\ next_sequence = next_drain_sequence + Len(queue)
            /\ Len(queue) > 0 => Handover = queue[1].held_before
            /\ Len(queue) = 0 => Handover = published_held
            /\ \A i \in 1 .. Len(queue) - 1 :
                  queue[i + 1].held_before = queue[i].held_after
            /\ Len(queue) > 0 => queue[Len(queue)].held_after = published_held
        BY <3>2, QueueFacts
      <3>4. next_sequence' = next_drain_sequence' + Len(queue')
        <4>1. /\ next_drain_sequence' = next_drain_sequence + count
              /\ Len(queue') = Len(queue) - count
              /\ next_sequence' = next_sequence
          BY <2>1, <2>5
        <4>2. QED  BY ONLY <2>7, <3>3, <4>1
      <3>5. published_held' = published_held /\ Len(queue') = Len(queue) - count
            /\ (queue' = <<>> <=> Len(queue') = 0)
        BY <2>1, <2>5
      <3>6. CASE count = Len(queue)
        <4>1. queue' = <<>>
          BY ONLY <2>7, <3>5, <3>6
        <4>2. Handover' = published_held
          BY ONLY <2>7, <2>9, <3>3, <3>6
        <4>3. QED  BY <3>4, <3>5, <4>1, <4>2
      <3>7. CASE count # Len(queue)
        <4>1. /\ Len(queue') > 0 /\ Len(queue') # 0 /\ 1 \in 1 .. Len(queue')
              /\ Len(queue) > 0
          BY <2>5, <2>7, <3>5, <3>7
        <4>2. queue' # <<>> /\ queue'[1] = queue[1 + count]
          BY <2>5, <3>5, <4>1
        <4>3. CASE count = 0
          <5>1. 1 + count = 1
            BY <4>3
          <5>2. QED  BY <2>9, <3>3, <3>4, <4>1, <4>2, <4>3, <5>1
        <4>4. CASE count > 0
          <5>1. count \in 1 .. Len(queue) - 1 /\ 1 + count = count + 1
            BY <2>5, <2>7, <3>7, <4>4
          <5>2. queue[count + 1].held_before = queue[count].held_after
            BY <3>3, <5>1
          <5>3. QED  BY <2>9, <3>4, <4>2, <4>4, <5>1, <5>2
        <4>5. QED  BY <2>7, <4>3, <4>4
      <3>8. QED  BY <3>6, <3>7
    <2>14. AccountInv'
      <3>1. next_drain_sequence' = history.next_sequence + Len(unresolved')
        <4>1. Len(unresolved') = Len(unresolved) + count
          BY <2>1, <2>5, GameTypes, JoinedFacts
        <4>2. next_drain_sequence = history.next_sequence + Len(unresolved)
              /\ next_drain_sequence' = next_drain_sequence + count
              /\ history.next_sequence \in Nat
          BY <2>1, <2>5, GameTypes DEF IInv, AccountInv
        <4>3. QED  BY ONLY <2>7, <4>1, <4>2
      <3>2. QED
        BY <2>1, <2>2, <3>1 DEF IInv, AccountInv, CountersType, Classified
    <2>15. PhaseInv'
      <3>1. outer_horizon = <<>>
        BY <1>1, NoCall
      <3>2. phase' \in {"binding", "draining"}
        BY <2>1
      <3>3. QED
        BY <2>1, <2>2, <2>3, <2>4, <2>7, <3>1, <3>2
           DEF IInv, PhaseInv, OneKindOfScope
    <2>16. FrontierInv' /\ FloorInv' /\ AnchorsInv'
      <3>1. committed_frontier # <<>> =>
               Reached(committed_frontier[1].time, host_time)'
        BY <2>1, <2>3, ReachedSame DEF IInv, FrontierInv
      <3>2. AnchorsInv'
        BY <2>1, ReachedSame DEF IInv
      <3>3. QED
        BY <2>1, <2>2, <2>3, <3>1, <3>2
           DEF IInv, FrontierInv, FloorInv, NextBoundary
    <2>17. ScopeInv'
      BY <1>1, <2>4, NoCall DEF ScopeInv
    <2>18. QED
      BY <2>1, <2>9, <2>10, <2>11, <2>12, <2>13, <2>14, <2>15, <2>16, <2>17,
         NoFault DEF IInv
  <1>4. QED  BY <1>2, <1>3

-----------------------------------------------------------------------------
(* A record is resolved. No retained event lies at or beyond the end of    *)
(* the history, and the newest one bounds what may follow.                 *)
LEMMA HistoryFacts ==
    ASSUME NEW h, NEW d, HistoryOK(h, d)
    PROVE  /\ h.base_next_sequence \in Nat /\ h.next_sequence \in Nat /\ d \in Nat
           /\ h.next_sequence <= MaxU64
           /\ h.base_next_sequence <= d /\ d <= h.next_sequence
           /\ Len(h.entries) \in Nat
           /\ h.base_next_sequence + Len(h.entries) = h.next_sequence
           /\ \A i \in 1 .. Len(h.entries) :
                 /\ h.entries[i].sequence = h.base_next_sequence + i - 1
                 /\ h.entries[i].time \in Int /\ h.entries[i].sequence \in Nat
                 /\ h.entries[i].sequence < h.next_sequence
                 /\ Coordinate(h.entries[i]) \in Coordinates
                 /\ Coordinate(h.entries[i]).time = h.entries[i].time
                 /\ Coordinate(h.entries[i]).sequence = h.entries[i].sequence
           /\ \A i, j \in 1 .. Len(h.entries) :
                 i <= j => h.entries[i].time <= h.entries[j].time
  <1>1. /\ h.entries \in Seq(Entry) /\ h.next_sequence \in U64
        /\ h.base_next_sequence \in Nat
    BY DEF HistoryOK, HistoryType
  <1>2. h.next_sequence \in Nat /\ h.next_sequence <= MaxU64
    BY <1>1, MaxU64Assumption DEF U64
  <1>3. Len(h.entries) \in Nat /\ \A i \in 1 .. Len(h.entries) : h.entries[i] \in Entry
    BY <1>1
  <1>4. /\ h.base_next_sequence + Len(h.entries) = h.next_sequence
        /\ \A i \in 1 .. Len(h.entries) :
              h.entries[i].sequence = h.base_next_sequence + i - 1
        /\ \A i, j \in 1 .. Len(h.entries) :
              i <= j => h.entries[i].time <= h.entries[j].time
    BY DEF HistoryOK, HistoryInOrder
  <1>5. d \in Nat /\ h.base_next_sequence <= d /\ d <= h.next_sequence
    BY DEF HistoryOK, Delivers
  <1>6. \A e \in Entry : e.time \in Int /\ e.sequence \in U64
    BY DEF Entry
  <1>7. ASSUME NEW i \in 1 .. Len(h.entries)
        PROVE  /\ h.entries[i].time \in Int /\ h.entries[i].sequence \in Nat
               /\ h.entries[i].sequence < h.next_sequence
               /\ Coordinate(h.entries[i]) \in Coordinates
               /\ Coordinate(h.entries[i]).time = h.entries[i].time
               /\ Coordinate(h.entries[i]).sequence = h.entries[i].sequence
    <2>1. h.entries[i].time \in Int /\ h.entries[i].sequence \in U64
      BY <1>3, <1>6, <1>7
    <2>2. h.base_next_sequence + i - 1 < h.next_sequence
          /\ h.base_next_sequence + i - 1 \in Nat
      BY ONLY <1>1, <1>2, <1>3, <1>4, <1>7
    <2>3. h.entries[i].sequence = h.base_next_sequence + i - 1
      BY <1>4, <1>7
    <2>4. QED  BY <2>1, <2>2, <2>3 DEF Coordinate, Coordinates
  <1>8. QED  BY <1>1, <1>2, <1>3, <1>4, <1>5, <1>7

(* What the front record is when its stage's transport is countable.       *)
LEMMA FrontFacts ==
    ASSUME IInv, unresolved # <<>>, FrontTime # <<>>
    PROVE  /\ unresolved[1] \in Record /\ unresolved[1].sequence # MaxU64
           /\ unresolved[1].sequence \in Nat
           /\ Len(unresolved) \in Nat \ {0}
           /\ FrontCoordinate \in Coordinates
           /\ FrontCoordinate.time \in Int
           /\ Reached(FrontCoordinate.time, unresolved[1].observed_time)
           /\ FrontCoordinate.sequence = unresolved[1].sequence
           /\ ~EndpointFellBehind =>
                 \A k \in 1 .. Len(last_resolved_coordinate) :
                    last_resolved_coordinate[k].time <= FrontCoordinate.time
           /\ stage_open /\ cutoff.eviction_count < MaxU64 =>
                 /\ unresolved[1].transport_epoch = history.transport_epoch
                 /\ unresolved[1].sequence = history.next_sequence
                 /\ unresolved[1].held_before = history.current_held
  <1>1. /\ unresolved \in Seq(Record) /\ Len(unresolved) \in Nat
        /\ \A i \in 1 .. Len(unresolved) :
              unresolved[i] \in Record /\ unresolved[i].observed_time \in Nat
              /\ unresolved[i].sequence \in Nat
        /\ \A k \in 1 .. Len(last_resolved_coordinate) :
              last_resolved_coordinate[k].time \in Int
        /\ PlayOrigin \in Nat /\ history.next_sequence \in Nat
    BY GameTypes
  <1>2. Len(unresolved) # 0 /\ 1 \in 1 .. Len(unresolved)
    BY <1>1
  <1>3. unresolved[1].sequence # MaxU64
    BY <1>2 DEF IInv, UnresolvedInv, UnresolvedType
  <1>4. unresolved[1].sequence \in U64
    BY <1>1, <1>2 DEF Record
  <1>5. /\ FrontCoordinate.time = FrontTime[1]
        /\ FrontCoordinate.sequence = unresolved[1].sequence
    BY DEF FrontCoordinate
  <1>6. /\ FrontCoordinate.time \in Int /\ AnchorsInv
        /\ Reached(FrontCoordinate.time, unresolved[1].observed_time)
    <2>1. AnchorsInv /\ unresolved[1].observed_time \in Nat
      BY <1>1, <1>2 DEF IInv
    <2>2. QED  BY <1>5, <2>1, JudgementTimeType, AnswerReached DEF FrontTime
  <1>7. FrontCoordinate \in Coordinates
    <2>1. FrontCoordinate = [time |-> FrontCoordinate.time,
                             sequence |-> FrontCoordinate.sequence]
      BY DEF FrontCoordinate
    <2>2. QED  BY <1>4, <1>5, <1>6, <2>1 DEF Coordinates
  <1>8. ~EndpointFellBehind =>
           \A k \in 1 .. Len(last_resolved_coordinate) :
              last_resolved_coordinate[k].time <= FrontCoordinate.time
    <2>1. ASSUME ~EndpointFellBehind, NEW k \in 1 .. Len(last_resolved_coordinate)
          PROVE  last_resolved_coordinate[k].time <= FrontCoordinate.time
      <3>1. Reached(last_resolved_coordinate[k].time, unresolved[1].observed_time)
        BY <1>2, <2>1 DEF IInv, ClockInv
      <3>2. last_resolved_coordinate[k].time \in Int
        BY <1>1, <2>1
      <3>3. QED
        BY <1>1, <1>2, <1>5, <1>6, <2>1, <3>1, <3>2, ReachedAnswer DEF FrontTime
    <2>2. QED  BY <2>1
  <1>9. stage_open /\ cutoff.eviction_count < MaxU64 =>
           /\ unresolved[1].transport_epoch = history.transport_epoch
           /\ unresolved[1].sequence = history.next_sequence
           /\ unresolved[1].held_before = history.current_held
    <2>1. SUFFICES ASSUME stage_open, cutoff.eviction_count < MaxU64
                   PROVE  /\ unresolved[1].transport_epoch = history.transport_epoch
                          /\ unresolved[1].sequence = history.next_sequence
                          /\ unresolved[1].held_before = history.current_held
      OBVIOUS
    <2>2. /\ history.transport_epoch = cutoff.transport_epoch
          /\ unresolved[1].transport_epoch = cutoff.transport_epoch
          /\ unresolved[1].sequence = history.next_sequence + 1 - 1
      BY <1>2, <2>1 DEF IInv, UnresolvedInv
    <2>3. unresolved[1].held_before = history.current_held
      BY <1>1, <1>2, <2>1 DEF IInv, UnresolvedInv
    <2>4. QED  BY <1>1, <2>2, <2>3
  <1>10. QED  BY <1>1, <1>2, <1>3, <1>4, <1>5, <1>6, <1>7, <1>8, <1>9

LEMMA ResolveDies ==
    ASSUME IInv, Alive, phase = "resolving", unresolved # <<>>,
           FrontTime # <<>>, eviction_count < MaxU64
    PROVE  Blameless(ResolveFault(IsBehindCommittedFrontier(FrontCoordinate)))
  <1> DEFINE late   == IsBehindCommittedFrontier(FrontCoordinate)
             behind == \E i \in DOMAIN last_resolved_coordinate :
                          ~Precedes(last_resolved_coordinate[i], FrontCoordinate)
             early  == late /\ next_delivery_sequence # unresolved[1].sequence
             odd    == ~CanAppend(history, unresolved[1], FrontCoordinate.time)
             f      == ResolveFault(late)
  <1>1. stage_open /\ cutoff.eviction_count < MaxU64
    BY ChannelTypes DEF IInv, PhaseInv, StageInv
  <1>2. /\ FrontCoordinate.time \in Int
        /\ FrontCoordinate.sequence = unresolved[1].sequence
        /\ unresolved[1].sequence = history.next_sequence
        /\ unresolved[1].transport_epoch = history.transport_epoch
        /\ unresolved[1].held_before = history.current_held
        /\ ~EndpointFellBehind =>
              \A k \in 1 .. Len(last_resolved_coordinate) :
                 last_resolved_coordinate[k].time <= FrontCoordinate.time
    BY <1>1, FrontFacts
  <1>3. /\ last_resolved_coordinate = history.last_coordinate
        /\ last_resolved_coordinate \in Seq(Coordinates)
        /\ \A i \in 1 .. Len(last_resolved_coordinate) :
              /\ last_resolved_coordinate[i].sequence = history.next_sequence - 1
              /\ last_resolved_coordinate[i].time \in Int
    BY GameTypes DEF IInv, AccountInv, HistoryOK, HistoryInOrder, HistoryType
  <1>4. DOMAIN last_resolved_coordinate = 1 .. Len(last_resolved_coordinate)
    BY <1>3
  <1>5. history.next_sequence \in Nat /\ next_delivery_sequence \in Nat
        /\ next_delivery_sequence <= history.next_sequence
    BY GameTypes
  <1>6. behind => EndpointFellBehind
    BY <1>2, <1>3, <1>4, <1>5 DEF Precedes
  <1>7. ~behind => ~odd
    <2>1. SUFFICES ASSUME ~behind PROVE ~odd
      OBVIOUS
    <2>2. \A last \in {history.last_coordinate[i] :
                         i \in DOMAIN history.last_coordinate} :
             \/ FrontCoordinate.time > last.time
             \/ /\ FrontCoordinate.time = last.time
                /\ unresolved[1].sequence > last.sequence
      BY <1>2, <1>3, <1>4, <1>5, <2>1 DEF Precedes
    <2>3. QED  BY <1>2, <2>2 DEF CanAppend
  <1>8. ~behind => ~early
    <2>1. SUFFICES ASSUME ~behind, late,
                          next_delivery_sequence # history.next_sequence
                   PROVE  FALSE
      BY <1>2
    <2> DEFINE h == history
               n == Len(history.entries)
               c == committed_frontier[1]
    <2>2. HistoryOK(h, next_delivery_sequence)
      BY DEF IInv, AccountInv
    <2>3. /\ h.base_next_sequence \in Nat
          /\ h.base_next_sequence <= next_delivery_sequence
          /\ n \in Nat /\ h.base_next_sequence + n = h.next_sequence
          /\ \A i \in 1 .. n :
                /\ h.entries[i].sequence = h.base_next_sequence + i - 1
                /\ h.entries[i].time \in Int
                /\ Coordinate(h.entries[i]).time = h.entries[i].time
                /\ Coordinate(h.entries[i]).sequence = h.entries[i].sequence
      BY <2>2, HistoryFacts
    <2>4. n > 0 /\ n \in 1 .. n
      BY <1>5, <2>1, <2>3
    <2>5. h.entries[n].sequence = h.next_sequence - 1
          /\ h.entries[n].sequence >= next_delivery_sequence
      <3>1. h.entries[n].sequence = h.base_next_sequence + n - 1
        BY <2>3, <2>4, Zenon
      <3>2. h.base_next_sequence + n - 1 = h.next_sequence - 1
        BY <2>3
      <3>3. h.next_sequence - 1 >= next_delivery_sequence
        BY <1>5, <2>1
      <3>4. QED  BY <3>1, <3>2, <3>3
    <2>6. h.last_coordinate = <<Coordinate(h.entries[n])>>
      BY <2>2, <2>4 DEF HistoryOK, HistoryInOrder
    <2>7. h.entries[n].time <= FrontCoordinate.time
      <3>1. 1 \in 1 .. Len(last_resolved_coordinate)
            /\ last_resolved_coordinate[1] = Coordinate(h.entries[n])
        BY <1>3, <2>6
      <3>2. Precedes(last_resolved_coordinate[1], FrontCoordinate)
        BY <1>4, <2>1, <3>1
      <3>3. /\ last_resolved_coordinate[1].time = h.entries[n].time
            /\ h.entries[n].time \in Int
        BY <2>3, <2>4, <3>1
      <3>4. QED  BY <1>2, <3>2, <3>3 DEF Precedes
    <2>8. /\ committed_frontier # <<>>
          /\ \/ FrontCoordinate.time < c.time
             \/ /\ FrontCoordinate.time = c.time
                /\ \/ committed_frontier_is_boundary
                   \/ FrontCoordinate.sequence <= c.sequence
          /\ c.time \in Int /\ c.sequence \in Nat
      <3>1. committed_frontier \in Seq(Coordinates) /\ Len(committed_frontier) <= 1
        BY DEF IInv, FrontierInv
      <3>2. committed_frontier # <<>>
        BY <2>1 DEF IsBehindCommittedFrontier
      <3>3. DOMAIN committed_frontier = 1 .. 1 /\ c \in Coordinates
        BY <3>1, <3>2, OptionalFacts
      <3>4. c.time \in Int /\ c.sequence \in Nat
        BY <3>3, MaxU64Assumption DEF Coordinates, U64
      <3>5. QED  BY <2>1, <3>2, <3>3, <3>4 DEF IsBehindCommittedFrontier
    <2>9. /\ \/ c.time < h.entries[n].time
             \/ c.time = h.entries[n].time /\ c.sequence < h.entries[n].sequence
          /\ committed_frontier_is_boundary => h.entries[n].time > c.time
      <3>1. AheadOf(h, next_delivery_sequence, c, committed_frontier_is_boundary)
        BY <2>8 DEF IInv, FrontierInv
      <3>2. /\ Precedes(c, Coordinate(h.entries[n]))
            /\ committed_frontier_is_boundary => h.entries[n].time > c.time
        BY <2>4, <2>5, <3>1 DEF AheadOf
      <3>3. QED  BY <2>3, <2>4, <3>2 DEF Precedes
    <2>10. h.entries[n].time \in Int /\ FrontCoordinate.sequence = h.next_sequence
      BY <1>2, <2>3, <2>4
    <2> HIDE DEF h, n, c, late
    <2>11. QED  BY <1>2, <1>5, <2>5, <2>7, <2>8, <2>9, <2>10 DEF h
  <1>9. late \in BOOLEAN
    BY DEF IsBehindCommittedFrontier
  <1> HIDE DEF late
  <1>10. /\ f = "ResolvedCoordinateRegressed" => behind
         /\ f \in Suspects /\ f # "ResolvedCoordinateRegressed" =>
               ~behind /\ (early \/ odd)
    BY <1>9, ResolveFaultFacts
  <1> HIDE DEF behind, early, odd, f
  <1>11. /\ f \in Suspects => f = "ResolvedCoordinateRegressed"
         /\ f = "ResolvedCoordinateRegressed" => EndpointFellBehind
    BY <1>6, <1>7, <1>8, <1>10
  <1>12. Blameless(f)
    BY <1>11 DEF Blameless, Suspects, OrderFaults
  <1>13. QED  BY <1>12 DEF f, late

(* One more record is accounted for.                                       *)
LEMMA CountOne ==
    ASSUME CountersType,
           \/ counters' = [counters EXCEPT !.event_scopes = @ + 1]
           \/ counters' = [counters EXCEPT !.late_records = @ + 1]
           \/ counters' = [counters EXCEPT !.overload_drops = @ + 1]
    PROVE  CountersType' /\ Classified' = Classified + 1 /\ Classified \in Nat
  <1> DEFINE a == counters.event_scopes
             b == counters.late_records
             c == counters.overload_drops
  <1>1. a \in Nat /\ b \in Nat /\ c \in Nat
    BY DEF CountersType
  <1>2. /\ \/ counters'.event_scopes = a + 1 /\ counters'.late_records = b
              /\ counters'.overload_drops = c
           \/ counters'.event_scopes = a /\ counters'.late_records = b + 1
              /\ counters'.overload_drops = c
           \/ counters'.event_scopes = a /\ counters'.late_records = b
              /\ counters'.overload_drops = c + 1
        /\ CountersType'
    BY DEF CountersType
  <1>3. /\ Classified = a + b + c
        /\ Classified' = counters'.event_scopes + counters'.late_records
                            + counters'.overload_drops
    BY DEF Classified
  <1> HIDE DEF a, b, c
  <1>4. Classified' = Classified + 1 /\ Classified \in Nat
    BY ONLY <1>1, <1>2, <1>3
  <1>5. QED  BY <1>2, <1>4

LEMMA TailFacts ==
    ASSUME NEW S, NEW q \in Seq(S), q # <<>>
    PROVE  /\ Tail(q) \in Seq(S) /\ Len(q) \in Nat \ {0}
           /\ Len(Tail(q)) = Len(q) - 1
           /\ \A i \in 1 .. Len(q) - 1 : Tail(q)[i] = q[i + 1]
  OBVIOUS

(* The front record leaves the unresolved ones and ends the history.       *)
LEMMA ResolveUnresolved ==
    ASSUME IInv, unresolved # <<>>, unresolved' = Tail(unresolved),
           history'.next_sequence = history.next_sequence + 1,
           history'.transport_epoch = history.transport_epoch,
           history'.current_held = unresolved[1].held_after,
           UNCHANGED <<stage_open, cutoff>>
    PROVE  UnresolvedInv' /\ Handover' = Handover
  <1> DEFINE n == Len(unresolved)
  <1>1. /\ Tail(unresolved) \in Seq(Record) /\ n \in Nat \ {0}
        /\ Len(Tail(unresolved)) = n - 1
        /\ \A i \in 1 .. n - 1 : Tail(unresolved)[i] = unresolved[i + 1]
    BY GameTypes, TailFacts
  <1>2. /\ unresolved' \in Seq(Record) /\ Len(unresolved') = n - 1
        /\ \A i \in 1 .. n - 1 : unresolved'[i] = unresolved[i + 1]
    BY <1>1
  <1>3. UnresolvedType /\ history.next_sequence \in Nat
    BY GameTypes DEF IInv, UnresolvedInv
  <1>4. UnresolvedType'
    <2>1. n - 1 <= UnresolvedCapacity
      BY <1>1, <1>3, SchedulerAssumption DEF UnresolvedType
    <2>2. \A i \in 1 .. n - 1 : unresolved'[i].sequence # MaxU64
      <3>1. \A i \in 1 .. n : unresolved[i].sequence # MaxU64
        BY <1>3 DEF UnresolvedType
      <3>2. \A i \in 1 .. n - 1 : i + 1 \in 1 .. n
        BY <1>1
      <3>3. QED  BY <1>2, <3>1, <3>2
    <2>3. QED  BY <1>2, <2>1, <2>2 DEF UnresolvedType
  <1> HIDE DEF n
  <1>5. Handover' = Handover
    <2>1. Handover = unresolved[n].held_after
      BY DEF Handover, n
    <2>2. CASE n = 1
      <3>1. unresolved' = <<>>
        BY <1>2, <2>2
      <3>2. Handover' = unresolved[1].held_after
        BY <3>1 DEF Handover
      <3>3. QED  BY <2>1, <2>2, <3>2
    <2>3. CASE n # 1
      <3>1. n - 1 \in 1 .. n - 1 /\ n - 1 + 1 = n /\ n - 1 # 0
        BY ONLY <1>1, <2>3
      <3>2. unresolved' # <<>>
        BY ONLY <1>2, <3>1
      <3>3. Handover' = unresolved'[n - 1].held_after
        BY <1>2, <3>2 DEF Handover
      <3>4. unresolved'[n - 1] = unresolved[n]
        BY <1>2, <3>1
      <3>5. QED  BY <2>1, <3>3, <3>4
    <2>4. QED  BY <2>2, <2>3
  <1>6. ASSUME stage_open, cutoff.eviction_count < MaxU64
        PROVE  /\ history'.transport_epoch = cutoff.transport_epoch
               /\ \A i \in 1 .. n - 1 :
                     /\ unresolved'[i].transport_epoch = cutoff.transport_epoch
                     /\ unresolved'[i].sequence = history'.next_sequence + i - 1
               /\ n - 1 > 0 =>
                     unresolved'[1].held_before = history'.current_held
               /\ \A i \in 1 .. n - 1 - 1 :
                     unresolved'[i + 1].held_before = unresolved'[i].held_after
    <2>1. /\ history.transport_epoch = cutoff.transport_epoch
          /\ \A i \in 1 .. n :
                /\ unresolved[i].transport_epoch = cutoff.transport_epoch
                /\ unresolved[i].sequence = history.next_sequence + i - 1
          /\ \A i \in 1 .. n - 1 :
                unresolved[i + 1].held_before = unresolved[i].held_after
      BY <1>6 DEF IInv, UnresolvedInv, n
    <2>2. history'.transport_epoch = cutoff.transport_epoch
      BY <2>1
    <2>3. ASSUME NEW i \in 1 .. n - 1
          PROVE  /\ unresolved'[i].transport_epoch = cutoff.transport_epoch
                 /\ unresolved'[i].sequence = history'.next_sequence + i - 1
      <3>1. i + 1 \in 1 .. n
            /\ history.next_sequence + (i + 1) - 1
                  = history.next_sequence + 1 + i - 1
        BY ONLY <1>1, <1>3, <2>3
      <3>2. QED  BY <1>2, <2>1, <3>1
    <2>4. n - 1 > 0 => unresolved'[1].held_before = history'.current_held
      <3>1. n - 1 > 0 => 1 \in 1 .. n - 1 /\ 1 + 1 \in 1 .. n
        BY ONLY <1>1
      <3>2. QED  BY <1>2, <2>1, <3>1
    <2>5. ASSUME NEW i \in 1 .. n - 1 - 1
          PROVE  unresolved'[i + 1].held_before = unresolved'[i].held_after
      <3>1. i \in 1 .. n - 1 /\ i + 1 \in 1 .. n - 1
        BY ONLY <1>1, <2>5
      <3>2. QED  BY <1>2, <2>1, <3>1
    <2>6. QED  BY <2>2, <2>3, <2>4, <2>5
  <1>7. UnresolvedInv'
    <2>1. /\ history'.transport_epoch = history.transport_epoch
          /\ stage_open' = stage_open /\ cutoff' = cutoff
      OBVIOUS
    <2>2. ASSUME stage_open', cutoff'.eviction_count < MaxU64
          PROVE  /\ history'.transport_epoch = cutoff'.transport_epoch
                 /\ \A i \in 1 .. Len(unresolved') :
                       /\ unresolved'[i].transport_epoch = cutoff'.transport_epoch
                       /\ unresolved'[i].sequence = history'.next_sequence + i - 1
                 /\ Len(unresolved') > 0 =>
                       unresolved'[1].held_before = history'.current_held
                 /\ \A i \in 1 .. Len(unresolved') - 1 :
                       unresolved'[i + 1].held_before = unresolved'[i].held_after
      BY ONLY <1>2, <1>6, <2>1, <2>2
    <2>3. QED  BY ONLY <1>4, <2>2 DEF UnresolvedInv
  <1>8. QED  BY <1>5, <1>7

LEMMA ResolveClock ==
    ASSUME IInv, unresolved # <<>>, FrontTime # <<>>,
           unresolved' = Tail(unresolved),
           last_resolved_coordinate' = <<FrontCoordinate>>,
           UNCHANGED <<queue, qpc, anchors, sampled, host_time>>
    PROVE  ClockInv'
  <1> DEFINE n == Len(unresolved)
  <1>1. /\ Tail(unresolved) \in Seq(Record) /\ n \in Nat \ {0}
        /\ Len(Tail(unresolved)) = n - 1
        /\ \A i \in 1 .. n - 1 : Tail(unresolved)[i] = unresolved[i + 1]
    BY GameTypes, TailFacts
  <1>2. /\ Len(unresolved') = n - 1
        /\ \A i \in 1 .. n - 1 :
              /\ unresolved'[i] = unresolved[i + 1]
              /\ i + 1 \in 1 .. n /\ 1 <= i + 1 /\ 1 \in 1 .. n
    BY <1>1
  <1>3. /\ \A i, j \in 1 .. n :
              i <= j => unresolved[i].observed_time <= unresolved[j].observed_time
        /\ \A i \in 1 .. n, j \in 1 .. Len(queue) :
              unresolved[i].observed_time <= queue[j].observed_time
        /\ \A i \in 1 .. n : unresolved[i].observed_time <= Newest
        /\ \A i, j \in 1 .. Len(queue) :
              i <= j => queue[i].observed_time <= queue[j].observed_time
        /\ \A i \in 1 .. Len(queue) : queue[i].observed_time <= Newest
    BY DEF IInv, ClockInv
  <1>4. /\ 1 \in 1 .. n /\ FrontCoordinate.time \in Int /\ AnchorsInv
        /\ Reached(FrontCoordinate.time, unresolved[1].observed_time)
    BY <1>1, FrontFacts DEF IInv
  <1>5. Newest' = Newest /\ ClockType'
    BY DEF IInv, ClockInv, ClockType, Newest
  <1>6. /\ last_resolved_coordinate' = <<FrontCoordinate>> /\ queue' = queue
    OBVIOUS
  <1> HIDE DEF n
  <1>7. \A i, j \in 1 .. n - 1 :
           i <= j => unresolved'[i].observed_time <= unresolved'[j].observed_time
    <2>1. ASSUME NEW i \in 1 .. n - 1, NEW j \in 1 .. n - 1, i <= j
          PROVE  unresolved'[i].observed_time <= unresolved'[j].observed_time
      <3>1. i + 1 <= j + 1
        BY ONLY <1>1, <2>1
      <3>2. QED  BY ONLY <1>2, <1>3, <2>1, <3>1
    <2>2. QED  BY ONLY <2>1
  <1>8. /\ \A i \in 1 .. n - 1, j \in 1 .. Len(queue) :
              unresolved'[i].observed_time <= queue[j].observed_time
        /\ \A i \in 1 .. n - 1 : unresolved'[i].observed_time <= Newest
        /\ \A i \in 1 .. n - 1 :
              unresolved[1].observed_time <= unresolved'[i].observed_time
    BY ONLY <1>2, <1>3
  <1>9. /\ Newest \in Nat /\ \A i \in 1 .. n : unresolved[i].observed_time \in Nat
        /\ \A i \in 1 .. Len(queue) : queue[i].observed_time \in Nat
    BY ChannelTypes, GameTypes, ClockTypes DEF IInv, ClockInv, n
  <1>10. LET time == FrontCoordinate.time
         IN /\ Reached(time, Newest)
            /\ \A i \in 1 .. n - 1 : Reached(time, unresolved'[i].observed_time)
            /\ \A i \in 1 .. Len(queue) : Reached(time, queue[i].observed_time)
    <2> DEFINE time == FrontCoordinate.time
               first == unresolved[1].observed_time
    <2>1. ASSUME NEW tick \in Nat, first <= tick
          PROVE  Reached(time, tick)
      <3>1. first \in Nat /\ time \in Int /\ time <= time /\ Reached(time, first)
        BY <1>4, <1>9
      <3> HIDE DEF time, first
      <3>2. QED  BY <1>4, <2>1, <3>1, ReachedLater
    <2> HIDE DEF time
    <2>2. Reached(time, Newest)
      BY <1>3, <1>4, <1>9, <2>1
    <2>3. \A i \in 1 .. n - 1 : Reached(time, unresolved'[i].observed_time)
      BY <1>2, <1>8, <1>9, <2>1
    <2>4. \A i \in 1 .. Len(queue) : Reached(time, queue[i].observed_time)
      BY <1>3, <1>4, <1>9, <2>1
    <2>5. QED  BY <2>2, <2>3, <2>4 DEF time
  <1>11. ASSUME NEW k \in 1 .. Len(last_resolved_coordinate')
         PROVE  (LET time == last_resolved_coordinate[k].time
                 IN /\ Reached(time, Newest)
                    /\ \A i \in 1 .. Len(unresolved) :
                          Reached(time, unresolved[i].observed_time)
                    /\ \A i \in 1 .. Len(queue) :
                          Reached(time, queue[i].observed_time))'
    <2>1. last_resolved_coordinate'[k] = FrontCoordinate
      BY ONLY <1>6, <1>11
    <2>2. QED  BY <1>2, <1>5, <1>6, <1>10, <2>1, ReachedSame
  <1>12. QED  BY ONLY <1>2, <1>3, <1>5, <1>6, <1>7, <1>8, <1>11 DEF ClockInv

LEMMA ResolveFrontStep ==
    ASSUME IInv, Alive, ResolveFront
    PROVE  IInv'
  <1> DEFINE record == unresolved[1]
             late   == IsBehindCommittedFrontier(FrontCoordinate)
             h == history
             d == next_delivery_sequence
             n == Len(history.entries)
             g == AppendEntry(history, record, FrontCoordinate.time, ~late)
             e == IF ~late THEN d ELSE record.sequence + 1
  <1>1. /\ phase = "resolving" /\ unresolved # <<>> /\ FrontTime # <<>>
        /\ stage_open /\ stage_active
    BY DEF ResolveFront, IInv, PhaseInv
  <1>2. CASE ResolveFault(late) # "none"
    <2>1. Die(ResolveFault(late))
      BY <1>2 DEF ResolveFront
    <2>2. eviction_count < MaxU64 => Blameless(ResolveFault(late))
      BY <1>1, ResolveDies
    <2> HIDE DEF late
    <2>3. QED  BY <2>1, <2>2, DieStep
  <1>3. CASE ResolveFault(late) = "none"
    <2>1. /\ unresolved' = Tail(unresolved)
          /\ last_resolved_coordinate' = <<FrontCoordinate>>
          /\ history' = g
          /\ late => /\ next_delivery_sequence' = record.sequence + 1
                     /\ counters' = [counters EXCEPT !.late_records = @ + 1]
                     /\ pending_event_count' = pending_event_count
          /\ ~late => /\ pending_event_count' = pending_event_count + 1
                      /\ next_delivery_sequence' = next_delivery_sequence
                      /\ counters' = counters
          /\ UNCHANGED <<vars, qpc, anchors, sampled, phase, host_time, stageVars,
                         next_drain_sequence, commitVars, outerVars, fatal>>
      BY <1>3 DEF ResolveFront, clockVars, workerVars
    <2>2. UNCHANGED <<stage_open, clock_bound, stage_active, cutoff>>
      BY <2>1 DEF stageVars
    <2>3. UNCHANGED <<committed_frontier, committed_frontier_is_boundary,
                      committed_boundary_index, drained_at_frontier>>
      BY <2>1 DEF commitVars
    <2>4. UNCHANGED <<outer_horizon, outstanding_scope, outer_event_scope_count,
                      outer_heartbeat_scope_count>>
      BY <2>1 DEF outerVars
    <2>5. late \in BOOLEAN
      BY DEF IsBehindCommittedFrontier
    <2>6. /\ record \in Record /\ record.sequence # MaxU64
          /\ record.sequence \in Nat
          /\ FrontCoordinate.time \in Int /\ FrontCoordinate.sequence = record.sequence
          /\ FrontCoordinate \in Coordinates
      BY <1>1, FrontFacts
    <2>7. /\ CanAppend(h, record, FrontCoordinate.time)
          /\ late => d = record.sequence
      <3> HIDE DEF late
      <3>1. QED  BY <1>3, <2>5, ResolveFaultFacts
    <2>8. HistoryOK(h, d)
      BY DEF IInv, AccountInv
    <2>9. record.sequence = h.next_sequence
      BY <2>7 DEF CanAppend
    <2>10. ~~late => d = h.next_sequence
      BY <2>7, <2>9
    <2> HIDE DEF record, late, h
    <2>11. /\ HistoryOK(g, e)
           /\ g.next_sequence = h.next_sequence + 1
           /\ g.transport_epoch = h.transport_epoch
           /\ g.current_held = record.held_after
           /\ g.causal_time_floor = h.causal_time_floor
           /\ g.last_coordinate
                 = <<[time |-> FrontCoordinate.time, sequence |-> record.sequence]>>
           /\ Len(g.entries) = Len(h.entries) + 1
           /\ \A i \in 1 .. Len(h.entries) : g.entries[i] = h.entries[i]
           /\ g.entries[Len(g.entries)].time = FrontCoordinate.time
           /\ g.entries[Len(g.entries)].sequence = record.sequence
      <3> DEFINE ok == ~late
                 time == FrontCoordinate.time
                 y == AppendEntry(h, record, time, ok)
                 z == IF ok THEN d ELSE record.sequence + 1
      <3>1. ok \in BOOLEAN /\ (~ok => d = h.next_sequence)
        BY <2>5, <2>10
      <3>2. g = y /\ e = z
        BY DEF h
      <3> HIDE DEF ok, d, g, e
      <3>3. /\ HistoryOK(y, z)
            /\ y.next_sequence = h.next_sequence + 1
            /\ y.transport_epoch = h.transport_epoch
            /\ y.current_held = record.held_after
            /\ y.causal_time_floor = h.causal_time_floor
            /\ y.last_coordinate = <<[time |-> time, sequence |-> record.sequence]>>
            /\ Len(y.entries) = Len(h.entries) + 1
            /\ \A i \in 1 .. Len(h.entries) : y.entries[i] = h.entries[i]
            /\ y.entries[Len(y.entries)].time = time
            /\ y.entries[Len(y.entries)].sequence = record.sequence
        BY ONLY <2>6, <2>7, <2>8, <3>1, AppendHistory
      <3> HIDE DEF y, z
      <3>4. QED  BY <3>2, <3>3
    <2> HIDE DEF g
    <2>12. /\ h.next_sequence \in Nat /\ d \in Nat /\ d <= h.next_sequence
           /\ Len(h.entries) \in Nat
           /\ pending_event_count = h.next_sequence - d
           /\ h.base_next_sequence + Len(h.entries) = h.next_sequence
           /\ \A i \in 1 .. Len(h.entries) :
                 h.entries[i].sequence < h.next_sequence
                 /\ h.entries[i].sequence \in Nat
      BY <2>8, HistoryFacts DEF IInv, AccountInv, h
    <2>13. next_delivery_sequence' = e
      BY <2>1, <2>5 DEF e
    <2>14. Inv' /\ queue' = queue /\ StageInv'
      BY <2>1, <2>2, ChannelSame DEF IInv, StageInv
    <2>15. UnresolvedInv' /\ Handover' = Handover
      BY <1>1, <2>1, <2>2, <2>11, ResolveUnresolved DEF h, record
    <2>16. ClockInv'
      BY <1>1, <2>1, <2>14, ResolveClock
    <2>17. LinkInv'
      <3>1. SameTransport' <=> SameTransport
        BY <2>1, <2>2, ChannelSame DEF SameTransport
      <3>2. QED
        BY <2>1, <2>15, <3>1, ChannelSame DEF IInv, LinkInv
    <2>18. AccountInv'
      <3>1. HistoryOK(history', next_delivery_sequence')
        BY <2>1, <2>11, <2>13
      <3>2. last_resolved_coordinate' = history'.last_coordinate
        BY <2>1, <2>6, <2>11 DEF FrontCoordinate
      <3>3. next_drain_sequence' = history'.next_sequence + Len(unresolved')
        <4>1. Len(unresolved') = Len(unresolved) - 1 /\ Len(unresolved) \in Nat
          BY <1>1, <2>1, GameTypes, TailFacts
        <4>2. next_drain_sequence = h.next_sequence + Len(unresolved)
              /\ next_drain_sequence' = next_drain_sequence
              /\ history'.next_sequence = h.next_sequence + 1
          BY <2>1, <2>11 DEF IInv, AccountInv, h
        <4>3. QED  BY ONLY <2>12, <4>1, <4>2
      <3>4. pending_event_count'
               = history'.next_sequence - next_delivery_sequence'
        <4>1. history'.next_sequence = h.next_sequence + 1
          BY <2>1, <2>11
        <4>2. CASE late
          BY <2>1, <2>7, <2>9, <2>12, <4>1, <4>2
        <4>3. CASE ~late
          BY <2>1, <2>12, <4>1, <4>3
        <4>4. QED  BY <4>2, <4>3
      <3>5. CountersType' /\
            (stage_open' => Classified' = next_delivery_sequence'
                                             - cutoff'.first_stage_sequence)
        <4>1. /\ counters \in [event_scopes: Nat, late_records: Nat,
                               overload_drops: Nat, cleanup_drops: Nat]
              /\ Classified = d - cutoff.first_stage_sequence
              /\ cutoff.first_stage_sequence \in Nat
          BY <1>1, ChannelTypes DEF IInv, AccountInv, CountersType
        <4>2. CASE late
          <5>1. CountersType' /\ Classified' = Classified + 1
            BY <2>1, <4>2, CountOne DEF IInv, AccountInv
          <5>2. next_delivery_sequence' = d + 1 /\ cutoff' = cutoff
            BY <2>1, <2>2, <2>7, <4>2
          <5>3. (d + 1) - cutoff.first_stage_sequence
                   = (d - cutoff.first_stage_sequence) + 1
            <6>1. \A a, b \in Int : (a + 1) - b = (a - b) + 1
              BY ONLY TRUE
            <6>2. d \in Int /\ cutoff.first_stage_sequence \in Int
              BY <2>12, <4>1
            <6>3. QED  BY ONLY <6>1, <6>2, Zenon
          <5>4. Classified' = (d - cutoff.first_stage_sequence) + 1
            BY ONLY <4>1, <5>1
          <5>5. Classified' = next_delivery_sequence' - cutoff'.first_stage_sequence
            <6>1. next_delivery_sequence' - cutoff'.first_stage_sequence
                     = (d + 1) - cutoff.first_stage_sequence
              BY ONLY <5>2
            <6>2. Classified' = (d + 1) - cutoff.first_stage_sequence
              BY ONLY <5>3, <5>4, Zenon
            <6>3. QED  BY ONLY <6>1, <6>2, Zenon
          <5>6. QED  BY ONLY <5>1, <5>5
        <4>3. CASE ~late
          BY <2>1, <2>2, <4>1, <4>3 DEF CountersType, Classified
        <4>4. QED  BY <4>2, <4>3
      <3>6. QED  BY <3>1, <3>2, <3>3, <3>4, <3>5 DEF AccountInv
    <2>19. PhaseInv'
      <3>1. outer_horizon = <<>>
        BY <1>1, NoCall
      <3>2. drained_at_frontier <= history'.next_sequence
            /\ drained_at_frontier \in Nat
        <4>1. drained_at_frontier \in Nat /\ drained_at_frontier <= h.next_sequence
              /\ history'.next_sequence = h.next_sequence + 1
          BY <2>1, <2>11 DEF IInv, PhaseInv, h
        <4>2. QED  BY <2>12, <4>1
      <3>3. QED
        BY <2>1, <2>2, <2>3, <2>4, <3>1, <3>2 DEF IInv, PhaseInv, OneKindOfScope
    <2>20. FrontierInv'
      <3>1. ASSUME committed_frontier # <<>>
            PROVE  AheadOf(g, e, committed_frontier[1],
                           committed_frontier_is_boundary)
        <4> DEFINE c == committed_frontier[1]
        <4>1. AheadOf(h, d, c, committed_frontier_is_boundary)
          BY <3>1 DEF IInv, FrontierInv, h
        <4>2. /\ DOMAIN committed_frontier = 1 .. 1
              /\ c.time \in Int /\ c.sequence \in Nat
          <5>1. DOMAIN committed_frontier = 1 .. 1 /\ c \in Coordinates
            BY <3>1, OptionalFacts DEF IInv, FrontierInv
          <5>2. QED  BY <5>1, MaxU64Assumption DEF Coordinates, U64
        <4>3. ASSUME NEW i \in 1 .. Len(g.entries), g.entries[i].sequence >= e
              PROVE  /\ Precedes(c, Coordinate(g.entries[i]))
                     /\ committed_frontier_is_boundary => g.entries[i].time > c.time
          <5>1. CASE late
            <6>1. g.entries[i].sequence <= h.next_sequence
                  /\ g.entries[i].sequence \in Nat
              <7>1. i \in 1 .. Len(h.entries) \/ i = Len(g.entries)
                BY <2>11, <2>12, <4>3
              <7>2. CASE i \in 1 .. Len(h.entries)
                <8>1. g.entries[i] = h.entries[i]
                  BY <2>11, <7>2
                <8>2. QED  BY ONLY <2>12, <7>2, <8>1
              <7>3. CASE i = Len(g.entries)
                BY ONLY <2>6, <2>9, <2>11, <2>12, <7>3
              <7>4. QED  BY <7>1, <7>2, <7>3
            <6>2. e = h.next_sequence + 1
              BY <2>9, <5>1
            <6>3. QED  BY <2>12, <4>3, <6>1, <6>2
          <5>2. CASE ~late /\ i \in 1 .. Len(h.entries)
            BY <2>11, <4>1, <4>3, <5>2 DEF AheadOf
          <5>3. CASE ~late /\ i = Len(g.entries)
            <6>1. Coordinate(g.entries[i])
                     = [time |-> FrontCoordinate.time, sequence |-> record.sequence]
              BY <2>11, <5>3 DEF Coordinate
            <6>2. ~( \/ FrontCoordinate.time < c.time
                     \/ /\ FrontCoordinate.time = c.time
                        /\ \/ committed_frontier_is_boundary
                           \/ record.sequence <= c.sequence )
              BY <2>6, <4>2, <5>3 DEF late, IsBehindCommittedFrontier
            <6>3. QED
              BY <2>6, <2>11, <4>2, <5>3, <6>1, <6>2 DEF Precedes
          <5>4. QED  BY <2>11, <2>12, <4>3, <5>1, <5>2, <5>3
        <4>4. QED  BY <4>3 DEF AheadOf
      <3>2. /\ NextBoundary' = NextBoundary
            /\ committed_frontier # <<>> =>
                  Reached(committed_frontier[1].time, host_time)'
        BY <2>1, <2>3, ReachedSame DEF NextBoundary, IInv, FrontierInv
      <3>3. committed_frontier # <<>> =>
               AheadOf(history', next_delivery_sequence', committed_frontier[1],
                       committed_frontier_is_boundary)
        BY <2>1, <2>13, <3>1
      <3> HIDE DEF d
      <3>4. QED
        BY <2>1, <2>2, <2>3, <3>2, <3>3 DEF IInv, FrontierInv
    <2>21. FloorInv'
      BY <2>1, <2>3, <2>11 DEF IInv, FloorInv, h
    <2>22. ScopeInv'
      BY <1>1, <2>4, NoCall DEF ScopeInv
    <2>23. QED
      BY <2>1, <2>14, <2>15, <2>16, <2>17, <2>18, <2>19, <2>20, <2>21, <2>22,
         NoFault, ReachedSame DEF IInv
  <1>4. QED  BY <1>2, <1>3

-----------------------------------------------------------------------------
(* The scopes.                                                             *)

(* What a scope is chosen from: the next boundary, and the next event.     *)
LEMMA NextFacts ==
    ASSUME IInv, outer_horizon # <<>>
    PROVE  /\ outer_horizon[1] \in Int /\ DOMAIN outer_horizon = 1 .. 1
           /\ Reached(outer_horizon[1], host_time)
           /\ host_time \in Nat /\ AnchorsInv
           /\ stage_active /\ stage_open /\ phase = "scoping" /\ unresolved = <<>>
           /\ committed_boundary_index[1] \in Int
           /\ committed_boundary_index = <<committed_boundary_index[1]>>
           /\ NextBoundary \in Int
           /\ BoundaryAt(committed_boundary_index[1]) \in Int
           /\ BoundaryAt(committed_boundary_index[1]) < NextBoundary
  <1>1. /\ outer_horizon \in Seq(Int) /\ Len(outer_horizon) <= 1
        /\ phase = "scoping" /\ stage_active /\ stage_open /\ unresolved = <<>>
        /\ Reached(outer_horizon[1], host_time)
        /\ committed_boundary_index \in Seq(Int)
        /\ Len(committed_boundary_index) <= 1
        /\ committed_boundary_index # <<>>
    BY DEF IInv, PhaseInv
  <1>2. outer_horizon[1] \in Int /\ DOMAIN outer_horizon = 1 .. 1
    BY <1>1, OptionalFacts
  <1>3. /\ committed_boundary_index[1] \in Int
        /\ committed_boundary_index = <<committed_boundary_index[1]>>
    BY <1>1, OptionalFacts
  <1>4. host_time \in Nat /\ AnchorsInv
    BY ReachedTypes DEF IInv
  <1>5. /\ BoundaryAt(committed_boundary_index[1]) \in Int
        /\ BoundaryAt(committed_boundary_index[1] + 1) \in Int
        /\ BoundaryAt(committed_boundary_index[1])
              < BoundaryAt(committed_boundary_index[1] + 1)
    BY <1>3, BoundaryStep
  <1>6. QED  BY <1>1, <1>2, <1>3, <1>4, <1>5 DEF NextBoundary

LEMMA EventFacts ==
    ASSUME IInv
    PROVE  LET d == next_delivery_sequence
               i == d - history.base_next_sequence + 1
               e == history.entries[i]
           IN /\ d = history.next_sequence => Event = <<>>
              /\ d < history.next_sequence =>
                    /\ Event = <<e>> /\ DOMAIN Event = 1 .. 1 /\ Event[1] = e
                    /\ i \in 1 .. Len(history.entries)
                    /\ e.sequence = d /\ e.time \in Int
                    /\ Coordinate(e) \in Coordinates
                    /\ Coordinate(e).time = e.time /\ Coordinate(e).sequence = d
              /\ d = history.next_sequence \/ d < history.next_sequence
              /\ CurrentHistoryPrefixEnd(history, d) = d
              /\ pending_event_count = history.next_sequence - d
  <1> DEFINE d == next_delivery_sequence
             i == d - history.base_next_sequence + 1
             e == history.entries[i]
  <1>1. HistoryOK(history, d) /\ pending_event_count = history.next_sequence - d
    BY DEF IInv, AccountInv
  <1>2. d \in Nat /\ d <= history.next_sequence /\ history.next_sequence \in Nat
    BY <1>1, HistoryFacts
  <1>3. d = history.next_sequence \/ d < history.next_sequence
    BY <1>2
  <1>4. /\ d = history.next_sequence => FirstResolvedAtOrAfter(history, d) = <<>>
        /\ d < history.next_sequence =>
              /\ i \in 1 .. Len(history.entries)
              /\ e.sequence = d
              /\ FirstResolvedAtOrAfter(history, d) = <<e>>
        /\ CurrentHistoryPrefixEnd(history, d) = d
    <2>1. d <= d
      BY <1>2
    <2>2. QED  BY <1>1, <1>2, <2>1, NextEvent
  <1>5. Event = FirstResolvedAtOrAfter(history, d)
    BY DEF Event
  <1>6. i \in 1 .. Len(history.entries) =>
           /\ e.time \in Int /\ Coordinate(e) \in Coordinates
           /\ Coordinate(e).time = e.time
           /\ Coordinate(e).sequence = e.sequence
    BY <1>1, HistoryFacts
  <1> HIDE DEF d, i, e
  <1>7. QED  BY <1>1, <1>3, <1>4, <1>5, <1>6 DEF d, i, e

(* A step of the scopes: what is judged moves, the drained records do not. *)
LEMMA ConsumeStep ==
    ASSUME IInv, Alive, ConsumeMarkedOverload
    PROVE  IInv'
  <1> DEFINE d == next_delivery_sequence
             g == ConvertResolvedToStateOnly(history, d)
  <1>1. /\ phase = "scoping" /\ outstanding_scope = <<>> /\ EventDue
        /\ outer_event_scope_count = 0
    BY DEF ConsumeMarkedOverload, MayScope, EventIsNext
  <1>2. Event # <<>> /\ outer_horizon # <<>>
    BY <1>1 DEF EventDue
  <1>3. /\ d < history.next_sequence /\ Event[1].sequence = d
        /\ pending_event_count = history.next_sequence - d
    BY <1>2, EventFacts
  <1>4. d \in Nat /\ history.next_sequence \in Nat
    BY GameTypes
  <1>5. pending_event_count # 0
    BY <1>3, <1>4
  <1>6. /\ history' = g /\ next_delivery_sequence' = d + 1
        /\ pending_event_count' = pending_event_count - 1
        /\ counters' = [counters EXCEPT !.overload_drops = @ + 1]
        /\ UNCHANGED <<vars, qpc, anchors, sampled, phase, host_time, stageVars,
                       unresolved, next_drain_sequence,
                       last_resolved_coordinate, commitVars, outerVars, fatal>>
    BY <1>3, <1>5 DEF ConsumeMarkedOverload, clockVars, workerVars
  <1>7. UNCHANGED <<stage_open, clock_bound, stage_active, cutoff>>
    BY <1>6 DEF stageVars
  <1>8. UNCHANGED <<committed_frontier, committed_frontier_is_boundary,
                    committed_boundary_index, drained_at_frontier>>
    BY <1>6 DEF commitVars
  <1>9. UNCHANGED <<outer_horizon, outstanding_scope, outer_event_scope_count,
                    outer_heartbeat_scope_count>>
    BY <1>6 DEF outerVars
  <1>10. HistoryOK(history, d)
    BY DEF IInv, AccountInv
  <1>11. /\ HistoryOK(g, d + 1)
         /\ g.next_sequence = history.next_sequence
         /\ g.transport_epoch = history.transport_epoch
         /\ g.current_held = history.current_held
         /\ g.causal_time_floor = history.causal_time_floor
         /\ g.last_coordinate = history.last_coordinate
         /\ Len(g.entries) = Len(history.entries)
         /\ \A i \in 1 .. Len(history.entries) :
               /\ g.entries[i].time = history.entries[i].time
               /\ g.entries[i].sequence = history.entries[i].sequence
    BY <1>3, <1>10, ConvertHistory
  <1> HIDE DEF g
  <1>12. /\ Inv' /\ StageInv' /\ LinkInv' /\ UnresolvedInv' /\ ClockInv'
         /\ FaultInv' /\ AnchorsInv'
    <2>1. stage_active' \in BOOLEAN /\ clock_bound' \in BOOLEAN
      BY <1>7 DEF IInv, StageInv
    <2>2. QED  BY <1>6, <1>7, <1>11, <2>1, DrainedSame
  <1>13. AccountInv'
    <2>1. /\ HistoryOK(history', next_delivery_sequence')
          /\ last_resolved_coordinate' = history'.last_coordinate
          /\ next_drain_sequence' = history'.next_sequence + Len(unresolved')
      BY <1>6, <1>11 DEF IInv, AccountInv
    <2>2. pending_event_count' = history'.next_sequence - next_delivery_sequence'
      BY <1>3, <1>4, <1>6, <1>11
    <2>3. CountersType' /\ Classified' = Classified + 1
      BY <1>6, CountOne DEF IInv, AccountInv
    <2>4. stage_open' => Classified' = next_delivery_sequence'
                                          - cutoff'.first_stage_sequence
      <3>1. /\ stage_open' => Classified = d - cutoff.first_stage_sequence
            /\ cutoff.first_stage_sequence \in Nat
        BY <1>7, ChannelTypes DEF IInv, AccountInv
      <3>2. (d - cutoff.first_stage_sequence) + 1
               = (d + 1) - cutoff.first_stage_sequence
        BY ONLY <1>4, <3>1
      <3>3. QED  BY <1>6, <1>7, <2>3, <3>1, <3>2
    <2>5. QED  BY <2>1, <2>2, <2>3, <2>4 DEF AccountInv
  <1>14. PhaseInv'
    <2>1. outer_horizon # <<>> => Reached(outer_horizon[1], host_time)'
      BY <1>6, <1>9, ReachedSame DEF IInv, PhaseInv
    <2>2. QED
      BY <1>6, <1>7, <1>8, <1>9, <1>11, <2>1 DEF IInv, PhaseInv, OneKindOfScope
  <1>15. FrontierInv'
    <2>1. committed_frontier # <<>> =>
             AheadOf(history', next_delivery_sequence', committed_frontier[1],
                     committed_frontier_is_boundary)
      <3>1. SUFFICES ASSUME committed_frontier # <<>>
                     PROVE  AheadOf(g, d + 1, committed_frontier[1],
                                    committed_frontier_is_boundary)
        BY <1>6
      <3>2. AheadOf(history, d, committed_frontier[1],
                    committed_frontier_is_boundary)
        BY <3>1 DEF IInv, FrontierInv
      <3>3. \A i \in 1 .. Len(history.entries) :
               history.entries[i].sequence \in Nat
        BY <1>10, HistoryFacts
      <3>4. QED  BY <1>4, <1>11, <3>2, <3>3 DEF AheadOf, Precedes, Coordinate
    <2>2. committed_frontier # <<>> =>
             Reached(committed_frontier[1].time, host_time)'
      BY <1>6, <1>8, ReachedSame DEF IInv, FrontierInv
    <2>3. NextBoundary' = NextBoundary
      BY <1>8 DEF NextBoundary
    <2>4. QED
      BY <1>6, <1>7, <1>8, <2>1, <2>2, <2>3 DEF IInv, FrontierInv
  <1>16. FloorInv' /\ ScopeInv'
    BY <1>1, <1>6, <1>8, <1>9, <1>11 DEF IInv, FloorInv, ScopeInv
  <1>17. QED  BY <1>12, <1>13, <1>14, <1>15, <1>16 DEF IInv

(* A scope is handed out: nothing else changes.                            *)
LEMMA ScopeStep ==
    ASSUME IInv, Alive, NEW scope, outstanding_scope' = <<scope>>, ScopeOut(scope),
           outer_horizon # <<>>, outer_event_scope_count = 0,
           outer_heartbeat_scope_count < HeartbeatLimit,
           UNCHANGED <<vars, qpc, anchors, sampled, phase, host_time,
                       stageVars, recordVars, commitVars, outer_horizon,
                       outer_event_scope_count, outer_heartbeat_scope_count,
                       fatal>>
    PROVE  IInv'
  <1>1. UNCHANGED <<stage_open, clock_bound, stage_active, cutoff>>
    BY DEF stageVars
  <1>2. UNCHANGED <<committed_frontier, committed_frontier_is_boundary,
                    committed_boundary_index, drained_at_frontier>>
    BY DEF commitVars
  <1>3. UNCHANGED <<unresolved, history, next_drain_sequence,
                    next_delivery_sequence, pending_event_count,
                    last_resolved_coordinate, counters>>
    BY DEF recordVars
  <1>4. /\ Inv' /\ StageInv' /\ LinkInv' /\ UnresolvedInv' /\ ClockInv'
        /\ FaultInv' /\ AnchorsInv'
    <2>1. stage_active' \in BOOLEAN /\ clock_bound' \in BOOLEAN
      BY <1>1 DEF IInv, StageInv
    <2>2. QED  BY <1>1, <1>3, <2>1, DrainedSame
  <1>5. AccountInv'
    BY <1>1, <1>3 DEF IInv, AccountInv, CountersType, Classified
  <1>6. /\ NextBoundary' = NextBoundary
        /\ \A time : Reached(time, host_time)' <=> Reached(time, host_time)
    BY <1>2, ReachedSame DEF NextBoundary
  <1>7. PhaseInv'
    <2>1. outer_horizon # <<>> => Reached(outer_horizon[1], host_time)'
      BY <1>6 DEF IInv, PhaseInv
    <2>2. QED  BY <1>1, <1>2, <1>3, <2>1 DEF IInv, PhaseInv, OneKindOfScope
  <1>8. FrontierInv' /\ FloorInv'
    <2>1. committed_frontier # <<>> =>
             Reached(committed_frontier[1].time, host_time)'
      BY <1>2, <1>6 DEF IInv, FrontierInv
    <2>2. QED  BY <1>1, <1>2, <1>3, <1>6, <2>1 DEF IInv, FrontierInv, FloorInv
  <1>9. ScopeInv'
    <2>1. ScopeOut(scope)'
      <3>1. Reached(scope.coordinate.time, host_time)'
        BY <1>6 DEF ScopeOut
      <3>2. QED  BY <1>2, <1>3, <1>6, <3>1 DEF ScopeOut, DeliveryAfter
    <2>2. outstanding_scope'[1] = scope
      OBVIOUS
    <2>3. QED  BY <2>1, <2>2 DEF ScopeInv
  <1>10. QED  BY <1>4, <1>5, <1>7, <1>8, <1>9 DEF IInv

LEMMA ScopeEventStep ==
    ASSUME IInv, Alive, ScopeEvent
    PROVE  IInv'
  <1> DEFINE h == history
             d == next_delivery_sequence
             k == d - history.base_next_sequence + 1
             e == history.entries[k]
             scope == EventScope(e)
             n == Len(history.entries)
  <1>1. /\ outstanding_scope = <<>> /\ EventDue
        /\ BoundaryDue => Event[1].time <= NextBoundary
        /\ outer_event_scope_count = 0 /\ outer_heartbeat_scope_count = 0
        /\ outer_heartbeat_scope_count < HeartbeatLimit
        /\ outstanding_scope' = <<EventScope(Event[1])>>
        /\ UNCHANGED <<vars, qpc, anchors, sampled, phase, host_time,
                       stageVars, recordVars, commitVars, outer_horizon,
                       outer_event_scope_count, outer_heartbeat_scope_count,
                       fatal>>
    BY DEF ScopeEvent, MayScope, EventIsNext, clockVars, workerVars
  <1>2. Event # <<>> /\ outer_horizon # <<>>
    BY <1>1 DEF EventDue
  <1>3. /\ outer_horizon[1] \in Int /\ DOMAIN outer_horizon = 1 .. 1
        /\ Reached(outer_horizon[1], host_time)
        /\ host_time \in Nat /\ AnchorsInv
        /\ NextBoundary \in Int /\ stage_active
    BY <1>2, NextFacts
  <1>4. /\ d < h.next_sequence /\ Event[1] = e /\ DOMAIN Event = 1 .. 1
        /\ k \in 1 .. n /\ e.sequence = d /\ e.time \in Int
        /\ Coordinate(e) \in Coordinates
        /\ Coordinate(e).time = e.time /\ Coordinate(e).sequence = d
    BY <1>2, EventFacts
  <1>5. HistoryOK(h, d)
    BY DEF IInv, AccountInv
  <1>6. e.time <= outer_horizon[1]
    BY <1>1, <1>3, <1>4 DEF EventDue
  <1>7. e.time <= NextBoundary
    <2>1. CASE BoundaryDue
      BY <1>1, <1>4, <2>1
    <2>2. CASE ~BoundaryDue
      <3>1. ~(NextBoundary <= outer_horizon[1])
        BY <1>3, <2>2 DEF BoundaryDue
      <3>2. QED  BY <1>3, <1>4, <1>6, <3>1
    <2>3. QED  BY <2>1, <2>2
  <1>8. Reached(e.time, host_time)
    BY <1>3, <1>4, <1>6, ReachedLater
  <1>9. /\ scope.kind = "event" /\ scope.coordinate = Coordinate(e)
        /\ scope.commits_boundary \in BOOLEAN
        /\ scope.commits_boundary =>
              /\ e.time = NextBoundary
              /\ \A i \in DOMAIN FirstResolvedAtOrAfter(h, d + 1) :
                    FirstResolvedAtOrAfter(h, d + 1)[i].time # NextBoundary
    <2>1. scope = [kind |-> "event", coordinate |-> Coordinate(e),
                   prefix_end |-> e.sequence + 1,
                   commits_boundary |->
                      /\ e.time = NextBoundary
                      /\ \A i \in DOMAIN FirstResolvedAtOrAfter(h, e.sequence + 1) :
                            FirstResolvedAtOrAfter(h, e.sequence + 1)[i].time
                               # NextBoundary]
      BY DEF EventScope
    <2>2. e.sequence + 1 = d + 1
      BY <1>4
    <2> HIDE DEF scope, e
    <2>3. QED  BY <2>1, <2>2
  <1>10. DeliveryAfter(scope) = d + 1
    BY <1>4, <1>9 DEF DeliveryAfter
  <1>11. /\ h.base_next_sequence \in Nat /\ h.next_sequence \in Nat /\ d \in Nat
         /\ n \in Nat /\ h.base_next_sequence + n = h.next_sequence
         /\ h.base_next_sequence <= d
         /\ \A i \in 1 .. n :
               /\ h.entries[i].sequence = h.base_next_sequence + i - 1
               /\ h.entries[i].time \in Int /\ h.entries[i].sequence \in Nat
               /\ Coordinate(h.entries[i]).time = h.entries[i].time
               /\ Coordinate(h.entries[i]).sequence = h.entries[i].sequence
         /\ \A i, j \in 1 .. n : i <= j => h.entries[i].time <= h.entries[j].time
    BY <1>5, HistoryFacts
  <1>12. AheadOf(h, d + 1, scope.coordinate, scope.commits_boundary)
    <2> DEFINE b == h.base_next_sequence
    <2>1. /\ n = Len(h.entries) /\ n \in Nat /\ d \in Nat /\ b \in Nat
          /\ k = d - b + 1 /\ k \in 1 .. n /\ e = h.entries[k]
          /\ b + n = h.next_sequence /\ b <= d
      BY <1>4, <1>11
    <2> HIDE DEF n, k, e, scope, b
    <2>2. /\ e.time \in Int
          /\ \A i \in 1 .. n :
                /\ h.entries[i].sequence = b + i - 1
                /\ h.entries[i].sequence \in Nat /\ h.entries[i].time \in Int
                /\ i >= k => e.time <= h.entries[i].time
      BY <1>4, <1>11, <2>1 DEF b
    <2> HIDE DEF h, d
    <2>3. ASSUME NEW i \in 1 .. n, h.entries[i].sequence >= d + 1
          PROVE  /\ Precedes(scope.coordinate, Coordinate(h.entries[i]))
                 /\ scope.commits_boundary =>
                       h.entries[i].time > scope.coordinate.time
      <3> DEFINE s == h.entries[i].sequence
                 t == h.entries[i].time
      <3>1. s = b + i - 1 /\ s \in Nat /\ t \in Int /\ s >= d + 1
            /\ (i >= k => e.time <= t)
        BY <2>2, <2>3
      <3> HIDE DEF s, t
      <3>2. i \in Int /\ k <= i /\ k + 1 <= i /\ k + 1 \in 1 .. n /\ d < s
        <4>1. /\ i \in Int /\ 1 <= i /\ i <= n /\ n \in Int /\ k \in Int
              /\ b \in Int /\ d \in Int /\ s \in Int
              /\ 1 <= k /\ k = d - b + 1 /\ s = b + i - 1 /\ s >= d + 1
          BY <2>1, <3>1
        <4>2. d < s /\ k + 1 <= i /\ k <= i
          BY ONLY <4>1
        <4>3. QED  BY ONLY <4>1, <4>2
      <3>3. e.time <= t
        BY <3>1, <3>2
      <3>4. Precedes(scope.coordinate, Coordinate(h.entries[i]))
        <4>1. e.time < t \/ (e.time = t /\ d < s)
          BY ONLY <2>2, <3>1, <3>2, <3>3
        <4>2. Coordinate(h.entries[i]).time = t
              /\ Coordinate(h.entries[i]).sequence = s
          BY DEF Coordinate, s, t
        <4>3. QED  BY <1>4, <1>9, <4>1, <4>2 DEF Precedes
      <3>5. ASSUME scope.commits_boundary
            PROVE  t > e.time
        <4> DEFINE m == k + 1
        <4>1. m \in 1 .. n /\ m <= i /\ m \in Int
          BY ONLY <2>1, <3>2
        <4>2. /\ d + 1 \in Nat /\ d <= d + 1 /\ d + 1 <= h.next_sequence
              /\ d + 1 < h.next_sequence /\ m = (d + 1) - b + 1
          BY ONLY <2>1, <3>2
        <4> HIDE DEF m
        <4>3. FirstResolvedAtOrAfter(h, d + 1) = <<h.entries[m]>>
          BY <1>5, <4>2, NextEvent DEF b
        <4>4. h.entries[m].time # NextBoundary /\ e.time = NextBoundary
          BY <1>9, <3>5, <4>3
        <4> DEFINE u == h.entries[m].time
        <4>5. e.time <= u /\ u <= t /\ u \in Int
          <5>1. m >= k
            BY ONLY <2>1, <4>1 DEF m
          <5>2. h.entries[m].time <= h.entries[i].time
            BY <1>11, <2>1, <4>1
          <5>3. QED  BY <2>2, <4>1, <5>1, <5>2 DEF t
        <4>6. u # e.time
          BY <4>4
        <4> HIDE DEF u
        <4>7. QED  BY ONLY <2>2, <3>1, <4>5, <4>6
      <3>6. QED  BY <1>4, <1>9, <3>4, <3>5 DEF t
    <2>4. QED  BY <2>1, <2>3 DEF AheadOf
  <1>13. \A i \in 1 .. Len(committed_frontier) :
            /\ committed_frontier[i].time <= e.time
            /\ Precedes(committed_frontier[i], Coordinate(e))
    <2>1. ASSUME NEW i \in 1 .. Len(committed_frontier)
          PROVE  /\ committed_frontier[i].time <= e.time
                 /\ Precedes(committed_frontier[i], Coordinate(e))
      <3>1. /\ committed_frontier \in Seq(Coordinates)
            /\ Len(committed_frontier) <= 1
        BY DEF IInv, FrontierInv
      <3>2. committed_frontier # <<>> /\ i = 1
        BY <2>1, <3>1
      <3>3. committed_frontier[1] \in Coordinates
        BY <3>1, <3>2, OptionalFacts
      <3>4. AheadOf(h, d, committed_frontier[1], committed_frontier_is_boundary)
        BY <3>2 DEF IInv, FrontierInv
      <3>5. e.sequence >= d
        BY <1>4, <1>11
      <3>6. Precedes(committed_frontier[1], Coordinate(e))
        BY <1>4, <3>4, <3>5 DEF AheadOf
      <3>7. committed_frontier[1].time \in Int
        BY <3>3 DEF Coordinates
      <3>8. committed_frontier[1].time <= e.time
        BY <1>4, <3>6, <3>7 DEF Precedes
      <3>9. QED  BY <3>2, <3>6, <3>8
    <2>2. QED  BY <2>1
  <1>14. ScopeOut(scope)
    <2> HIDE DEF scope, e, k
    <2>1. QED
      BY <1>1, <1>4, <1>7, <1>8, <1>9, <1>10, <1>12, <1>13 DEF ScopeOut
  <1>15. outstanding_scope' = <<scope>>
    BY <1>1, <1>4
  <1> HIDE DEF scope
  <1>16. QED  BY <1>1, <1>2, <1>14, <1>15, ScopeStep

LEMMA ScopeHeartbeatStep ==
    ASSUME IInv, Alive, ScopeHeartbeat
    PROVE  IInv'
  <1> DEFINE h == history
             d == next_delivery_sequence
             k == d - history.base_next_sequence + 1
             e == history.entries[k]
             n == Len(history.entries)
             c == committed_frontier[1]
             scope == HeartbeatScope
  <1>1. /\ outstanding_scope = <<>> /\ BoundaryDue /\ ~EventIsNext
        /\ outer_event_scope_count = 0
        /\ outer_heartbeat_scope_count < HeartbeatLimit
    BY DEF ScopeHeartbeat, MayScope
  <1>2. outer_horizon # <<>>
    BY <1>1 DEF BoundaryDue
  <1>3. /\ outer_horizon[1] \in Int /\ DOMAIN outer_horizon = 1 .. 1
        /\ Reached(outer_horizon[1], host_time)
        /\ host_time \in Nat /\ AnchorsInv
        /\ NextBoundary \in Int /\ stage_active
        /\ BoundaryAt(committed_boundary_index[1]) \in Int
        /\ BoundaryAt(committed_boundary_index[1]) < NextBoundary
    BY <1>2, NextFacts
  <1>4. NextBoundary <= outer_horizon[1]
    BY <1>1, <1>3 DEF BoundaryDue
  <1>5. HistoryOK(h, d)
    BY DEF IInv, AccountInv
  <1>6. /\ h.base_next_sequence \in Nat /\ h.next_sequence \in Nat /\ d \in Nat
        /\ n \in Nat /\ h.base_next_sequence + n = h.next_sequence
        /\ h.base_next_sequence <= d /\ d <= h.next_sequence
        /\ \A i \in 1 .. n :
              /\ h.entries[i].sequence = h.base_next_sequence + i - 1
              /\ h.entries[i].time \in Int /\ h.entries[i].sequence \in Nat
              /\ Coordinate(h.entries[i]).time = h.entries[i].time
        /\ \A i, j \in 1 .. n : i <= j => h.entries[i].time <= h.entries[j].time
    BY <1>5, HistoryFacts
  <1>7. committed_frontier # <<>> =>
           /\ c.time \in Int /\ c.sequence \in Nat
           /\ c.time <= NextBoundary
           /\ IF committed_frontier_is_boundary
              THEN c.time = BoundaryAt(committed_boundary_index[1])
              ELSE c.sequence < MaxU64
    <2>1. committed_frontier # <<>> => c \in Coordinates
      BY OptionalFacts DEF IInv, FrontierInv
    <2>2. committed_frontier # <<>> => c.time \in Int /\ c.sequence \in Nat
      BY <2>1, MaxU64Assumption DEF Coordinates, U64
    <2>3. QED  BY <2>2 DEF IInv, FrontierInv
  <1>8. CurrentHistoryPrefixEnd(h, d) = d
    BY EventFacts
  <1>9. OrdinaryHeldAt(h, NextBoundary, HeartbeatScope.prefix_end) # <<>>
    <2>1. HeartbeatScope.prefix_end = d
      BY <1>8 DEF HeartbeatScope
    <2>2. \A i \in 1 .. Len(h.causal_time_floor) :
             ~(NextBoundary < h.causal_time_floor[i])
      <3>1. ASSUME NEW i \in 1 .. Len(h.causal_time_floor)
            PROVE  ~(NextBoundary < h.causal_time_floor[i])
        <4>1. committed_frontier # <<>> /\ h.causal_time_floor[i] <= c.time
          BY <3>1 DEF IInv, FloorInv
        <4>2. h.causal_time_floor[i] \in Int
          BY <1>5, <3>1 DEF HistoryOK, HistoryType
        <4>3. QED  BY <1>3, <1>7, <4>1, <4>2
      <3>2. QED  BY <3>1
    <2>3. DOMAIN h.causal_time_floor = 1 .. Len(h.causal_time_floor)
      BY <1>5 DEF HistoryOK, HistoryType
    <2>4. ~(\/ d > h.next_sequence
            \/ d < h.base_next_sequence
            \/ \E i \in DOMAIN h.causal_time_floor :
                  NextBoundary < h.causal_time_floor[i])
      BY <1>6, <2>2, <2>3
    <2> DEFINE state == StateAt(h, NextBoundary, d)
    <2>5. \E x : state = <<x>>
      BY <2>4 DEF StateAt
    <2>6. DOMAIN state = 1 .. 1
      <3> HIDE DEF state
      <3>1. QED  BY <2>5
    <2>7. OrdinaryHeldAt(h, NextBoundary, d) = [i \in DOMAIN state |-> state[i].held]
      BY DEF OrdinaryHeldAt
    <2> HIDE DEF state, h, d
    <2>8. DOMAIN OrdinaryHeldAt(h, NextBoundary, d) = 1 .. 1
      BY <2>6, <2>7
    <2>9. QED  BY <2>1, <2>8
  <1>10. /\ outstanding_scope' = <<scope>>
         /\ UNCHANGED <<vars, qpc, anchors, sampled, phase, host_time, stageVars,
                        recordVars, commitVars, outer_horizon,
                        outer_event_scope_count, outer_heartbeat_scope_count,
                        fatal>>
    BY <1>9 DEF ScopeHeartbeat, clockVars, workerVars
  <1>11. /\ scope.kind = "heartbeat"
         /\ scope.coordinate = [time |-> NextBoundary, sequence |-> MaxU64]
         /\ scope.commits_boundary = TRUE
    BY DEF HeartbeatScope, HeartbeatSequence
  <1> HIDE DEF scope
  <1>12. /\ scope.coordinate \in Coordinates
         /\ scope.coordinate.time = NextBoundary
         /\ scope.coordinate.sequence = MaxU64
    BY <1>3, <1>11, MaxU64Assumption DEF Coordinates, U64
  <1>13. DeliveryAfter(scope) = d
    BY <1>11 DEF DeliveryAfter
  <1>14. \A i \in 1 .. Len(committed_frontier) :
            /\ committed_frontier[i].time <= scope.coordinate.time
            /\ Precedes(committed_frontier[i], scope.coordinate)
    <2>1. ASSUME NEW i \in 1 .. Len(committed_frontier)
          PROVE  /\ committed_frontier[i].time <= scope.coordinate.time
                 /\ Precedes(committed_frontier[i], scope.coordinate)
      <3>1. committed_frontier # <<>> /\ i = 1
        BY <2>1 DEF IInv, FrontierInv
      <3>2. \/ c.time < NextBoundary
            \/ c.time = NextBoundary /\ c.sequence < MaxU64
        BY <1>3, <1>7, <3>1
      <3>3. QED  BY <1>7, <1>12, <3>1, <3>2 DEF Precedes
    <2>2. QED  BY <2>1
  <1>15. d < h.next_sequence => e.time > NextBoundary /\ e.time \in Int /\ k \in 1 .. n
    <2>1. SUFFICES ASSUME d < h.next_sequence
                   PROVE  e.time > NextBoundary /\ e.time \in Int /\ k \in 1 .. n
      OBVIOUS
    <2>2. Event[1] = e /\ DOMAIN Event = 1 .. 1 /\ e.time \in Int /\ k \in 1 .. n
      BY <2>1, EventFacts
    <2>3. CASE EventDue
      <3>1. ~(e.time <= NextBoundary)
        BY <1>1, <2>2, <2>3 DEF EventIsNext
      <3>2. QED  BY <1>3, <2>2, <3>1
    <2>4. CASE ~EventDue
      <3>1. ~(e.time <= outer_horizon[1])
        BY <1>3, <2>2, <2>4 DEF EventDue
      <3>2. QED  BY <1>3, <1>4, <2>2, <3>1
    <2>5. QED  BY <2>3, <2>4
  <1>16. AheadOf(h, d, scope.coordinate, scope.commits_boundary)
    <2>1. ASSUME NEW i \in 1 .. n, h.entries[i].sequence >= d
          PROVE  h.entries[i].time > NextBoundary
      <3>1. h.base_next_sequence + i - 1 >= d
        BY <1>6, <2>1
      <3>2. d < h.next_sequence /\ k <= i
        BY ONLY <1>6, <2>1, <3>1
      <3>3. e.time <= h.entries[i].time /\ h.entries[i].time \in Int
        BY <1>6, <1>15, <2>1, <3>2
      <3>4. e.time > NextBoundary /\ e.time \in Int
        BY <1>15, <3>2
      <3> HIDE DEF e
      <3>5. QED  BY ONLY <1>3, <3>3, <3>4
    <2>2. ASSUME NEW i \in 1 .. n, h.entries[i].sequence >= d
          PROVE  /\ Precedes(scope.coordinate, Coordinate(h.entries[i]))
                 /\ h.entries[i].time > scope.coordinate.time
      <3>1. h.entries[i].time > NextBoundary /\ h.entries[i].time \in Int
            /\ Coordinate(h.entries[i]).time = h.entries[i].time
        BY <1>6, <2>1, <2>2
      <3>2. NextBoundary < h.entries[i].time
        BY <1>3, <3>1
      <3>3. QED  BY <1>12, <3>1, <3>2 DEF Precedes
    <2>3. QED  BY <2>2 DEF AheadOf
  <1>17. ScopeOut(scope)
    <2>1. NextBoundary <= NextBoundary /\ Reached(NextBoundary, host_time)
      BY <1>3, <1>4, ReachedLater
    <2>2. QED
      BY <1>11, <1>12, <1>13, <1>14, <1>16, <2>1 DEF ScopeOut
  <1>18. QED  BY <1>1, <1>2, <1>10, <1>17, ScopeStep

(* What CommitScope finds: none of its checks can fail.                    *)
LEMMA CommitFacts ==
    ASSUME IInv, outstanding_scope # <<>>
    PROVE  LET scope == outstanding_scope[1]
               d == next_delivery_sequence
               next == DeliveryAfter(scope)
           IN /\ ScopeOut(scope) /\ outer_horizon # <<>>
              /\ outer_event_scope_count = 0
              /\ outer_heartbeat_scope_count \in Nat
              /\ outer_heartbeat_scope_count < HeartbeatLimit
              /\ scope.coordinate.time \in Int
              /\ \/ /\ scope.kind = "event" /\ next = d + 1
                    /\ outer_heartbeat_scope_count = 0
                    /\ scope.coordinate.sequence < MaxU64
                 \/ /\ scope.kind = "heartbeat" /\ next = d
                    /\ scope.commits_boundary
              /\ HistoryOK(history, next)
              /\ PrefixEndAfter(scope) = next
              /\ CommitFault(scope) = "none"
  <1> DEFINE scope == outstanding_scope[1]
             h == history
             d == next_delivery_sequence
             next == DeliveryAfter(scope)
  <1>1. /\ ScopeOut(scope) /\ outer_horizon # <<>>
        /\ outer_event_scope_count = 0
        /\ outer_heartbeat_scope_count \in Nat
        /\ outer_heartbeat_scope_count < HeartbeatLimit
        /\ HistoryOK(h, d) /\ pending_event_count = h.next_sequence - d
    BY DEF IInv, ScopeInv, PhaseInv, AccountInv
  <1> HIDE DEF scope
  <1>2. scope.coordinate.time \in Int /\ scope.coordinate.sequence \in U64
    BY <1>1 DEF ScopeOut, Coordinates
  <1>3. /\ h.base_next_sequence \in Nat /\ h.next_sequence \in Nat /\ d \in Nat
        /\ h.next_sequence <= MaxU64 /\ h.base_next_sequence <= d
        /\ d <= h.next_sequence /\ MaxU64 \in Nat
        /\ \A i \in 1 .. Len(h.entries) : h.entries[i].sequence \in Nat
    BY <1>1, HistoryFacts, MaxU64Assumption
  <1>4. /\ scope.kind = "event" => /\ scope.coordinate.sequence = d
                                   /\ d < h.next_sequence
                                   /\ outer_heartbeat_scope_count = 0
        /\ scope.kind # "event" => /\ scope.kind = "heartbeat"
                                   /\ scope.commits_boundary
        /\ \A i \in 1 .. Len(committed_frontier) :
              Precedes(committed_frontier[i], scope.coordinate)
    BY <1>1 DEF ScopeOut
  <1>5. \/ /\ scope.kind = "event" /\ next = d + 1
           /\ d < h.next_sequence
           /\ outer_heartbeat_scope_count = 0
           /\ scope.coordinate.sequence = d
        \/ /\ scope.kind = "heartbeat" /\ next = d /\ scope.commits_boundary
    BY <1>4 DEF DeliveryAfter
  <1> HIDE DEF next
  <1>6. /\ next \in Nat /\ d <= next /\ next <= h.next_sequence
        /\ h.base_next_sequence <= next
    BY <1>3, <1>5
  <1>7. HistoryOK(h, next)
    <2>1. \A i \in 1 .. Len(h.entries) :
             h.entries[i].sequence >= next => h.entries[i].eligible
      BY <1>1, <1>3, <1>6 DEF HistoryOK, Delivers
    <2>2. QED  BY <1>1, <1>6, <2>1 DEF HistoryOK, Delivers
  <1>8. PrefixEndAfter(scope) = next
    BY <1>1, <1>6, NextEvent DEF PrefixEndAfter, next
  <1>9. CommitFault(scope) = "none"
    <2>1. ~(scope.kind = "event" /\ pending_event_count = 0)
      BY <1>1, <1>3, <1>5
    <2>2. DOMAIN committed_frontier = 1 .. Len(committed_frontier)
      BY DEF IInv, FrontierInv
    <2>3. ~(\E i \in DOMAIN committed_frontier :
               ~Precedes(committed_frontier[i], scope.coordinate))
      BY <1>4, <2>2
    <2>4. CanPrune(h, PrefixEndAfter(scope))
      BY <1>3, <1>6, <1>8 DEF CanPrune
    <2>5. QED  BY <2>1, <2>3, <2>4, CommitFaultFacts
  <1>10. \/ /\ scope.kind = "event" /\ next = d + 1
            /\ outer_heartbeat_scope_count = 0
            /\ scope.coordinate.sequence < MaxU64
         \/ /\ scope.kind = "heartbeat" /\ next = d /\ scope.commits_boundary
    BY <1>3, <1>5
  <1>11. QED  BY <1>1, <1>2, <1>7, <1>8, <1>9, <1>10 DEF scope, next

(* Pruned entries keep their order: what lay ahead still does.             *)
LEMMA PrunedAhead ==
    ASSUME NEW h, NEW g, NEW d, NEW coordinate, NEW is_boundary,
           Len(h.entries) \in Nat, Len(g.entries) \in Nat,
           AheadOf(h, d, coordinate, is_boundary),
           \E n \in 0 .. Len(h.entries) :
              /\ Len(g.entries) = Len(h.entries) - n
              /\ \A i \in 1 .. Len(g.entries) : g.entries[i] = h.entries[i + n]
    PROVE  AheadOf(g, d, coordinate, is_boundary)
  <1>1. PICK n \in 0 .. Len(h.entries) :
           /\ Len(g.entries) = Len(h.entries) - n
           /\ \A i \in 1 .. Len(g.entries) : g.entries[i] = h.entries[i + n]
    OBVIOUS
  <1>2. ASSUME NEW i \in 1 .. Len(g.entries)
        PROVE  i + n \in 1 .. Len(h.entries) /\ g.entries[i] = h.entries[i + n]
    BY <1>1
  <1>3. QED  BY <1>2 DEF AheadOf

LEMMA CommitScopeStep ==
    ASSUME IInv, Alive, CommitScope
    PROVE  IInv'
  <1> DEFINE scope == outstanding_scope[1]
             d == next_delivery_sequence
             next == DeliveryAfter(scope)
             time == scope.coordinate.time
             g == PruneBefore(history, time, next)
             index == committed_boundary_index[1]
  <1>1. outstanding_scope # <<>>
    BY DEF CommitScope
  <1>2. /\ ScopeOut(scope) /\ outer_horizon # <<>>
        /\ outer_event_scope_count = 0
        /\ outer_heartbeat_scope_count \in Nat
        /\ outer_heartbeat_scope_count < HeartbeatLimit
        /\ time \in Int
        /\ \/ /\ scope.kind = "event" /\ next = d + 1
              /\ outer_heartbeat_scope_count = 0
              /\ scope.coordinate.sequence < MaxU64
           \/ /\ scope.kind = "heartbeat" /\ next = d /\ scope.commits_boundary
        /\ HistoryOK(history, next)
        /\ PrefixEndAfter(scope) = next
        /\ CommitFault(scope) = "none"
    BY <1>1, CommitFacts
  <1>3. /\ \/ scope.kind = "event" /\ CommitEvent(scope)
           \/ scope.kind = "heartbeat" /\ CommitHeartbeat
        /\ committed_frontier' = <<scope.coordinate>>
        /\ committed_frontier_is_boundary' = scope.commits_boundary
        /\ committed_boundary_index' =
              IF scope.commits_boundary THEN <<index + 1>>
                                        ELSE committed_boundary_index
        /\ drained_at_frontier' = next_drain_sequence
        /\ history' = g
        /\ outstanding_scope' = <<>>
        /\ UNCHANGED <<vars, qpc, anchors, sampled, phase, host_time,
                       stageVars, unresolved, next_drain_sequence,
                       last_resolved_coordinate, outer_horizon, fatal>>
    BY <1>2 DEF CommitScope, clockVars, workerVars
  <1>4. /\ stage_active /\ stage_open /\ phase = "scoping" /\ unresolved = <<>>
        /\ index \in Int /\ committed_boundary_index = <<index>>
        /\ NextBoundary \in Int /\ BoundaryAt(index) \in Int
        /\ BoundaryAt(index) < NextBoundary
        /\ Reached(outer_horizon[1], host_time)
    BY <1>2, NextFacts
  <1>5. UNCHANGED <<stage_open, clock_bound, stage_active, cutoff>>
    BY <1>3 DEF stageVars
  <1>6. /\ HistoryOK(g, next)
        /\ g.next_sequence = history.next_sequence
        /\ g.transport_epoch = history.transport_epoch
        /\ g.current_held = history.current_held
        /\ g.last_coordinate = history.last_coordinate
        /\ \E n \in 0 .. Len(history.entries) :
              /\ Len(g.entries) = Len(history.entries) - n
              /\ \A i \in 1 .. Len(g.entries) :
                    g.entries[i] = history.entries[i + n]
        /\ \/ g.causal_time_floor = history.causal_time_floor
           \/ \E t \in Int : t <= time /\ g.causal_time_floor = <<t>>
    BY <1>2, PruneHistory
  <1>7. HistoryOK(history, d)
        /\ pending_event_count = history.next_sequence - d
    BY DEF IInv, AccountInv
  <1>8. /\ d \in Nat /\ history.next_sequence \in Nat
        /\ Len(history.entries) \in Nat /\ Len(g.entries) \in Nat
    BY <1>6, <1>7, HistoryFacts
  <1> HIDE DEF g, next
  <1>9. /\ next_delivery_sequence' = next
        /\ \/ /\ scope.kind = "event" /\ next = d + 1
              /\ pending_event_count' = pending_event_count - 1
              /\ counters' = [counters EXCEPT !.event_scopes = @ + 1]
              /\ outer_event_scope_count' = 1
              /\ outer_heartbeat_scope_count' = 0
           \/ /\ scope.kind = "heartbeat" /\ next = d
              /\ UNCHANGED <<pending_event_count, counters>>
              /\ outer_event_scope_count' = 0
              /\ outer_heartbeat_scope_count' = outer_heartbeat_scope_count + 1
    <2>1. CASE scope.kind = "event"
      <3>1. CommitEvent(scope) /\ next = d + 1 /\ outer_heartbeat_scope_count = 0
        BY <1>2, <1>3, <2>1
      <3>2. QED  BY <1>2, <2>1, <3>1 DEF CommitEvent, next
    <2>2. CASE scope.kind = "heartbeat"
      <3>1. CommitHeartbeat /\ next = d
        BY <1>2, <1>3, <2>2
      <3>2. QED  BY <1>2, <2>2, <3>1 DEF CommitHeartbeat
    <2>3. QED  BY <1>2, <2>1, <2>2
  <1>10. /\ Inv' /\ StageInv' /\ LinkInv' /\ UnresolvedInv' /\ ClockInv'
         /\ FaultInv' /\ AnchorsInv'
    <2>1. stage_active' \in BOOLEAN /\ clock_bound' \in BOOLEAN
      BY <1>5 DEF IInv, StageInv
    <2>2. QED  BY <1>3, <1>5, <1>6, <2>1, DrainedSame
  <1>11. AccountInv'
    <2>1. /\ HistoryOK(history', next_delivery_sequence')
          /\ last_resolved_coordinate' = history'.last_coordinate
          /\ next_drain_sequence' = history'.next_sequence + Len(unresolved')
      BY <1>3, <1>6, <1>9 DEF IInv, AccountInv
    <2>2. pending_event_count' = history'.next_sequence - next_delivery_sequence'
      <3>1. history'.next_sequence = history.next_sequence
            /\ next_delivery_sequence' = next
        BY <1>3, <1>6, <1>9
      <3>2. CASE next = d + 1 /\ pending_event_count' = pending_event_count - 1
        BY <1>7, <1>8, <3>1, <3>2
      <3>3. CASE next = d /\ pending_event_count' = pending_event_count
        BY <1>7, <3>1, <3>3
      <3>4. QED  BY <1>9, <3>2, <3>3
    <2>3. /\ CountersType'
          /\ stage_open' => Classified' = next_delivery_sequence'
                                             - cutoff'.first_stage_sequence
      <3>1. /\ Classified = d - cutoff.first_stage_sequence
            /\ cutoff.first_stage_sequence \in Nat
            /\ cutoff' = cutoff /\ next_delivery_sequence' = next /\ CountersType
        BY <1>4, <1>5, <1>9, ChannelTypes DEF IInv, AccountInv
      <3>2. CASE /\ next = d + 1
                 /\ counters' = [counters EXCEPT !.event_scopes = @ + 1]
        <4>1. CountersType' /\ Classified' = Classified + 1
          BY <3>1, <3>2, CountOne
        <4>2. (d - cutoff.first_stage_sequence) + 1
                 = (d + 1) - cutoff.first_stage_sequence
          BY ONLY <1>8, <3>1
        <4>3. QED  BY <3>1, <3>2, <4>1, <4>2
      <3>3. CASE next = d /\ counters' = counters
        BY <3>1, <3>3 DEF Classified, CountersType
      <3>4. QED  BY <1>9, <3>2, <3>3
    <2>4. QED  BY <2>1, <2>2, <2>3 DEF AccountInv
  <1>12. /\ \A t : Reached(t, host_time)' <=> Reached(t, host_time)
         /\ committed_boundary_index' \in Seq(Int)
         /\ Len(committed_boundary_index') = 1
         /\ NextBoundary' \in Int /\ NextBoundary <= NextBoundary'
         /\ scope.commits_boundary =>
               NextBoundary = BoundaryAt(committed_boundary_index'[1])
    <2>1. \A t : Reached(t, host_time)' <=> Reached(t, host_time)
      BY <1>3, ReachedSame
    <2>2. NextBoundary' = BoundaryAt(committed_boundary_index'[1] + 1)
          /\ NextBoundary = BoundaryAt(index + 1)
      BY DEF NextBoundary
    <2>3. CASE scope.commits_boundary
      <3>1. committed_boundary_index' = <<index + 1>>
        BY <1>3, <2>3
      <3>2. index + 1 \in Int
        BY <1>4
      <3>3. /\ committed_boundary_index'[1] = index + 1
            /\ committed_boundary_index' \in Seq(Int)
            /\ Len(committed_boundary_index') = 1
        BY <3>1, <3>2
      <3>4. /\ BoundaryAt(index + 1) < BoundaryAt((index + 1) + 1)
            /\ BoundaryAt((index + 1) + 1) \in Int
        BY <3>2, BoundaryStep
      <3>5. QED  BY <1>4, <2>1, <2>2, <3>3, <3>4
    <2>4. CASE ~scope.commits_boundary
      <3>1. committed_boundary_index' = <<index>>
        BY <1>3, <1>4, <2>4
      <3>2. /\ committed_boundary_index'[1] = index
            /\ committed_boundary_index' \in Seq(Int)
            /\ Len(committed_boundary_index') = 1
        BY <1>4, <3>1
      <3>3. NextBoundary' = NextBoundary
        BY <2>2, <3>2
      <3>4. QED  BY <1>4, <2>1, <2>4, <3>2, <3>3
    <2>5. QED  BY <2>3, <2>4
  <1>13. PhaseInv'
    <2>1. /\ committed_boundary_index' # <<>> /\ stage_active' /\ stage_open'
          /\ outer_horizon' = outer_horizon /\ unresolved' = <<>>
          /\ phase' = "scoping"
      <3>1. committed_boundary_index' # <<>>
        BY ONLY <1>12
      <3>2. QED  BY <1>3, <1>4, <1>5, <3>1
    <2>2. drained_at_frontier' = history'.next_sequence
          /\ drained_at_frontier' \in Nat
      <3>1. next_drain_sequence = history.next_sequence + Len(unresolved)
        BY DEF IInv, AccountInv
      <3>2. next_drain_sequence = history.next_sequence
        BY <1>4, <1>8, <3>1
      <3>3. QED  BY <1>3, <1>6, <1>8, <3>2
    <2>3. /\ outer_event_scope_count' \in Nat
          /\ outer_heartbeat_scope_count' \in Nat /\ OneKindOfScope'
      BY <1>2, <1>9, SchedulerAssumption DEF OneKindOfScope
    <2>4. drained_at_frontier' <= history'.next_sequence
      BY <2>2
    <2>5. outer_horizon' \in Seq(Int) /\ Len(outer_horizon') <= 1
          /\ Reached(outer_horizon[1], host_time)'
      BY <1>2, <1>4, <1>12, <2>1 DEF IInv, PhaseInv
    <2>6. committed_boundary_index' \in Seq(Int)
          /\ Len(committed_boundary_index') <= 1
      BY <1>12
    <2>7. QED  BY <2>1, <2>2, <2>3, <2>4, <2>5, <2>6 DEF PhaseInv
  <1>14. /\ scope.coordinate \in Coordinates /\ scope.commits_boundary \in BOOLEAN
         /\ time <= NextBoundary /\ Reached(time, host_time)
         /\ \A i \in 1 .. Len(committed_frontier) :
               committed_frontier[i].time <= time
         /\ scope.commits_boundary => time = NextBoundary
         /\ AheadOf(history, next, scope.coordinate, scope.commits_boundary)
    BY <1>2 DEF ScopeOut, next
  <1>15. FrontierInv'
    <2>1. /\ committed_frontier' \in Seq(Coordinates)
          /\ Len(committed_frontier') = 1
          /\ committed_frontier'[1] = scope.coordinate
      <3> DEFINE c == scope.coordinate
      <3>1. c \in Coordinates /\ committed_frontier' = <<c>>
        BY <1>3, <1>14
      <3> HIDE DEF c
      <3>2. /\ committed_frontier' \in Seq(Coordinates)
            /\ Len(committed_frontier') = 1 /\ committed_frontier'[1] = c
        BY <3>1
      <3>3. QED  BY <3>2 DEF c
    <2>2. time <= NextBoundary'
      BY <1>2, <1>4, <1>12, <1>14
    <2>3. AheadOf(history', next_delivery_sequence', scope.coordinate,
                  scope.commits_boundary)
      BY <1>3, <1>6, <1>8, <1>9, <1>14, PrunedAhead
    <2>4. IF scope.commits_boundary
          THEN time = BoundaryAt(committed_boundary_index'[1])
          ELSE scope.coordinate.sequence < MaxU64
      BY <1>2, <1>12, <1>14
    <2>5. Reached(committed_frontier[1].time, host_time)'
      <3>1. PICK t : t = time /\ Reached(t, host_time)
        BY <1>14
      <3>2. Reached(t, host_time)' /\ t = committed_frontier'[1].time
        BY <1>12, <2>1, <3>1
      <3>3. QED  BY <3>2
    <2> HIDE DEF scope
    <2>6. QED
      BY <1>3, <1>4, <1>5, <1>14, <2>1, <2>2, <2>3, <2>4, <2>5
         DEF FrontierInv
  <1>16. FloorInv'
    <2>1. committed_frontier' # <<>> /\ committed_frontier'[1].time = time
      BY <1>3
    <2>2. ASSUME NEW i \in 1 .. Len(g.causal_time_floor)
          PROVE  g.causal_time_floor[i] <= time
      <3>1. CASE g.causal_time_floor = history.causal_time_floor
        <4>1. committed_frontier # <<>>
              /\ history.causal_time_floor[i] <= committed_frontier[1].time
          BY <2>2, <3>1 DEF IInv, FloorInv
        <4>2. committed_frontier[1] \in Coordinates
              /\ Len(committed_frontier) = 1
          BY <4>1, OptionalFacts DEF IInv, FrontierInv
        <4>3. committed_frontier[1].time \in Int
              /\ committed_frontier[1].time <= time
          BY <1>14, <4>2 DEF Coordinates
        <4>4. history.causal_time_floor[i] \in Int
          BY <1>7, <2>2, <3>1 DEF HistoryOK, HistoryType
        <4>5. QED  BY <1>2, <3>1, <4>1, <4>3, <4>4
      <3>2. CASE \E t \in Int : t <= time /\ g.causal_time_floor = <<t>>
        BY <2>2, <3>2
      <3>3. QED  BY <1>6, <3>1, <3>2
    <2>3. QED  BY <1>3, <2>1, <2>2 DEF FloorInv
  <1>17. ScopeInv'
    BY <1>3 DEF ScopeInv
  <1>18. QED  BY <1>10, <1>11, <1>13, <1>15, <1>16, <1>17 DEF IInv

-----------------------------------------------------------------------------
(* The invariant of the specification.                                     *)
LEMMA NextIInv ==
    ASSUME IInv, [SchedulerNext]_schedulerVars
    PROVE  IInv'
  <1>1. CASE UNCHANGED schedulerVars
    <2>1. UNCHANGED <<vars, qpc, anchors, sampled, phase, host_time, stageVars,
                      recordVars, commitVars, outerVars, fatal>>
      BY <1>1 DEF schedulerVars, clockVars, workerVars, gameVars
    <2>2. UNCHANGED <<queue, transport_epoch, next_sequence, eviction_count,
                      enabled, active, published_held, answer>>
      BY <2>1 DEF vars
    <2>3. UNCHANGED <<stage_open, clock_bound, stage_active, cutoff,
                      unresolved, history, next_drain_sequence,
                      next_delivery_sequence, pending_event_count,
                      last_resolved_coordinate, counters,
                      committed_frontier, committed_frontier_is_boundary,
                      committed_boundary_index, drained_at_frontier,
                      outer_horizon, outstanding_scope,
                      outer_event_scope_count, outer_heartbeat_scope_count>>
      BY <2>1 DEF stageVars, recordVars, commitVars, outerVars
    <2>4. Inv' /\ StageInv'
      BY <2>1, <2>2, <2>3
         DEF IInv, Inv, TypeOK, Contiguous, HeldChain, StageInv
    <2>5. FaultInv'
      BY <2>1, <2>2, ReachedSame DEF IInv, FaultInv, NoOrderFault
    <2>6. LinkInv'
      BY <2>2, <2>3 DEF IInv, LinkInv, SameTransport, Handover
    <2>7. ClockInv' /\ AnchorsInv'
      BY <2>1, <2>2, <2>3, ClockSame
    <2>8. /\ UnresolvedInv' /\ AccountInv' /\ PhaseInv' /\ FrontierInv'
          /\ FloorInv' /\ ScopeInv'
      BY <1>1, <2>1, SameKeeps, GameKept DEF schedulerVars
    <2>9. QED  BY <2>4, <2>5, <2>6, <2>7, <2>8 DEF IInv
  <1>2. CASE SchedulerNext
    <2>1. Alive
      BY <1>2 DEF SchedulerNext
    <2>2. ASSUME NEW tick \in Times, Tick(tick)
          PROVE  IInv'
      BY <2>1, <2>2, TickStep
    <2>3. ASSUME NEW tick \in Times, NEW position \in Positions,
                 PublishAnchor(tick, position)
          PROVE  IInv'
      BY <2>1, <2>3, PublishAnchorStep
    <2>4. CASE Worker
      BY <2>1, <2>4, WorkerStartsStep, SampleStep, PublishSampledStep,
         WorkerStopsStep DEF Worker
    <2>5. CASE Lifecycle
      BY <2>1, <2>5, CaptureStageEntryStep, BeginSemanticStageStep,
         EndSemanticStageStep, TerminateStep DEF Lifecycle
    <2>6. CASE OuterCall
      <3>1. CASE \/ StartOuterCall \/ DrainTransport \/ ResolveFront
                 \/ ClockNotReady \/ SelectHorizon
        BY <2>1, <3>1, StartOuterCallStep, DrainTransportStep,
           ResolveFrontStep, ClockNotReadyStep, SelectHorizonStep
      <3>2. ASSUME NEW playing \in BOOLEAN, NEW entry_resolved \in BOOLEAN,
                   BindClock(playing, entry_resolved)
            PROVE  IInv'
        BY <2>1, <3>2, BindClockStep
      <3>3. CASE \/ ConsumeMarkedOverload \/ ScopeEvent \/ ScopeHeartbeat
                 \/ CommitScope \/ FinishOuterCall
        BY <2>1, <3>3, ConsumeStep, ScopeEventStep, ScopeHeartbeatStep,
           CommitScopeStep, FinishOuterCallStep
      <3>4. ASSUME NEW reason \in ClockReasons, ClockFails(reason)
            PROVE  IInv'
        BY <2>1, <3>4, ClockFailsStep
      <3>5. QED  BY <2>6, <3>1, <3>2, <3>3, <3>4 DEF OuterCall
    <2>7. QED  BY <1>2, <2>2, <2>3, <2>4, <2>5, <2>6 DEF SchedulerNext
  <1>3. QED  BY <1>1, <1>2

(* Whatever the worker and the game do, the inductive invariant holds: it  *)
(* ties the transport's queue, the drained records, the resolved history,  *)
(* the frontier and the scope that is out to one another.                  *)
THEOREM SchedulerInvariant == SchedulerSpec => []IInv
  <1>1. SchedulerInit => IInv
    BY InitIInv
  <1>2. IInv /\ [SchedulerNext]_schedulerVars => IInv'
    BY NextIInv
  <1>3. QED  BY <1>1, <1>2, PTL DEF SchedulerSpec

(* The scheduler never fails a check of its own sequences, masks, scopes   *)
(* and commits, whatever the clock answers. A resolved time or a horizon   *)
(* goes back only if the WASAPI endpoint fell behind the host clock, a     *)
(* time is refused only then or once its anchor is gone. This is so for as *)
(* long as the transport's eviction counter has not saturated: a saturated *)
(* one would hide a loss from the checks that compare it with the cutoff's.*)
THEOREM NoOrderFaults ==
    SchedulerSpec => [](eviction_count < MaxU64 => NoOrderFault)
  <1>1. IInv => (eviction_count < MaxU64 => NoOrderFault)
    BY DEF IInv, FaultInv
  <1>2. QED  BY <1>1, SchedulerInvariant, PTL

-----------------------------------------------------------------------------
(* The properties that follow from the invariant in each state.            *)
LEMMA IntactFacts ==
    ASSUME IInv, TransportIntact
    PROVE  /\ SameTransport
           /\ next_drain_sequence = history.next_sequence + Len(unresolved)
           /\ \A i \in 1 .. Len(unresolved) :
                 unresolved[i].sequence = history.next_sequence + i - 1
           /\ Len(unresolved) > 0 =>
                 unresolved[1].held_before = history.current_held
           /\ \A i \in 1 .. Len(unresolved) - 1 :
                 unresolved[i + 1].held_before = unresolved[i].held_after
  <1>1. SameTransport /\ stage_open /\ cutoff.eviction_count < MaxU64
    BY DEF TransportIntact, SameTransport
  <1>2. QED  BY <1>1 DEF IInv, AccountInv, UnresolvedInv

LEMMA ChainHolds == IInv => InFlightChain
  <1> SUFFICES ASSUME IInv, TransportIntact
               PROVE  /\ Len(InFlight) = next_sequence - history.next_sequence
                      /\ \A i \in DOMAIN InFlight :
                            /\ InFlight[i].sequence = history.next_sequence + i - 1
                            /\ InFlight[i].held_before
                                  = IF i = 1 THEN history.current_held
                                    ELSE InFlight[i - 1].held_after
                            /\ i > 1 => InFlight[i].observed_time
                                           >= InFlight[i - 1].observed_time
                      /\ published_held = IF InFlight = <<>>
                                          THEN history.current_held
                                          ELSE InFlight[Len(InFlight)].held_after
    BY DEF InFlightChain
  <1> DEFINE u == Len(unresolved)
             q == Len(queue)
             f == InFlight
             past == history.next_sequence
  <1>1. /\ unresolved \in Seq(Record) /\ queue \in Seq(Record)
        /\ u \in Nat /\ q \in Nat /\ past \in Nat
        /\ \A i \in 1 .. u : unresolved[i].observed_time \in Nat
        /\ \A i \in 1 .. q : queue[i].observed_time \in Nat
    BY ChannelTypes, GameTypes
  <1>2. /\ f \in Seq(Record) /\ Len(f) = u + q
        /\ \A i \in 1 .. u : f[i] = unresolved[i]
        /\ \A i \in 1 .. q : f[u + i] = queue[i]
    <2>1. unresolved \in Seq(Record) /\ queue \in Seq(Record)
      BY <1>1
    <2>2. QED  BY ONLY <2>1, JoinedFacts DEF InFlight
  <1>3. /\ next_drain_sequence = past + u
        /\ \A i \in 1 .. u : unresolved[i].sequence = past + i - 1
        /\ u > 0 => unresolved[1].held_before = history.current_held
        /\ \A i \in 1 .. u - 1 :
              unresolved[i + 1].held_before = unresolved[i].held_after
    BY IntactFacts
  <1>4. /\ next_sequence = next_drain_sequence + q
        /\ \A i \in 1 .. q : queue[i].sequence = next_drain_sequence + i - 1
        /\ \A i \in 1 .. q - 1 : queue[i + 1].held_before = queue[i].held_after
        /\ q > 0 => /\ queue[q].held_after = published_held
                    /\ Handover = queue[1].held_before
        /\ q = 0 => Handover = published_held
    BY IntactFacts, QueueFacts
  <1>5. /\ u > 0 => Handover = unresolved[u].held_after
        /\ u = 0 => Handover = history.current_held
    <2>1. u > 0 <=> unresolved # <<>>
      BY <1>1
    <2>2. QED  BY <1>1, <2>1 DEF Handover
  <1>6. /\ \A i, j \in 1 .. q :
              i <= j => queue[i].observed_time <= queue[j].observed_time
        /\ \A i, j \in 1 .. u :
              i <= j => unresolved[i].observed_time <= unresolved[j].observed_time
        /\ \A i \in 1 .. u, j \in 1 .. q :
              unresolved[i].observed_time <= queue[j].observed_time
    BY DEF IInv, ClockInv
  <1>7. DOMAIN f = 1 .. u + q /\ (f = <<>> <=> u + q = 0)
    BY <1>1, <1>2
  <1> HIDE DEF f, u, q, past
  <1>8. ASSUME NEW i \in 1 .. u + q
        PROVE  /\ f[i].sequence = past + i - 1
               /\ f[i].held_before = IF i = 1 THEN history.current_held
                                              ELSE f[i - 1].held_after
               /\ i > 1 => f[i].observed_time >= f[i - 1].observed_time
    <2>1. CASE i <= u
      <3>1. i \in 1 .. u /\ f[i] = unresolved[i]
        BY <1>1, <1>2, <2>1
      <3>2. CASE i = 1
        BY <1>3, <1>1, <3>1, <3>2
      <3>3. CASE i # 1
        <4> DEFINE j == i - 1
        <4>1. j \in 1 .. u - 1 /\ j \in 1 .. u /\ i = j + 1 /\ j <= i
          BY <1>1, <3>1, <3>3
        <4> HIDE DEF j
        <4>2. f[j] = unresolved[j]
              /\ unresolved[j + 1].held_before = unresolved[j].held_after
          BY <1>2, <1>3, <4>1
        <4>3. unresolved[j].observed_time <= unresolved[i].observed_time
          BY <1>6, <3>1, <4>1
        <4>4. unresolved[i].observed_time >= unresolved[j].observed_time
          BY <1>1, <3>1, <4>1, <4>3
        <4>5. QED  BY <1>3, <3>1, <3>3, <4>1, <4>2, <4>4 DEF j
      <3>4. QED  BY <3>2, <3>3
    <2>2. CASE ~(i <= u)
      <3> DEFINE k == i - u
      <3>1. k \in 1 .. q /\ u + k = i /\ k \in Nat
        BY <1>1, <2>2
      <3> HIDE DEF k
      <3>2. f[i] = queue[k] /\ queue[k].sequence = next_drain_sequence + k - 1
        BY <1>2, <1>4, <3>1
      <3>3. next_drain_sequence + k - 1 = past + i - 1
        BY <1>1, <1>3, <3>1
      <3>4. CASE k = 1
        <4>1. CASE u = 0
          <5>1. i = 1 /\ q > 0
            BY <1>1, <3>1, <3>4, <4>1
          <5>2. queue[1].held_before = history.current_held
            BY <1>4, <1>5, <4>1, <5>1
          <5>3. QED  BY <3>2, <3>3, <3>4, <5>1, <5>2
        <4>2. CASE u # 0
          <5>1. /\ u \in 1 .. u /\ u > 0 /\ q > 0 /\ i - 1 = u /\ i # 1
                /\ 1 \in 1 .. q
            BY <1>1, <3>1, <3>4, <4>2
          <5>2. f[i - 1] = unresolved[u]
            BY <1>2, <5>1
          <5>3. queue[1].held_before = unresolved[u].held_after
            BY <1>4, <1>5, <5>1
          <5>4. unresolved[u].observed_time <= queue[1].observed_time
            BY <1>6, <5>1
          <5>5. queue[1].observed_time >= unresolved[u].observed_time
            BY <1>1, <5>1, <5>4
          <5>6. QED  BY <3>2, <3>3, <3>4, <5>1, <5>2, <5>3, <5>5
        <4>3. QED  BY <4>1, <4>2
      <3>5. CASE k # 1
        <4> DEFINE j == k - 1
        <4>1. /\ j \in 1 .. q - 1 /\ j \in 1 .. q /\ k = j + 1 /\ j <= k
              /\ i - 1 = u + j /\ i # 1
          BY <1>1, <3>1, <3>5
        <4> HIDE DEF j
        <4>2. f[i - 1] = queue[j] /\ queue[k].held_before = queue[j].held_after
          BY <1>2, <1>4, <4>1
        <4>3. queue[j].observed_time <= queue[k].observed_time
          BY <1>6, <3>1, <4>1
        <4>4. queue[k].observed_time >= queue[j].observed_time
          BY <1>1, <3>1, <4>1, <4>3
        <4>5. QED  BY <3>2, <3>3, <4>1, <4>2, <4>4
      <3>6. QED  BY <3>4, <3>5
    <2>3. QED  BY <2>1, <2>2
  <1>9. Len(f) = next_sequence - past
    BY <1>1, <1>2, <1>3, <1>4
  <1>10. published_held = IF f = <<>> THEN history.current_held
                                      ELSE f[Len(f)].held_after
    <2>1. CASE q = 0 /\ u = 0
      BY <1>1, <1>4, <1>5, <1>7, <2>1
    <2>2. CASE q = 0 /\ u # 0
      <3>1. u > 0 /\ u \in 1 .. u /\ Len(f) = u /\ f # <<>>
        BY <1>1, <1>2, <1>7, <2>2
      <3>2. QED  BY <1>2, <1>4, <1>5, <2>2, <3>1
    <2>3. CASE q # 0
      <3>1. q > 0 /\ q \in 1 .. q /\ Len(f) = u + q /\ f # <<>>
        BY <1>1, <1>2, <1>7, <2>3
      <3>2. QED  BY <1>2, <1>4, <3>1
    <2>4. QED  BY <2>1, <2>2, <2>3
  <1>11. QED  BY <1>7, <1>8, <1>9, <1>10 DEF f, past

(* While the transport is the one the stage was opened on, the drained and *)
(* the queued records are together exactly the records published since the *)
(* last one resolved, in sequence, chained by their held masks, in time    *)
(* order.                                                                  *)
THEOREM RecordsInFlightChain == SchedulerSpec => []InFlightChain
  <1>1. QED  BY ChainHolds, SchedulerInvariant, PTL

(* Every record published since the cutoff is delivered as one event, kept *)
(* as a late record, dropped as overload, or still on its way.             *)
THEOREM RecordsConserved == SchedulerSpec => []Conservation
  <1>1. IInv => Conservation
    <2>1. SUFFICES ASSUME IInv, TransportIntact
                   PROVE  PostCutoffRecords
                             = Classified + pending_event_count
                                 + Len(unresolved) + Len(queue)
      BY DEF Conservation
    <2>2. QED  BY <2>1, IntactFacts, CutoffBehind DEF PostCutoffRecords
  <1>2. QED  BY <1>1, SchedulerInvariant, PTL

(* The pending events are the entries from the delivery sequence on.       *)
LEMMA PendingCounted ==
    ASSUME IInv
    PROVE  /\ Cardinality(PendingEvents) = pending_event_count
           /\ \A i \in PendingEvents :
                 /\ i \in 1 .. Len(history.entries)
                 /\ history.entries[i].sequence >= next_delivery_sequence
  <1> DEFINE d == next_delivery_sequence
             b == history.base_next_sequence
             n == Len(history.entries)
             first == d - b + 1
             next == history.next_sequence
  <1>1. HistoryOK(history, d) /\ pending_event_count = next - d
    BY DEF IInv, AccountInv
  <1>2. /\ b \in Nat /\ next \in Nat /\ d \in Nat /\ b <= d /\ d <= next
        /\ n \in Nat /\ b + n = next
        /\ \A i \in 1 .. n : history.entries[i].sequence = b + i - 1
    BY <1>1, HistoryFacts
  <1>3. /\ DOMAIN history.entries = 1 .. n
        /\ \A i \in 1 .. n :
              history.entries[i].sequence >= d => history.entries[i].eligible
    BY <1>1 DEF HistoryOK, HistoryType, Delivers
  <1> HIDE DEF d, b, n, next
  <1>4. first \in Nat \ {0} /\ first <= n + 1
    BY ONLY <1>2
  <1>5. PendingEvents = {i \in 1 .. n : history.entries[i].eligible
                                        /\ history.entries[i].sequence >= d}
    BY <1>3 DEF PendingEvents, d
  <1>6. \A i \in 1 .. n : history.entries[i].sequence >= d <=> first <= i
    <2>1. ASSUME NEW i \in 1 .. n
          PROVE  b + i - 1 >= d <=> first <= i
      BY ONLY <1>2, i \in 1 .. n
    <2>2. QED  BY <1>2, <2>1
  <1>7. PendingEvents = first .. n
    <2>1. \A i : i \in first .. n => i \in 1 .. n /\ first <= i
      BY ONLY <1>2, <1>4
    <2>2. \A i \in 1 .. n : first <= i => i \in first .. n
      BY ONLY <1>2, <1>4
    <2> HIDE DEF first
    <2>3. QED  BY <1>3, <1>5, <1>6, <2>1, <2>2
  <1>8. Cardinality(first .. n) = pending_event_count
    <2>1. first \in Int /\ n \in Int
      BY <1>2, <1>4
    <2>2. Cardinality(first .. n) = IF first > n THEN 0 ELSE n - first + 1
      <3> HIDE DEF first
      <3>1. QED  BY <2>1, FS_Interval
    <2>3. (IF first > n THEN 0 ELSE n - first + 1) = next - d
      BY ONLY <1>2, <1>4
    <2>4. QED  BY <1>1, <2>2, <2>3
  <1>9. QED  BY <1>5, <1>7, <1>8 DEF n, d

(* Nothing is judged behind what has been judged: the pending events are   *)
(* the ones counted, all lie ahead of the frontier and beyond the tick of  *)
(* a committed boundary, and a frontier never passes the next boundary.    *)
THEOREM JudgedOnlyForward == SchedulerSpec => []JudgedForward
  <1>1. ASSUME IInv PROVE JudgedForward
    <2>1. /\ committed_frontier \in Seq(Coordinates)
          /\ Len(committed_frontier) <= 1
      BY <1>1 DEF IInv, FrontierInv
    <2>2. \A j \in DOMAIN committed_frontier :
             j = 1 /\ committed_frontier # <<>>
      <3>1. DOMAIN committed_frontier = 1 .. Len(committed_frontier)
            /\ Len(committed_frontier) \in Nat
        BY <2>1
      <3>2. \A j \in 1 .. Len(committed_frontier) :
               j = 1 /\ Len(committed_frontier) # 0
        BY <2>1, <3>1
      <3>3. Len(committed_frontier) # 0 => committed_frontier # <<>>
        OBVIOUS
      <3>4. QED  BY <3>1, <3>2, <3>3
    <2>3. committed_frontier # <<>> =>
             /\ committed_frontier[1].time <= NextBoundary
             /\ committed_frontier_is_boundary =>
                   committed_frontier[1].time
                      = BoundaryAt(committed_boundary_index[1])
             /\ AheadOf(history, next_delivery_sequence, committed_frontier[1],
                        committed_frontier_is_boundary)
      BY <1>1 DEF IInv, FrontierInv
    <2>4. PendingAheadOfFrontier
      BY <1>1, <2>2, <2>3, PendingCounted DEF PendingAheadOfFrontier, AheadOf
    <2>5. FrontierWithinBoundary
      BY <1>1, <2>2, <2>3 DEF FrontierWithinBoundary, IInv, PhaseInv
    <2>6. QED  BY <2>4, <2>5 DEF JudgedForward
  <1>2. QED  BY <1>1, SchedulerInvariant, PTL

-----------------------------------------------------------------------------
(* What a step may do.                                                     *)

(* Only a record resolved behind the frontier counts as late, and only the *)
(* end of a stage closes it.                                               *)
LEMMA StepKinds ==
    ASSUME IInv, SchedulerNext
    PROVE  \/ stage_open' = stage_open
              /\ \/ counters'.late_records = counters.late_records
                 \/ /\ ResolveFront
                    /\ ResolveFault(IsBehindCommittedFrontier(FrontCoordinate))
                          = "none"
           \/ stage_open' = TRUE /\ counters' = NoCounters
           \/ /\ CloseStage /\ CleanupFault = "none"
              /\ counters'.late_records = counters.late_records
  <1> USE DEF gameVars, stageVars, recordVars
  <1>0. /\ counters' = [counters EXCEPT !.overload_drops = @ + 1]
              => counters'.late_records = counters.late_records
        /\ counters' = [counters EXCEPT !.event_scopes = @ + 1]
              => counters'.late_records = counters.late_records
    BY DEF IInv, AccountInv, CountersType
  <1>1. ASSUME NEW reason, Die(reason)
        PROVE  stage_open' = stage_open /\ counters' = counters
    BY <1>1 DEF Die
  <1>2. ASSUME NEW tick \in Times, Tick(tick)
        PROVE  stage_open' = stage_open /\ counters' = counters
    BY <1>2 DEF Tick
  <1>3. CASE \/ Worker
             \/ \E tick \in Times, position \in Positions :
                   PublishAnchor(tick, position)
    BY <1>3 DEF PublishAnchor, Worker, WorkerStarts, Sample, PublishSampled, WorkerStops
  <1>4. ASSUME CloseStage
        PROVE  counters'.late_records = counters.late_records
    BY <1>4 DEF CloseStage
  <1>5. CASE Lifecycle
    <2>1. CASE CaptureStageEntry
      BY <2>1 DEF CaptureStageEntry
    <2>2. CASE BeginSemanticStage
      BY <1>1, <2>2 DEF BeginSemanticStage
    <2>3. CASE EndSemanticStage
      BY <1>1, <1>4, <2>3, EndFaultFacts DEF EndSemanticStage
    <2>4. CASE TerminateForGameplayInitialization
      BY <1>1, <1>4, <2>4 DEF TerminateForGameplayInitialization
    <2>5. QED  BY <1>5, <2>1, <2>2, <2>3, <2>4 DEF Lifecycle
  <1>6. CASE OuterCall
    <2>1. CASE StartOuterCall \/ ClockNotReady \/ ScopeEvent
      BY <2>1 DEF StartOuterCall, ClockNotReady, ScopeEvent
    <2>2. CASE DrainTransport
      BY <1>1, <2>2 DEF DrainTransport
    <2>3. CASE \E playing, entry_resolved \in BOOLEAN :
                  BindClock(playing, entry_resolved)
      BY <2>3 DEF BindClock
    <2>4. CASE ResolveFront
      <3>1. CASE ResolveFault(IsBehindCommittedFrontier(FrontCoordinate)) # "none"
        BY <1>1, <2>4, <3>1 DEF ResolveFront
      <3>2. CASE ResolveFault(IsBehindCommittedFrontier(FrontCoordinate)) = "none"
        BY <2>4, <3>2 DEF ResolveFront
      <3>3. QED  BY <3>1, <3>2
    <2>5. CASE SelectHorizon
      BY <1>1, <2>5 DEF SelectHorizon
    <2>6. CASE ConsumeMarkedOverload
      <3>1. CASE pending_event_count = 0
        BY <1>1, <2>6, <3>1 DEF ConsumeMarkedOverload
      <3>2. CASE pending_event_count # 0
        <4>1. /\ counters' = [counters EXCEPT !.overload_drops = @ + 1]
              /\ stage_open' = stage_open
          BY <2>6, <3>2 DEF ConsumeMarkedOverload
        <4>2. QED  BY <1>0, <4>1
      <3>3. QED  BY <3>1, <3>2
    <2>7. CASE ScopeHeartbeat
      BY <1>1, <2>7 DEF ScopeHeartbeat
    <2>8. CASE CommitScope
      <3> DEFINE scope == outstanding_scope[1]
      <3>1. CASE CommitFault(scope) # "none"
        BY <1>1, <2>8, <3>1 DEF CommitScope
      <3>2. CASE CommitFault(scope) = "none"
        <4>1. /\ CommitEvent(scope) \/ CommitHeartbeat
              /\ stage_open' = stage_open
          BY <2>8, <3>2 DEF CommitScope
        <4>2. \/ counters' = [counters EXCEPT !.event_scopes = @ + 1]
              \/ counters' = counters
          BY <4>1 DEF CommitEvent, CommitHeartbeat
        <4>3. QED  BY <1>0, <4>1, <4>2
      <3>3. QED  BY <3>1, <3>2
    <2>9. CASE FinishOuterCall
      BY <1>1, <2>9 DEF FinishOuterCall
    <2>10. CASE \E reason \in ClockReasons : ClockFails(reason)
      BY <1>1, <2>10 DEF ClockFails
    <2>11. QED
      BY <1>6, <2>1, <2>2, <2>3, <2>4, <2>5, <2>6, <2>7, <2>8, <2>9, <2>10
         DEF OuterCall
  <1>7. QED  BY <1>2, <1>3, <1>5, <1>6 DEF SchedulerNext

(* The cleanup drops counted when a stage ends, computed from the sequence *)
(* numbers alone, are exactly the records still on their way then.         *)
THEOREM CleanupDropsCounted == SchedulerSpec => CleanupDropsAreTheBacklog
  <1>1. ASSUME IInv, [SchedulerNext]_schedulerVars
        PROVE  [stage_open /\ ~stage_open' /\ eviction_count < MaxU64 =>
                  counters'.cleanup_drops
                     = pending_event_count + Len(unresolved)
                         + Len(queue)]_schedulerVars
    <2>1. SUFFICES ASSUME SchedulerNext, stage_open, ~stage_open',
                          eviction_count < MaxU64
                   PROVE  counters'.cleanup_drops
                             = pending_event_count + Len(unresolved) + Len(queue)
      BY <1>1
    <2>2. CloseStage /\ CleanupFault = "none"
      BY <1>1, <2>1, StepKinds
    <2>3. SameTransport
      BY <2>1, <2>2, CleanupFaultFacts DEF SameTransport
    <2> DEFINE backlog == pending_event_count + Len(unresolved) + Len(queue)
    <2>4. /\ PostCutoffRecords = Classified + pending_event_count
                                    + Len(unresolved) + Len(queue)
          /\ Classified \in Nat /\ pending_event_count \in Nat
          /\ Len(unresolved) \in Nat /\ Len(queue) \in Nat
      BY <1>1, <2>3, CutoffBehind, ChannelTypes, GameTypes
         DEF PostCutoffRecords
    <2>5. PostCutoffRecords >= Classified
          /\ PostCutoffRecords - Classified = backlog
      BY ONLY <2>4
    <2>6. counters'.cleanup_drops
             = IF PostCutoffRecords >= Classified
               THEN PostCutoffRecords - Classified ELSE 0
      BY <1>1, <2>2 DEF CloseStage, IInv, AccountInv, CountersType
    <2>7. QED  BY <2>5, <2>6
  <1>2. QED  BY <1>1, SchedulerInvariant, PTL
            DEF SchedulerSpec, CleanupDropsAreTheBacklog

(* A record counted as late had not been drained when the call that moved  *)
(* the frontier past it drained the transport.                             *)
THEOREM LateRecordsRaced == SchedulerSpec => LateOnlyIfRaced
  <1>1. ASSUME IInv, [SchedulerNext]_schedulerVars
        PROVE  [counters'.late_records > counters.late_records =>
                   unresolved[1].sequence >= drained_at_frontier]_schedulerVars
    <2>1. SUFFICES ASSUME SchedulerNext,
                          counters'.late_records > counters.late_records
                   PROVE  unresolved[1].sequence >= drained_at_frontier
      BY <1>1
    <2> DEFINE late == IsBehindCommittedFrontier(FrontCoordinate)
    <2>2. counters.late_records \in Nat
      BY <1>1 DEF IInv, AccountInv, CountersType
    <2>3. ResolveFront /\ ResolveFault(late) = "none"
      <3>1. ~(counters'.late_records = counters.late_records)
        BY <2>1, <2>2
      <3>2. counters' # NoCounters
        BY <2>1, <2>2 DEF NoCounters
      <3>3. QED  BY <1>1, <2>1, <3>1, <3>2, StepKinds
    <2>4. CanAppend(history, unresolved[1], FrontCoordinate.time)
      <3>1. late \in BOOLEAN
        BY DEF IsBehindCommittedFrontier
      <3> HIDE DEF late
      <3>2. QED  BY <2>3, <3>1, ResolveFaultFacts
    <2>5. unresolved[1].sequence = history.next_sequence
      BY <2>4 DEF CanAppend
    <2>6. drained_at_frontier <= history.next_sequence
          /\ drained_at_frontier \in Nat /\ history.next_sequence \in Nat
      BY <1>1, GameTypes DEF IInv, PhaseInv
    <2>7. QED  BY <2>5, <2>6
  <1>2. QED  BY <1>1, SchedulerInvariant, PTL DEF SchedulerSpec, LateOnlyIfRaced
=============================================================================
