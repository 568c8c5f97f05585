------------------------ MODULE JudgementScheduler -------------------------
(***************************************************************************)
(* The absolute-time judgement of one game: the input worker samples the   *)
(* controls and publishes their changes, the game thread runs a stage from *)
(* its entry to its exit, and once per native loop (an outer call) drains  *)
(* the transport, places every record on the judgement timeline and runs   *)
(* the native recognition once per input event or per 1/60 s boundary, in  *)
(* coordinate order.                                                       *)
(*                                                                         *)
(* The worker's clock read and its publication are two steps, and so are   *)
(* the game's clock reads and the locks taken after them: the races the    *)
(* scheduler has to absorb are between these. The game thread's later      *)
(* steps are local to it. A detected fault ends the process.               *)
(*                                                                         *)
(* Times are resolved by the clock of the audio backend: the linear stage  *)
(* clock of ASIO, or the anchors the WASAPI audio thread publishes, which  *)
(* follow the endpoint wherever it goes.                                   *)
(***************************************************************************)
EXTENDS TransitionChannel, JudgementHistory

CONSTANTS
    UnresolvedCapacity,   \* records drained and not resolved (65536)
    DrainBatch,           \* kDrainBatchCapacity (1024)
    ProtectedReady,       \* kProtectedReadyEventCount (32)
    HeartbeatLimit,       \* boundaries one outer call may commit (3)
    Backend,              \* "asio" or "wasapi_exclusive"
    PlayOrigin,           \* where judgement time is 0: a qpc tick under ASIO,
                          \* a position of the endpoint under WASAPI
    AnchorCapacity,       \* anchors the WASAPI clock retains (sixty seconds)
    Positions,            \* positions the endpoint may report, in ticks
    MaxAnchors,           \* bound: how many anchors it publishes
    MaxQpc,               \* bound: the clock stops here
    MaxEpochs             \* bound: how often the worker starts

ASSUME SchedulerAssumption ==
    /\ UnresolvedCapacity \in Nat \ {0} /\ DrainBatch \in Nat \ {0}
    /\ ProtectedReady \in Nat /\ HeartbeatLimit \in Nat \ {0}
    /\ Quantum \in Nat \ {0} /\ HistoryCapacity \in Nat \ {0}
    /\ Backend \in {"asio", "wasapi_exclusive"}
    /\ AnchorCapacity \in Nat \ {0} /\ MaxAnchors \in Nat
    /\ Positions \subseteq Nat
    /\ PlayOrigin \in Nat /\ MaxQpc \in Nat \ {0} /\ MaxEpochs \in Nat
    /\ Times = 1 .. MaxQpc

VARIABLES
    qpc,                     \* QueryPerformanceCounter
    anchors,                 \* what the WASAPI clock was told, oldest first
    worker_running,
    sampled,                 \* <<>> or what the worker is about to publish
    phase,                   \* where the game thread is
    host_time,               \* its last clock read: stage entry, or probe.now
    stage_open, clock_bound, stage_active,
    cutoff,
    unresolved,              \* drained records, oldest first
    history,
    next_drain_sequence,
    next_delivery_sequence,
    pending_event_count,
    marked_overload_count,
    last_resolved_coordinate,       \* <<>> or <<coordinate>>
    committed_frontier,             \* <<>> or <<coordinate>>
    committed_frontier_is_boundary,
    committed_boundary_index,       \* <<>> or <<index>>
    outer_horizon,                  \* <<>> or <<judgement time>>
    outstanding_scope,              \* <<>> or <<scope>>
    outer_event_scope_count,
    outer_heartbeat_scope_count,
    counters,                \* the stage's accounting of records
    drained_at_frontier,     \* next_drain_sequence at the last commit
    fatal                    \* "none", or the predicate that ended the process

clockVars  == <<qpc, anchors>>
workerVars == <<worker_running, sampled>>
stageVars  == <<stage_open, clock_bound, stage_active, cutoff>>
recordVars == <<unresolved, history, next_drain_sequence,
                next_delivery_sequence, pending_event_count,
                marked_overload_count, last_resolved_coordinate, counters>>
commitVars == <<committed_frontier, committed_frontier_is_boundary,
                committed_boundary_index, drained_at_frontier>>
outerVars  == <<outer_horizon, outstanding_scope, outer_event_scope_count,
                outer_heartbeat_scope_count>>
gameVars   == <<phase, host_time, stageVars, recordVars, commitVars, outerVars>>
schedulerVars == <<vars, clockVars, workerVars, gameVars, fatal>>

-----------------------------------------------------------------------------
(* The clock. An anchor says at which position the endpoint was at which   *)
(* host time. The clock keeps the newest ones, searches them from the      *)
(* newest, and goes on from the first that is not later than the time.     *)
AnchorAt(offset) == anchors[Len(anchors) - offset]

Retained == {offset \in 0 .. Len(anchors) - 1 : offset < AnchorCapacity}

Reaching(tick) == {offset \in Retained : AnchorAt(offset).qpc <= tick}

Lead(anchor) == anchor.position - anchor.qpc

(* <<the judgement time of a host time>>, or <<>> where no anchor reaches. *)
JudgementTime(tick) ==
    IF Backend = "asio" THEN <<tick - PlayOrigin>>
    ELSE IF Reaching(tick) = {} THEN <<>>
    ELSE <<tick + Lead(AnchorAt(Earliest(Reaching(tick)))) - PlayOrigin>>

HistoryLost(tick) ==
    /\ Backend = "wasapi_exclusive"
    /\ Len(anchors) > AnchorCapacity
    /\ Reaching(tick) = {}

Floor60(time)     == time \div Quantum
Ceil60(time)      == -((-time) \div Quantum)
BoundaryAt(index) == index * Quantum

HeartbeatSequence == MaxU64

Precedes(left, right) ==
    \/ left.time < right.time
    \/ left.time = right.time /\ left.sequence < right.sequence

(* Mutant: a committed boundary does not close its own tick.               *)
PrecedesCommittedFrontier(coordinate) ==
    \E i \in DOMAIN committed_frontier :
       ~Precedes(committed_frontier[i], coordinate)

IsBehindCommittedFrontier(coordinate) ==
    \E i \in DOMAIN committed_frontier :
       \/ coordinate.time < committed_frontier[i].time
       \/ /\ coordinate.time = committed_frontier[i].time
          /\ \/ committed_frontier_is_boundary
             \/ coordinate.sequence <= committed_frontier[i].sequence

CurrentHistoryPrefixEnd(past, delivery) ==
    LET next == FirstResolvedAtOrAfter(past, delivery)
    IN IF next = <<>> THEN past.next_sequence ELSE next[1].sequence

NoCutoff == [transport_epoch |-> 0, first_stage_sequence |-> 0,
             eviction_count |-> 0, held_baseline |-> {},
             stage_entry_time |-> 0, stage_entry_handoff_drops |-> 0]

NoCounters == [event_scopes |-> 0, late_records |-> 0, overload_drops |-> 0,
               cleanup_drops |-> 0]

(* The first failed check, in the order the code makes them.               *)
FirstFault(checks) ==
    LET failed == {i \in DOMAIN checks : checks[i][1]}
    IN IF failed = {} THEN "none" ELSE checks[Earliest(failed)][2]

Die(reason) ==
    /\ reason # "none"
    /\ fatal' = reason
    /\ UNCHANGED <<vars, clockVars, workerVars, gameVars>>

Alive == fatal = "none"

-----------------------------------------------------------------------------
(* Mutant: the boundary index of the previous stage survives.              *)
ClearCommittedCoordinate ==
    /\ committed_frontier' = <<>>
    /\ committed_frontier_is_boundary' = FALSE
    /\ drained_at_frontier' = 0
    /\ UNCHANGED committed_boundary_index

ClearFrontier ==
    /\ committed_frontier' = <<>>
    /\ committed_frontier_is_boundary' = FALSE
    /\ drained_at_frontier' = 0
    /\ committed_boundary_index' = <<>>

(* ClearStageOwnedState, then a history that starts at a cutoff.           *)
StageOwnedState(past) ==
    /\ unresolved' = <<>>
    /\ history' = past
    /\ next_drain_sequence' = past.next_sequence
    /\ next_delivery_sequence' = past.next_sequence
    /\ pending_event_count' = 0
    /\ marked_overload_count' = 0
    /\ last_resolved_coordinate' = <<>>
    /\ ClearFrontier
    /\ outer_horizon' = <<>>
    /\ outstanding_scope' = <<>>
    /\ outer_event_scope_count' = 0
    /\ outer_heartbeat_scope_count' = 0

EmptyHistory == Reset(Controls, 0, 0, {})

SchedulerInit ==
    /\ queue = <<>> /\ transport_epoch = 0 /\ next_sequence = 0
    /\ eviction_count = 0 /\ enabled = TRUE /\ active = FALSE
    /\ published_held = {} /\ answer = NoAnswer
    /\ qpc = 1 /\ anchors = <<>>
    /\ worker_running = FALSE /\ sampled = <<>>
    /\ phase = "idle" /\ host_time = 1
    /\ stage_open = FALSE /\ clock_bound = FALSE /\ stage_active = FALSE
    /\ cutoff = NoCutoff
    /\ unresolved = <<>> /\ history = EmptyHistory
    /\ next_drain_sequence = 0 /\ next_delivery_sequence = 0
    /\ pending_event_count = 0 /\ marked_overload_count = 0
    /\ last_resolved_coordinate = <<>> /\ counters = NoCounters
    /\ committed_frontier = <<>> /\ committed_frontier_is_boundary = FALSE
    /\ committed_boundary_index = <<>> /\ drained_at_frontier = 0
    /\ outer_horizon = <<>> /\ outstanding_scope = <<>>
    /\ outer_event_scope_count = 0 /\ outer_heartbeat_scope_count = 0
    /\ fatal = "none"

Tick(tick) ==
    /\ tick > qpc
    /\ qpc' = tick
    /\ UNCHANGED <<vars, anchors, workerVars, gameVars, fatal>>

(* The WASAPI audio thread publishes where the endpoint is. The clock      *)
(* accepts no anchor that goes back, but the endpoint may progress slower  *)
(* or faster than the host clock.                                          *)
PublishAnchor(tick, position) ==
    /\ Backend = "wasapi_exclusive"
    /\ Len(anchors) < MaxAnchors
    /\ tick <= qpc
    /\ anchors # <<>> => /\ tick >= AnchorAt(0).qpc
                        /\ position >= AnchorAt(0).position
    /\ anchors' = Append(anchors, [position |-> position, qpc |-> tick])
    /\ UNCHANGED <<vars, qpc, workerVars, gameVars, fatal>>

-----------------------------------------------------------------------------
(* The input worker.                                                       *)

(* NativeInputWorker::Initialize begins an epoch with nothing held.        *)
WorkerStarts ==
    /\ ~worker_running
    /\ transport_epoch < MaxEpochs
    /\ worker_running' = TRUE
    /\ Begin({})
    /\ UNCHANGED <<clockVars, sampled, gameVars, fatal>>

(* Publish reads the clock, then swaps the snapshot. A word with the same  *)
(* gameplay controls, or an inactive transport, changes nothing here.      *)
Sample(held) ==
    /\ worker_running /\ active
    /\ sampled = <<>>
    /\ held # published_held
    /\ sampled' = <<[held |-> held, time |-> qpc]>>
    /\ UNCHANGED <<vars, clockVars, worker_running, gameVars, fatal>>

PublishSampled ==
    /\ sampled # <<>>
    /\ Publish(published_held, sampled[1].held, sampled[1].time)
    /\ sampled' = <<>>
    /\ UNCHANGED <<clockVars, worker_running, gameVars, fatal>>

(* Shutdown has published the cleared controls before it ends the epoch.   *)
WorkerStops ==
    /\ worker_running
    /\ sampled = <<>>
    /\ published_held = {} \/ ~active
    /\ worker_running' = FALSE
    /\ End
    /\ UNCHANGED <<clockVars, sampled, gameVars, fatal>>

-----------------------------------------------------------------------------
(* Stage entry and exit.                                                   *)
CaptureStageEntry ==
    /\ phase = "idle"
    /\ phase' = "entering"
    /\ host_time' = qpc
    /\ UNCHANGED <<vars, clockVars, workerVars, stageVars, recordVars,
                   commitVars, outerVars, fatal>>

BeginFault == FirstFault(<<
    <<stage_open, "SemanticStageAlreadyOpen">>,
    <<~(enabled /\ active /\ transport_epoch # 0) /\ next_sequence = MaxU64,
      "SequenceExhausted">>,
    <<~(enabled /\ active /\ transport_epoch # 0),
      "InputTransportInactiveAtStageEntry">> >>)

BeginSemanticStage ==
    /\ phase = "entering"
    /\ IF BeginFault # "none" THEN Die(BeginFault) ELSE
       LET start == CutoffAt(host_time)
       IN /\ queue' = <<>>
          /\ cutoff' = start
          /\ StageOwnedState(Reset(Controls, start.transport_epoch,
                                   start.first_stage_sequence,
                                   start.held_baseline))
          /\ counters' = NoCounters
          /\ stage_open' = TRUE /\ clock_bound' = FALSE /\ stage_active' = FALSE
          /\ phase' = "idle"
          /\ UNCHANGED <<transport_epoch, next_sequence, eviction_count,
                         enabled, active, published_held, answer, clockVars,
                         workerVars, host_time, fatal>>

(* AccountCleanupDropsOrFatal captures a second cutoff: what it discards,  *)
(* and what was drained and never delivered, is counted as cleanup drops.  *)
CleanupFault ==
    LET lost == ~(enabled /\ active)
    IN FirstFault(<<
         <<lost /\ next_sequence = MaxU64, "SequenceExhausted">>,
         <<lost /\ eviction_count # cutoff.eviction_count, "TransportEvicted">>,
         <<lost, "InputTransportWorkerBecameInactive">>,
         <<transport_epoch # cutoff.transport_epoch,
           "InputTransportEpochChanged">>,
         <<eviction_count # cutoff.eviction_count, "TransportEvicted">>,
         <<next_sequence < cutoff.first_stage_sequence,
           "TransportSequenceDiscontinuous">> >>)

PostCutoffRecords == next_sequence - cutoff.first_stage_sequence

(* Mutant: late records are not counted as accounted for.                  *)
Delivered == counters.event_scopes + counters.overload_drops

Classified ==
    counters.event_scopes + counters.late_records + counters.overload_drops

CloseStage ==
    /\ queue' = <<>>
    /\ counters' = [counters EXCEPT !.cleanup_drops =
                      IF PostCutoffRecords >= Classified
                      THEN PostCutoffRecords - Classified ELSE 0]
    /\ StageOwnedState(EmptyHistory)
    /\ cutoff' = NoCutoff
    /\ stage_open' = FALSE /\ clock_bound' = FALSE /\ stage_active' = FALSE
    /\ UNCHANGED <<transport_epoch, next_sequence, eviction_count, enabled,
                   active, published_held, answer, clockVars, workerVars,
                   phase, host_time, fatal>>

EndFault == FirstFault(<<
    <<~stage_open, "SemanticStageExitWithoutOpen">>,
    <<~(clock_bound /\ stage_active), "StageOriginUnboundAtStageExit">>,
    <<CleanupFault # "none", CleanupFault>> >>)

EndSemanticStage ==
    /\ phase = "idle"
    /\ IF EndFault # "none" THEN Die(EndFault) ELSE CloseStage

(* The native game initialises a stage again without having left it.       *)
TerminateForGameplayInitialization ==
    /\ phase = "idle"
    /\ stage_open
    /\ IF CleanupFault # "none" THEN Die(CleanupFault) ELSE CloseStage

-----------------------------------------------------------------------------
(* One outer call: PrepareOuterCall, the scopes, FinishOuterCall.          *)

(* The horizon's clock is read before the transport is drained.            *)
StartOuterCall ==
    /\ phase = "idle"
    /\ stage_open
    /\ phase' = "draining"
    /\ host_time' = qpc
    /\ outer_horizon' = <<>>
    /\ outer_event_scope_count' = 0
    /\ outer_heartbeat_scope_count' = 0
    /\ UNCHANGED <<vars, clockVars, workerVars, stageVars, recordVars,
                   commitVars, outstanding_scope, fatal>>

(* Mutant: a loss between two drains goes unnoticed.                       *)
TransportChecksWithoutEviction(status) ==
    << <<~(status.enabled /\ status.active),
         "InputTransportWorkerBecameInactive">>,
       <<status.transport_epoch # cutoff.transport_epoch,
         "InputTransportEpochChanged">> >>

(* Mutant: a worker that has been started again goes unnoticed.            *)
TransportChecksWithoutEpoch(status) ==
    << <<~(status.enabled /\ status.active),
         "InputTransportWorkerBecameInactive">>,
       <<status.eviction_count # cutoff.eviction_count, "TransportEvicted">> >>

(* The transport is the one the stage was opened on.                       *)
TransportChecks(status) ==
    << <<~status.enabled, "InputTransportWorkerBecameInactive">>,
       <<~status.active /\ status.next_sequence = MaxU64, "SequenceExhausted">>,
       <<~status.active /\ status.eviction_count # cutoff.eviction_count,
         "TransportEvicted">>,
       <<~status.active, "InputTransportWorkerBecameInactive">>,
       <<status.transport_epoch # cutoff.transport_epoch,
         "InputTransportEpochChanged">>,
       <<status.eviction_count # cutoff.eviction_count, "TransportEvicted">> >>

DrainFault(batch, status, room) ==
    LET drained == next_drain_sequence + Len(batch)
    IN FirstFault(TransportChecks(status) \o <<
         <<status.next_sequence < status.depth, "TransportDrainContradiction">>,
         <<\E i \in DOMAIN batch :
              batch[i].transport_epoch # cutoff.transport_epoch,
           "InputTransportEpochChanged">>,
         <<\E i \in DOMAIN batch :
              batch[i].sequence # next_drain_sequence + i - 1,
           "TransportSequenceDiscontinuous">>,
         <<\E i \in DOMAIN batch : batch[i].sequence = MaxU64,
           "SequenceExhausted">>,
         <<status.next_sequence - status.depth # drained,
           "TransportSequenceDiscontinuous">>,
         <<status.depth # 0 /\ Len(batch) = room, "UnresolvedCapacityExhausted">>,
         <<status.depth # 0 /\ batch = <<>>, "TransportDrainContradiction">> >>)

(* One turn of the loop, under one lock; it turns until the queue is empty.*)
DrainTransport ==
    LET room   == UnresolvedCapacity - Len(unresolved)
        span   == IF room < DrainBatch THEN room ELSE DrainBatch
        batch  == Batch(span)
        status == StatusAfter(span)
        fault  == DrainFault(batch, status, room)
    IN /\ phase = "draining"
       /\ IF fault # "none" THEN Die(fault) ELSE
          /\ queue' = Rest(span)
          /\ unresolved' = unresolved \o batch
          /\ next_drain_sequence' = next_drain_sequence + Len(batch)
          /\ phase' = IF status.depth = 0 THEN "binding" ELSE "draining"
          /\ UNCHANGED <<transport_epoch, next_sequence, eviction_count,
                         enabled, active, published_held, answer, clockVars,
                         workerVars, host_time, stageVars, history,
                         next_delivery_sequence, pending_event_count,
                         marked_overload_count, last_resolved_coordinate,
                         counters, commitVars, outerVars, fatal>>

(* The stage clock binds to the play that started after stage entry: under *)
(* WASAPI that can be told only when the entry time is resolved. The stage *)
(* becomes active once its own entry time is resolved: the first boundary  *)
(* to judge is the first at or after it. Until then the call has no        *)
(* horizon.                                                                *)
BindClock(playing, entry_resolved) ==
    LET entry    == JudgementTime(cutoff.stage_entry_time)
        bound    == clock_bound \/ (playing /\ entry # <<>>)
        activate == ~stage_active /\ bound /\ entry_resolved /\ entry # <<>>
    IN /\ phase = "binding"
       /\ Backend = "asio" => entry_resolved
       /\ clock_bound' = bound
       /\ stage_active' = (stage_active \/ activate)
       /\ committed_boundary_index' =
             IF activate
             THEN <<Ceil60(entry[1]) - 1>>
             ELSE committed_boundary_index
       /\ phase' = IF stage_active' THEN "resolving" ELSE "scoping"
       /\ UNCHANGED <<vars, clockVars, workerVars, host_time, stage_open,
                      cutoff, recordVars, committed_frontier,
                      committed_frontier_is_boundary, drained_at_frontier,
                      outerVars, fatal>>

(* ResolveUnresolvedPrefixOrFatal, one record at a time. A record behind   *)
(* the committed frontier is kept as state only.                           *)
FrontTime == JudgementTime(unresolved[1].observed_time)

FrontCoordinate ==
    [time |-> FrontTime[1], sequence |-> unresolved[1].sequence]

ResolveFault(late) == FirstFault(<<
    <<\E i \in DOMAIN last_resolved_coordinate :
         ~Precedes(last_resolved_coordinate[i], FrontCoordinate),
      "ResolvedCoordinateRegressed">>,
    <<late /\ next_delivery_sequence # unresolved[1].sequence,
      "DeliveryOrderViolated">>,
    <<~CanAppend(history, unresolved[1], FrontCoordinate.time),
      "TransportMaskMismatch">>,
    <<~HasRoom(history), "HistoryCapacityExhausted">> >>)

ResolveFront ==
    LET record == unresolved[1]
        late   == IsBehindCommittedFrontier(FrontCoordinate)
        fault  == ResolveFault(late)
    IN /\ phase = "resolving"
       /\ unresolved # <<>>
       /\ FrontTime # <<>>
       /\ IF fault # "none" THEN Die(fault) ELSE
          /\ unresolved' = Tail(unresolved)
          /\ last_resolved_coordinate' = <<FrontCoordinate>>
          /\ history' = AppendEntry(history, record, FrontCoordinate.time, ~late)
          /\ IF late
             THEN /\ next_delivery_sequence' = record.sequence + 1
                  /\ counters' = [counters EXCEPT !.late_records = @ + 1]
                  /\ UNCHANGED pending_event_count
             ELSE /\ pending_event_count' = pending_event_count + 1
                  /\ UNCHANGED <<next_delivery_sequence, counters>>
          /\ UNCHANGED <<vars, clockVars, workerVars, phase, host_time,
                         stageVars, next_drain_sequence, marked_overload_count,
                         commitVars, outerVars, fatal>>

(* WASAPI: the time asked for is beyond what has been submitted, no anchor *)
(* reaches it, or the anchors are being overwritten under the search. The  *)
(* call ends without a horizon.                                            *)
ClockNotReady ==
    /\ phase = "resolving"
    /\ Backend = "wasapi_exclusive"
    /\ phase' = "scoping"
    /\ UNCHANGED <<vars, clockVars, workerVars, host_time, stageVars,
                   recordVars, commitVars, outerVars, fatal>>

(* The time the scheduler asks the clock for next.                         *)
AskedTime ==
    IF phase = "binding" THEN cutoff.stage_entry_time
    ELSE IF unresolved # <<>> THEN unresolved[1].observed_time
    ELSE host_time

(* FailForClockResult: the clock has been invalidated (its failure is then *)
(* None), its arithmetic fails, or its anchors no longer reach back. What  *)
(* the stage was about to bind to may also have been replaced or evicted.  *)
ClockFailures ==
    {"FatalRecordInvalid", "RationalOperationUnrepresentable"}

BindFailures ==
    {"StageOriginHistoryLost", "TimelineProviderIdentityChanged",
     "TimelineGenerationChanged", "PlaybackHistoryObjectChangedBeforeAnchor",
     "PlaybackHistoryTimelineChangedBeforeAnchor"}

ClockReasons ==
    ClockFailures \cup BindFailures \cup {"TimelineProjectionDiscontinuous"}

Binding == phase = "binding" /\ ~stage_active

ClockFails(reason) ==
    /\ Backend = "wasapi_exclusive"
    /\ Binding \/ phase = "resolving"
    /\ \/ reason \in ClockFailures
       \/ reason \in BindFailures /\ Binding /\ ~clock_bound
       \/ /\ reason = "TimelineProjectionDiscontinuous"
          /\ HistoryLost(AskedTime)
          /\ Binding => clock_bound
    /\ Die(reason)

(* Mutant: a horizon is selected although a record still has no time.      *)
SomeResolved == phase = "resolving"

AllResolved == unresolved = <<>>

(* SelectOuterHorizonOrFatal. Ready events beyond the protected ones are   *)
(* marked as overload, and one call commits few boundaries.                *)
SelectHorizon ==
    LET ready == JudgementTime(host_time)[1]
        count == CountResolvedAtOrBefore(history, next_delivery_sequence, ready)
        last  == committed_boundary_index[1] + HeartbeatLimit
        fault == FirstFault(<<
           <<\E i \in DOMAIN committed_frontier :
                ready < committed_frontier[i].time,
             "TimelineProjectionDiscontinuous">>,
           <<committed_boundary_index = <<>>, "CommitTopologyMismatch">> >>)
    IN /\ phase = "resolving"
       /\ AllResolved
       /\ JudgementTime(host_time) # <<>>
       /\ IF fault # "none" THEN Die(fault) ELSE
          /\ marked_overload_count' = IF count > ProtectedReady
                                      THEN count - ProtectedReady ELSE 0
          /\ outer_horizon' = IF Floor60(ready) > last
                              THEN <<BoundaryAt(last)>> ELSE <<ready>>
          /\ phase' = "scoping"
          /\ UNCHANGED <<vars, clockVars, workerVars, host_time, stageVars,
                         unresolved, history, next_drain_sequence,
                         next_delivery_sequence, pending_event_count,
                         last_resolved_coordinate, counters, commitVars,
                         outstanding_scope, outer_event_scope_count,
                         outer_heartbeat_scope_count, fatal>>

-----------------------------------------------------------------------------
(* NextScope and CommitScope.                                              *)
Event        == FirstResolvedAtOrAfter(history, next_delivery_sequence)
NextBoundary == BoundaryAt(committed_boundary_index[1] + 1)

(* An earlier event or three boundaries end the call's scopes.             *)
MayScope ==
    /\ phase = "scoping"
    /\ outstanding_scope = <<>>
    /\ outer_event_scope_count = 0
    /\ outer_heartbeat_scope_count < HeartbeatLimit

(* Mutant: an event at the horizon itself waits.                           *)
EventPassed ==
    \E i \in DOMAIN Event, j \in DOMAIN outer_horizon :
       Event[i].time < outer_horizon[j]

EventDue ==
    \E i \in DOMAIN Event, j \in DOMAIN outer_horizon :
       Event[i].time <= outer_horizon[j]
BoundaryDue == \E j \in DOMAIN outer_horizon : NextBoundary <= outer_horizon[j]

(* Mutant: an event overtakes the boundary before it.                      *)
AnyEventIsNext == EventDue

EventIsNext == EventDue /\ (BoundaryDue => Event[1].time <= NextBoundary)

ConsumeMarkedOverload ==
    /\ MayScope
    /\ EventIsNext
    /\ marked_overload_count # 0
    /\ IF pending_event_count = 0 THEN Die("DeliveryOrderViolated") ELSE
       /\ history' = ConvertResolvedToStateOnly(history, Event[1].sequence)
       /\ next_delivery_sequence' = Event[1].sequence + 1
       /\ pending_event_count' = pending_event_count - 1
       /\ marked_overload_count' = marked_overload_count - 1
       /\ counters' = [counters EXCEPT !.overload_drops = @ + 1]
       /\ UNCHANGED <<vars, clockVars, workerVars, phase, host_time, stageVars,
                      unresolved, next_drain_sequence,
                      last_resolved_coordinate, commitVars, outerVars, fatal>>

EventScope(event) ==
    LET next == FirstResolvedAtOrAfter(history, event.sequence + 1)
    IN [kind |-> "event", coordinate |-> Coordinate(event),
        prefix_end |-> event.sequence + 1,
        commits_boundary |-> /\ event.time = NextBoundary
                             /\ \A i \in DOMAIN next : next[i].time # NextBoundary]

HeartbeatScope ==
    [kind |-> "heartbeat",
     coordinate |-> [time |-> NextBoundary, sequence |-> HeartbeatSequence],
     prefix_end |-> CurrentHistoryPrefixEnd(history, next_delivery_sequence),
     commits_boundary |-> TRUE]

(* An event opens a call's only scope; behind a boundary it has to wait.   *)
ScopeEvent ==
    /\ MayScope
    /\ EventIsNext
    /\ marked_overload_count = 0
    /\ outer_heartbeat_scope_count = 0
    /\ outstanding_scope' = <<EventScope(Event[1])>>
    /\ UNCHANGED <<vars, clockVars, workerVars, phase, host_time, stageVars,
                   recordVars, commitVars, outer_horizon,
                   outer_event_scope_count, outer_heartbeat_scope_count, fatal>>

(* ExecuteScope reads the held controls of a heartbeat from the history.   *)
ScopeHeartbeat ==
    /\ MayScope
    /\ ~EventIsNext
    /\ BoundaryDue
    /\ IF OrdinaryHeldAt(history, NextBoundary, HeartbeatScope.prefix_end) = <<>>
       THEN Die("HistoryPromisedEntryMissing") ELSE
       /\ outstanding_scope' = <<HeartbeatScope>>
       /\ UNCHANGED <<vars, clockVars, workerVars, phase, host_time, stageVars,
                      recordVars, commitVars, outer_horizon,
                      outer_event_scope_count, outer_heartbeat_scope_count,
                      fatal>>

DeliveryAfter(scope) ==
    IF scope.kind = "event" THEN scope.coordinate.sequence + 1
                            ELSE next_delivery_sequence

PrefixEndAfter(scope) == CurrentHistoryPrefixEnd(history, DeliveryAfter(scope))

(* The order of commits is the diagnostics' check, which names the         *)
(* predicate of a regressed resolution and a reason of its own: the reason *)
(* tells the two apart here.                                               *)
CommitFault(scope) == FirstFault(<<
    <<scope.kind = "event" /\ pending_event_count = 0, "DeliveryOrderViolated">>,
    <<\E i \in DOMAIN committed_frontier :
         ~Precedes(committed_frontier[i], scope.coordinate),
      "CommittedOrderViolation">>,
    <<~CanPrune(history, PrefixEndAfter(scope)),
      "HistoryPromisedEntryMissing">> >>)

(* Mutant: the delivered event stays counted as pending.                   *)
CommitEventPending(scope) ==
    /\ next_delivery_sequence' = scope.coordinate.sequence + 1
    /\ counters' = [counters EXCEPT !.event_scopes = @ + 1]
    /\ outer_event_scope_count' = outer_event_scope_count + 1
    /\ UNCHANGED <<pending_event_count, outer_heartbeat_scope_count>>

CommitEvent(scope) ==
    /\ next_delivery_sequence' = DeliveryAfter(scope)
    /\ pending_event_count' = pending_event_count - 1
    /\ counters' = [counters EXCEPT !.event_scopes = @ + 1]
    /\ outer_event_scope_count' = outer_event_scope_count + 1
    /\ UNCHANGED outer_heartbeat_scope_count

CommitHeartbeat ==
    /\ outer_heartbeat_scope_count' = outer_heartbeat_scope_count + 1
    /\ UNCHANGED <<next_delivery_sequence, pending_event_count, counters,
                   outer_event_scope_count>>

CommitScope ==
    LET scope == outstanding_scope[1]
    IN /\ outstanding_scope # <<>>
       /\ IF CommitFault(scope) # "none" THEN Die(CommitFault(scope)) ELSE
          /\ \/ scope.kind = "event" /\ CommitEvent(scope)
             \/ scope.kind = "heartbeat" /\ CommitHeartbeat
          /\ committed_frontier' = <<scope.coordinate>>
          /\ committed_frontier_is_boundary' = scope.commits_boundary
          /\ committed_boundary_index' =
                IF scope.commits_boundary
                THEN <<committed_boundary_index[1] + 1>>
                ELSE committed_boundary_index
          /\ drained_at_frontier' = next_drain_sequence
          /\ history' = PruneBefore(history, scope.coordinate.time,
                                    PrefixEndAfter(scope))
          /\ outstanding_scope' = <<>>
          /\ UNCHANGED <<vars, clockVars, workerVars, phase, host_time,
                         stageVars, unresolved, next_drain_sequence,
                         marked_overload_count, last_resolved_coordinate,
                         outer_horizon, fatal>>

(* NextScope has no more: nothing is due, or an event waits for its call.  *)
NoMoreScopes ==
    \/ outer_event_scope_count # 0
    \/ outer_heartbeat_scope_count >= HeartbeatLimit
    \/ ~EventDue /\ ~BoundaryDue
    \/ /\ EventIsNext
       /\ marked_overload_count = 0
       /\ outer_heartbeat_scope_count # 0

OneKindOfScope ==
    \/ outer_event_scope_count = 0 /\ outer_heartbeat_scope_count <= HeartbeatLimit
    \/ outer_event_scope_count = 1 /\ outer_heartbeat_scope_count = 0

FinishOuterCall ==
    /\ phase = "scoping"
    /\ outstanding_scope = <<>>
    /\ NoMoreScopes
    /\ IF ~OneKindOfScope THEN Die("CommitTopologyMismatch") ELSE
       /\ phase' = "idle"
       /\ outer_horizon' = <<>>
       /\ outer_event_scope_count' = 0
       /\ outer_heartbeat_scope_count' = 0
       /\ UNCHANGED <<vars, clockVars, workerVars, host_time, stageVars,
                      recordVars, commitVars, outstanding_scope, fatal>>

-----------------------------------------------------------------------------
Worker ==
    \/ WorkerStarts
    \/ \E held \in Mask : Sample(held)
    \/ PublishSampled
    \/ WorkerStops

Lifecycle ==
    \/ CaptureStageEntry
    \/ BeginSemanticStage
    \/ EndSemanticStage
    \/ TerminateForGameplayInitialization

OuterCall ==
    \/ StartOuterCall
    \/ DrainTransport
    \/ \E playing, entry_resolved \in BOOLEAN : BindClock(playing, entry_resolved)
    \/ ResolveFront
    \/ ClockNotReady
    \/ \E reason \in ClockReasons : ClockFails(reason)
    \/ SelectHorizon
    \/ ConsumeMarkedOverload
    \/ ScopeEvent
    \/ ScopeHeartbeat
    \/ CommitScope
    \/ FinishOuterCall

SchedulerNext ==
    /\ Alive
    /\ \/ \E tick \in Times : Tick(tick)
       \/ \E tick \in Times, position \in Positions :
             PublishAnchor(tick, position)
       \/ Worker
       \/ Lifecycle
       \/ OuterCall

SchedulerSpec == SchedulerInit /\ [][SchedulerNext]_schedulerVars

(* The game calls the native loop again and again, and each thread         *)
(* finishes the call it is in.                                             *)
FairSchedulerSpec ==
    /\ SchedulerSpec
    /\ WF_schedulerVars(Alive /\ OuterCall)
    /\ WF_schedulerVars(Alive /\ BeginSemanticStage)
    /\ WF_schedulerVars(Alive /\ PublishSampled)

-----------------------------------------------------------------------------
(* The transport is still the one the stage was opened on. A saturated     *)
(* eviction count could no longer tell.                                    *)
TransportIntact ==
    /\ stage_open /\ Alive
    /\ enabled /\ active
    /\ transport_epoch = cutoff.transport_epoch
    /\ eviction_count = cutoff.eviction_count
    /\ eviction_count < MaxU64

(* The checks the scheduler makes on its own order. It dies of a lost      *)
(* transport, an exhausted capacity, a stage call out of order or a clock  *)
(* that fails, never of the interleaving of the threads: whatever the      *)
(* clock answers, its sequences, masks, deliveries, queries and commits    *)
(* agree. Its two checks of the clock's answers fail only when the         *)
(* endpoint is to blame: a resolved time or a horizon goes back only if    *)
(* the endpoint fell behind the host clock between two anchors, and        *)
(* otherwise a time is refused only when its anchor has been overwritten.  *)
OrderFaults ==
    {"TransportSequenceDiscontinuous", "TransportDrainContradiction",
     "DeliveryOrderViolated", "TransportMaskMismatch",
     "HistoryPromisedEntryMissing", "CommitTopologyMismatch",
     "CommittedOrderViolation"}

EndpointFellBehind ==
    \E i, j \in DOMAIN anchors : i < j /\ Lead(anchors[j]) < Lead(anchors[i])

NoOrderFault ==
    /\ fatal \notin OrderFaults
    /\ fatal = "ResolvedCoordinateRegressed" => EndpointFellBehind
    /\ fatal = "TimelineProjectionDiscontinuous" =>
          EndpointFellBehind \/ Len(anchors) > AnchorCapacity

(* Drained records and queued ones form one chain that continues the       *)
(* history: consecutive sequences, each starting from the controls the     *)
(* previous one left held, in clock order. Nothing is lost, doubled or     *)
(* reordered between the worker's publication and the judgement history.   *)
InFlight == unresolved \o queue

InFlightChain ==
    TransportIntact =>
    /\ Len(InFlight) = next_sequence - history.next_sequence
    /\ \A i \in DOMAIN InFlight :
          /\ InFlight[i].sequence = history.next_sequence + i - 1
          /\ InFlight[i].held_before = IF i = 1 THEN history.current_held
                                       ELSE InFlight[i - 1].held_after
          /\ i > 1 => InFlight[i].observed_time >= InFlight[i - 1].observed_time
    /\ published_held = IF InFlight = <<>> THEN history.current_held
                        ELSE InFlight[Len(InFlight)].held_after

(* Every record published since the cutoff is delivered as one event, kept *)
(* as a late record, dropped as overload, or still on its way.             *)
Conservation ==
    TransportIntact =>
       PostCutoffRecords = Classified + pending_event_count
                           + Len(unresolved) + Len(queue)

(* The cleanup drops of a stage that ends are the records still on their   *)
(* way then, although they are computed from the sequence numbers. Once    *)
(* the eviction count is at its largest value it can tell no further loss. *)
CleanupDropsAreTheBacklog ==
    [][stage_open /\ ~stage_open' /\ eviction_count < MaxU64 =>
          counters'.cleanup_drops
             = pending_event_count + Len(unresolved) + Len(queue)]_schedulerVars

(* The pending events are the ones counted, all follow the frontier, and   *)
(* none shares the tick of a boundary that has been committed: a scope can *)
(* never be asked for a time already judged.                               *)
PendingEvents ==
    {i \in DOMAIN history.entries :
       /\ history.entries[i].eligible
       /\ history.entries[i].sequence >= next_delivery_sequence}

PendingAheadOfFrontier ==
    /\ Cardinality(PendingEvents) = pending_event_count
    /\ \A i \in PendingEvents, j \in DOMAIN committed_frontier :
          /\ Precedes(committed_frontier[j], Coordinate(history.entries[i]))
          /\ committed_frontier_is_boundary =>
                history.entries[i].time > committed_frontier[j].time

(* A record is late only because of the race between its clock read and    *)
(* its publication: the call that moved the frontier past it could not     *)
(* have drained it.                                                        *)
LateOnlyIfRaced ==
    [][counters'.late_records > counters.late_records =>
          unresolved[1].sequence >= drained_at_frontier]_schedulerVars

(* Events never overtake the boundary that follows the committed ones, and *)
(* when the frontier is a boundary it is exactly the newest committed one. *)
(* Each boundary is therefore judged once, by a heartbeat or by an event,  *)
(* and no stage goes on from the boundaries of the one before it.          *)
FrontierWithinBoundary ==
    /\ stage_active <=> committed_boundary_index # <<>>
    /\ \A i \in DOMAIN committed_frontier :
          /\ committed_frontier[i].time <= NextBoundary
          /\ committed_frontier_is_boundary =>
                committed_frontier[i].time = BoundaryAt(committed_boundary_index[1])

(* Nothing is judged behind what has been judged: neither a pending event  *)
(* nor the next boundary.                                                  *)
JudgedForward == PendingAheadOfFrontier /\ FrontierWithinBoundary

(* While a stage stays active and nothing fails, the game catches up: when *)
(* the clock stands, every record is classified and every boundary up to   *)
(* the clock is judged, whatever the cap and the one-event rule deferred.  *)
CaughtUp ==
    /\ queue = <<>> /\ unresolved = <<>> /\ pending_event_count = 0
    /\ \A i \in DOMAIN JudgementTime(qpc) :
          committed_boundary_index[1] >= Floor60(JudgementTime(qpc)[i])

CatchesUp == <>[](stage_active /\ Alive) => <>[](stage_active /\ CaughtUp)
=============================================================================
