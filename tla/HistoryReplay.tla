--------------------------- MODULE HistoryReplay ---------------------------
(***************************************************************************)
(* One stage's history as the scheduler drives it: transitions arrive in   *)
(* coordinate order, on time, late or dropped as overload; event and       *)
(* heartbeat scopes are committed in coordinate order; every commit prunes.*)
(* `log` keeps every entry ever appended, so that an answer of the pruned  *)
(* history can be compared with the whole past.                            *)
(***************************************************************************)
EXTENDS JudgementScope, FiniteSets
Sets == INSTANCE FiniteSetsExt

CONSTANTS
    Controls,
    MaxTime,        \* bound: no boundary after this tick
    ObservedTimes,  \* bound: the ticks at which a transition can happen
    MaxEntries,     \* bound: transitions in the stage
    Backs           \* bound: how many frames back native code asks

ASSUME ReplayAssumption ==
    /\ Quantum \in Nat \ {0}
    /\ Pairs \subseteq Controls \X Controls
    /\ ObservedTimes \subseteq Nat
    /\ Backs \subseteq 0 .. 4
    /\ MaxTime \in Nat /\ MaxEntries \in Nat /\ HistoryCapacity >= MaxEntries

VARIABLES
    history,
    log,                    \* every entry of the stage, never pruned
    baseline,               \* controls held at the cutoff
    next_delivery_sequence,
    committed_frontier,     \* <<>> or <<coordinate>>
    frontier_is_boundary,
    boundary_index,         \* the newest committed 1/60 s boundary
    scope                   \* <<>> or the scope being executed

vars == <<history, log, baseline, next_delivery_sequence, committed_frontier,
          frontier_is_boundary, boundary_index, scope>>

NoSequence == MaxEntries + 1   \* the heartbeat's sequence sentinel

Pending == FirstResolvedAtOrAfter(history, next_delivery_sequence)

NextBoundary == (boundary_index + 1) * Quantum

PrefixEnd == IF Pending = <<>> THEN history.next_sequence
                               ELSE Pending[1].sequence

IsBehindCommittedFrontier(coordinate) ==
    \E i \in DOMAIN committed_frontier :
       \/ coordinate.time < committed_frontier[i].time
       \/ /\ coordinate.time = committed_frontier[i].time
          /\ \/ frontier_is_boundary
             \/ coordinate.sequence <= committed_frontier[i].sequence

-----------------------------------------------------------------------------
Init ==
    /\ baseline \in SUBSET Controls
    /\ history = Reset(Controls, 1, 0, baseline)
    /\ log = <<>>
    /\ next_delivery_sequence = 0
    /\ committed_frontier = <<>>
    /\ frontier_is_boundary = FALSE
    /\ boundary_index = -1
    /\ scope = <<>>

(* A transition is resolved between two scopes: behind the frontier it is  *)
(* kept as state only, otherwise it becomes a pending event.               *)
Observe(held_after, time) ==
    LET record == [transport_epoch |-> 1, sequence |-> history.next_sequence,
                   held_before |-> history.current_held,
                   held_after |-> held_after]
        late   == IsBehindCommittedFrontier(
                     [time |-> time, sequence |-> record.sequence])
    IN /\ scope = <<>>
       /\ Len(log) < MaxEntries
       /\ held_after # history.current_held
       /\ CanAppend(history, record, time) /\ HasRoom(history)
       /\ history' = AppendEntry(history, record, time, ~late)
       /\ log' = Append(log, history'.entries[Len(history'.entries)])
       /\ next_delivery_sequence' = IF late THEN record.sequence + 1
                                            ELSE next_delivery_sequence
       /\ UNCHANGED <<baseline, committed_frontier, frontier_is_boundary,
                      boundary_index, scope>>

(* The oldest pending event is given up as overload and kept as state.     *)
DropOverload ==
    /\ scope = <<>>
    /\ Pending # <<>>
    /\ history' = ConvertResolvedToStateOnly(history, Pending[1].sequence)
    /\ log' = [log EXCEPT ![Pending[1].sequence + 1].eligible = FALSE]
    /\ next_delivery_sequence' = Pending[1].sequence + 1
    /\ UNCHANGED <<baseline, committed_frontier, frontier_is_boundary,
                   boundary_index, scope>>

EventScope(event, boundary) ==
    [kind |-> "event", coordinate |-> Coordinate(event),
     held_before |-> event.held_before, held_after |-> event.held_after,
     rising |-> Rising(event), falling |-> Falling(event),
     prefix_end |-> event.sequence + 1,
     commits_boundary |->
        /\ event.time = boundary
        /\ \A i \in DOMAIN FirstResolvedAtOrAfter(history, event.sequence + 1) :
              FirstResolvedAtOrAfter(history, event.sequence + 1)[i].time
                 # boundary]

HeartbeatScope(boundary) ==
    LET held == OrdinaryHeldAt(history, boundary, PrefixEnd)[1]
    IN [kind |-> "heartbeat",
        coordinate |-> [time |-> boundary, sequence |-> NoSequence],
        held_before |-> held, held_after |-> held,
        rising |-> {}, falling |-> {},
        prefix_end |-> PrefixEnd, commits_boundary |-> TRUE]

BeginEvent ==
    /\ scope = <<>>
    /\ Pending # <<>>
    /\ Pending[1].time <= NextBoundary
    /\ scope' = <<EventScope(Pending[1], NextBoundary)>>
    /\ UNCHANGED <<history, log, baseline, next_delivery_sequence,
                   committed_frontier, frontier_is_boundary, boundary_index>>

BeginHeartbeat ==
    /\ scope = <<>>
    /\ NextBoundary <= MaxTime
    /\ \A i \in DOMAIN Pending : Pending[i].time > NextBoundary
    /\ scope' = <<HeartbeatScope(NextBoundary)>>
    /\ UNCHANGED <<history, log, baseline, next_delivery_sequence,
                   committed_frontier, frontier_is_boundary, boundary_index>>

CommitScope ==
    /\ scope # <<>>
    /\ next_delivery_sequence' =
          IF scope[1].kind = "event" THEN scope[1].coordinate.sequence + 1
                                     ELSE next_delivery_sequence
    /\ committed_frontier' = <<scope[1].coordinate>>
    /\ frontier_is_boundary' = scope[1].commits_boundary
    /\ boundary_index' = IF scope[1].commits_boundary THEN boundary_index + 1
                                                      ELSE boundary_index
    /\ LET next == FirstResolvedAtOrAfter(history, next_delivery_sequence')
       IN history' = PruneBefore(history, scope[1].coordinate.time,
                        IF next = <<>> THEN history.next_sequence
                                       ELSE next[1].sequence)
    /\ scope' = <<>>
    /\ UNCHANGED <<log, baseline>>

Next ==
    \/ \E held \in SUBSET Controls, time \in ObservedTimes : Observe(held, time)
    \/ DropOverload
    \/ BeginEvent
    \/ BeginHeartbeat
    \/ CommitScope

Spec == Init /\ [][Next]_vars

-----------------------------------------------------------------------------
(* The past as the whole log tells it: the entries that precede a query.   *)
Before(query_time, prefix_end) ==
    {i \in DOMAIN log : log[i].sequence < prefix_end /\ log[i].time <= query_time}

HeldByLog(query_time, prefix_end) ==
    IF Before(query_time, prefix_end) = {} THEN baseline
    ELSE log[Sets!Max(Before(query_time, prefix_end))].held_after

RisesByLog(logical, current) ==
    {i \in Before(current.coordinate.time, current.prefix_end) :
       /\ ~LogicalHeld(log[i].held_before, logical)
       /\ LogicalHeld(log[i].held_after, logical)}

AgeByLog(logical, current) ==
    LET rises == RisesByLog(logical, current)
        rise  == log[Sets!Max(rises)]
        held  == HeldByLog(current.coordinate.time, current.prefix_end)
        age   == 1 + (current.coordinate.time - rise.time) \div Quantum
    IN IF ~LogicalHeld(held, logical) THEN 0
       ELSE IF rises = {} THEN 5
       ELSE IF ~rise.eligible THEN 5
       ELSE IF rise.sequence = current.coordinate.sequence THEN 1
       ELSE IF age < 2 THEN 2 ELSE age

(* The history as it would be had nothing been pruned.                     *)
Whole == [history EXCEPT !.entries = log, !.causal_time_floor = <<>>,
                         !.base_next_sequence = 0]

(* What native code asks while the scope is executed.                      *)
Ask(kind, control, back) == [kind |-> kind, control |-> control, back |-> back]

(* Either booster's direction while these controls are held.               *)
EitherDirection(held) ==
    DirectionOf(2, LAMBDA logical : LogicalHeld(held, logical))

(* Held and direction queries, at the scope's frame and the frames before  *)
(* it, never fail on a pruned history and answer what the whole past says, *)
(* as of the scope's own prefix.                                           *)
HeldTransparent ==
    \A i \in DOMAIN scope, back \in Backs :
       LET held == HeldByLog(TranslateRequestedFrame(scope[i], back),
                             scope[i].prefix_end)
       IN /\ \A control \in Controls :
                Answer(history, scope[i], Ask("held", Single(control), back))
                   = Answered(control \in held)
          /\ Answer(history, scope[i], Ask("direction", 2, back))
                = Answered(EitherDirection(held))

(* A held age counts from the newest accepted rise even after that rise    *)
(* has been pruned into the causal base, and is 5 after a rise that was    *)
(* late, dropped as overload or older than the stage.                      *)
AgeSinceAcceptedRise ==
    \A i \in DOMAIN scope : \A logical \in Logical(Controls) :
       Answer(history, scope[i], Ask("held_age", logical, 0))
          = Answered(AgeByLog(logical, scope[i]))

(* No edge that a press or release of the scope's frame may still combine  *)
(* with is ever pruned: the answers are those of the unpruned past.        *)
EdgesTransparent ==
    \A i \in DOMAIN scope : \A logical \in Logical(Controls) :
       \A kind \in {"pressed", "released"} :
          Answer(history, scope[i], Ask(kind, logical, 0))
             = Answer(Whole, scope[i], Ask(kind, logical, 0))

(* The same for a release on one of the three frames before, of a single   *)
(* control or either of a pair: one entry of that frame decides it. A      *)
(* release of both may combine it with an entry that is already pruned.    *)
EarlierReleases ==
    \A i \in DOMAIN scope, back \in Backs \ {0, 4} :
       \A logical \in {l \in Logical(Controls) : l.kind # "both"} :
          Answer(history, scope[i], Ask("released", logical, back))
             = Answer(Whole, scope[i], Ask("released", logical, back))

(* An event scope starts from exactly the state the history replays just   *)
(* before it, late and overload entries included.                          *)
EventStartsFromHeldState ==
    \A i \in DOMAIN scope : scope[i].kind = "event" =>
       OrdinaryHeldAt(history, scope[i].coordinate.time,
                      scope[i].coordinate.sequence) = <<scope[i].held_before>>

(* Pruning, late records and dropped ones are invisible to a scope: it     *)
(* stays resolved, and what it finds held at its time and on the frames    *)
(* before, which edges it may combine, and what an event starts from are   *)
(* the unpruned past's.                                                    *)
QueriesTransparent ==
    /\ \A i \in DOMAIN scope : IsResolved(history, scope[i])
    /\ HeldTransparent /\ EdgesTransparent /\ EarlierReleases
    /\ EventStartsFromHeldState
=============================================================================
