------------------------- MODULE JudgementHistory --------------------------
(***************************************************************************)
(* The retained input history of one gameplay stage, and the queries the   *)
(* native judgement asks of it. Entries are resolved transitions in        *)
(* coordinate order. Old entries are folded into a causal base, from which *)
(* a query replays the retained ones.                                      *)
(*                                                                         *)
(* A history is a value; the modules that own one keep it in a variable.   *)
(* Judgement times are whole ticks, Quantum of them to 1/60 s. A result    *)
(* that can fail is <<value>>, or <<>> where the code returns an error.    *)
(***************************************************************************)
EXTENDS Integers, Sequences

CONSTANTS
    Quantum,           \* ticks of judgement time in 1/60 s
    HistoryCapacity,   \* kJudgementHistoryCapacity (65536 in the code)
    Pairs              \* <<first, second>> controls that form a pair

(* The ten ordinary controls and, for each of five pairs, "either" of its  *)
(* controls (10..14) and "both" (15..19).                                  *)
Single(control) == [kind |-> "single", control |-> control]
Logical(controls) ==
    {Single(control) : control \in controls}
    \cup [kind: {"either", "both"}, pair: Pairs]

LogicalHeld(held, logical) ==
    CASE logical.kind = "single" -> logical.control \in held
      [] logical.kind = "either" ->
            logical.pair[1] \in held \/ logical.pair[2] \in held
      [] logical.kind = "both" ->
            logical.pair[1] \in held /\ logical.pair[2] \in held

PairedLookback == 4 * Quantum

Rising(entry)  == entry.held_after \ entry.held_before
Falling(entry) == entry.held_before \ entry.held_after

EdgesOf(entry, rising) == IF rising THEN Rising(entry) ELSE Falling(entry)

Coordinate(entry) == [time |-> entry.time, sequence |-> entry.sequence]

-----------------------------------------------------------------------------
(* What is known of the newest rise of a held logical control.             *)
NoRise    == [kind |-> "none"]
StaleRise == [kind |-> "stale"]
AcceptedRise(entry) ==
    [kind |-> "accepted", time |-> entry.time, sequence |-> entry.sequence]

(* Reset: a control already held at the cutoff has no rise of its own.     *)
Reset(controls, epoch, cutoff_sequence, baseline) ==
    [entries |-> <<>>,
     transport_epoch |-> epoch,
     next_sequence |-> cutoff_sequence,
     base_next_sequence |-> cutoff_sequence,
     current_held |-> baseline,
     causal_base |->
        [held |-> baseline,
         rises |-> [logical \in Logical(controls) |->
                      IF LogicalHeld(baseline, logical) THEN StaleRise
                                                        ELSE NoRise]],
     causal_time_floor |-> <<>>,
     last_coordinate |-> <<>>]

(* Mutant: a late or overloaded transition is not applied at all.          *)
ApplyEligibleToState(state, entry) ==
    IF ~entry.eligible THEN state ELSE
    [held |-> entry.held_after,
     rises |-> [logical \in DOMAIN state.rises |->
        LET was == LogicalHeld(state.held, logical)
            is  == LogicalHeld(entry.held_after, logical)
        IN IF was = is THEN state.rises[logical]
           ELSE IF is THEN AcceptedRise(entry) ELSE NoRise]]

(* Mutant: every rise counts as accepted.                                  *)
ApplyAcceptingToState(state, entry) ==
    [held |-> entry.held_after,
     rises |-> [logical \in DOMAIN state.rises |->
        LET was == LogicalHeld(state.held, logical)
            is  == LogicalHeld(entry.held_after, logical)
        IN IF was = is THEN state.rises[logical]
           ELSE IF is THEN AcceptedRise(entry) ELSE NoRise]]

ApplyToState(state, entry) ==
    [held |-> entry.held_after,
     rises |-> [logical \in DOMAIN state.rises |->
        LET was == LogicalHeld(state.held, logical)
            is  == LogicalHeld(entry.held_after, logical)
        IN CASE ~was /\ is -> IF entry.eligible THEN AcceptedRise(entry)
                                                ELSE StaleRise
             [] was /\ ~is -> NoRise
             [] OTHER      -> state.rises[logical]]]

(* The entries are applied to a state one after the other.                 *)
Replay(state, entries) ==
    LET after[n \in 0 .. Len(entries)] ==
            IF n = 0 THEN state ELSE ApplyToState(after[n - 1], entries[n])
    IN  after[Len(entries)]

Earliest(indices) == CHOOSE i \in indices : \A j \in indices : i <= j

(* The entries before the first of the given positions.                    *)
UpTo(entries, stops) ==
    IF stops = {} THEN entries ELSE SubSeq(entries, 1, Earliest(stops) - 1)

(* The entries before the first one that fails the test.                   *)
Leading(entries, Test(_)) ==
    UpTo(entries, {i \in DOMAIN entries : ~Test(entries[i])})

-----------------------------------------------------------------------------
(* AppendEntry and ValidateTransport: each failed check is fatal.          *)
CanAppend(history, record, time) ==
    /\ record.transport_epoch = history.transport_epoch
    /\ record.sequence = history.next_sequence
    /\ record.held_before = history.current_held
    /\ \A last \in {history.last_coordinate[i] :
                      i \in DOMAIN history.last_coordinate} :
          \/ time > last.time
          \/ time = last.time /\ record.sequence > last.sequence

(* The ring of retained entries never overwrites one: a full one is fatal. *)
HasRoom(history) == Len(history.entries) < HistoryCapacity

AppendEntry(history, record, time, eligible) ==
    LET entry == [sequence |-> record.sequence, time |-> time,
                  held_before |-> record.held_before,
                  held_after |-> record.held_after, eligible |-> eligible]
    IN [history EXCEPT !.entries = Append(@, entry),
                       !.next_sequence = @ + 1,
                       !.current_held = record.held_after,
                       !.last_coordinate = <<Coordinate(entry)>>]

(* FirstResolvedAtOrAfter: the oldest entry still eligible as an event.    *)
FirstResolvedAtOrAfter(history, sequence) ==
    LET found == {i \in DOMAIN history.entries :
                    /\ history.entries[i].eligible
                    /\ history.entries[i].sequence >= sequence}
    IN IF found = {} THEN <<>> ELSE <<history.entries[Earliest(found)]>>

CountResolvedAtOrBefore(history, first_sequence, ready) ==
    Len(SelectSeq(Leading(history.entries, LAMBDA entry :
                            \/ entry.sequence < first_sequence
                            \/ entry.time <= ready),
                  LAMBDA entry : /\ entry.eligible
                                 /\ entry.sequence >= first_sequence))

ConvertResolvedToStateOnly(history, sequence) ==
    [history EXCEPT !.entries =
        [i \in DOMAIN @ |-> IF @[i].sequence = sequence
                            THEN [@[i] EXCEPT !.eligible = FALSE]
                            ELSE @[i]]]

(* A prefix that ends outside the retained entries is fatal.               *)
CanPrune(history, earliest_prefix_end) ==
    earliest_prefix_end \in history.base_next_sequence .. history.next_sequence

(* Mutant: only the committed time itself stays queryable.                 *)
IsBefore(entry, earliest_time) == entry.time < earliest_time

(* Mutant: the 4/60 s before a query no longer include their first tick.   *)
IsOldInclusive(entry, earliest_time) ==
    entry.time <= earliest_time - PairedLookback

(* No query at or after the given time looks this far back.                *)
IsOld(entry, earliest_time) == entry.time < earliest_time - PairedLookback

(* PruneBefore folds the entries that no later query can need by itself.   *)
PruneBefore(history, earliest_time, earliest_prefix_end) ==
    LET pruned == Leading(history.entries, LAMBDA entry :
                            /\ entry.sequence < earliest_prefix_end
                            /\ IsOld(entry, earliest_time))
        count  == Len(pruned)
    IN IF count = 0
       THEN history
       ELSE [history EXCEPT
               !.entries = SubSeq(@, count + 1, Len(@)),
               !.causal_base = Replay(@, pruned),
               !.causal_time_floor = <<pruned[count].time>>,
               !.base_next_sequence = pruned[count].sequence + 1]

-----------------------------------------------------------------------------
(* The queries.                                                            *)
StateAt(history, query_time, prefix_end) ==
    IF \/ prefix_end > history.next_sequence
       \/ prefix_end < history.base_next_sequence
       \/ \E i \in DOMAIN history.causal_time_floor :
             query_time < history.causal_time_floor[i]
    THEN <<>>
    ELSE <<Replay(history.causal_base,
                  Leading(history.entries, LAMBDA entry :
                            /\ entry.sequence < prefix_end
                            /\ entry.time <= query_time))>>

HeldAt(history, logical, query_time, prefix_end) ==
    LET state == StateAt(history, query_time, prefix_end)
    IN [i \in DOMAIN state |-> LogicalHeld(state[i].held, logical)]

OrdinaryHeldAt(history, query_time, prefix_end) ==
    LET state == StateAt(history, query_time, prefix_end)
    IN [i \in DOMAIN state |-> state[i].held]

HasPriorEdge(history, control, coordinate, rising) ==
    \E i \in DOMAIN history.entries :
       LET entry == history.entries[i]
       IN /\ entry.eligible
          /\ entry.sequence < coordinate.sequence
          /\ entry.time \in coordinate.time - PairedLookback .. coordinate.time
          /\ control \in EdgesOf(entry, rising)

(* An edge of a logical control given the ordinary controls with an edge   *)
(* now: "both" accepts the other control's edge from up to 4/60 s before.  *)
LogicalEdge(history, logical, coordinate, edges, rising) ==
    CASE logical.kind = "single" -> logical.control \in edges
      [] logical.kind = "either" ->
            logical.pair[1] \in edges \/ logical.pair[2] \in edges
      [] logical.kind = "both" ->
            \/ logical.pair[1] \in edges /\ logical.pair[2] \in edges
            \/ /\ logical.pair[1] \in edges
               /\ HasPriorEdge(history, logical.pair[2], coordinate, rising)
            \/ /\ logical.pair[2] \in edges
               /\ HasPriorEdge(history, logical.pair[1], coordinate, rising)

Pressed(history, logical, scope) ==
    /\ scope.kind = "event"
    /\ LogicalEdge(history, logical, scope.coordinate, scope.rising, TRUE)

Released(history, logical, scope) ==
    /\ scope.kind = "event"
    /\ LogicalEdge(history, logical, scope.coordinate, scope.falling, FALSE)

(* A release inside the quantum that ends at an earlier frame.             *)
ReleasedInWindow(history, logical, window_end, prefix_end) ==
    LET window_start == window_end - Quantum
    IN /\ CanPrune(history, prefix_end)
       /\ \A i \in DOMAIN history.causal_time_floor :
             window_start >= history.causal_time_floor[i]
       /\ \E i \in DOMAIN history.entries :
             LET entry == history.entries[i]
             IN /\ entry.eligible
                /\ entry.sequence < prefix_end
                /\ window_start < entry.time /\ entry.time <= window_end
                /\ LogicalEdge(history, logical, Coordinate(entry),
                               Falling(entry), FALSE)

(* 0 when not held, 1 at the rise itself, then 1 + whole quanta since the  *)
(* rise and at least 2; 5 when the rise was not accepted as an event.      *)
HeldAge(history, logical, scope) ==
    LET state == StateAt(history, scope.coordinate.time, scope.prefix_end)
        rise  == state[1].rises[logical]
    IN IF state = <<>> THEN <<>>
       ELSE IF ~LogicalHeld(state[1].held, logical) THEN <<0>>
       ELSE IF /\ scope.kind = "event"
               /\ ~LogicalHeld(scope.held_before, logical)
               /\ LogicalHeld(scope.held_after, logical) THEN <<1>>
       ELSE IF rise.kind # "accepted" THEN <<5>>
       ELSE IF \/ rise.sequence >= scope.prefix_end
               \/ rise.time > scope.coordinate.time THEN <<>>
       ELSE LET age == 1 + (scope.coordinate.time - rise.time) \div Quantum
            IN <<IF age < 2 THEN 2 ELSE age>>
=============================================================================
