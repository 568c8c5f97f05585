------------------------ MODULE HistoryReplay_proofs ------------------------
(***************************************************************************)
(* For every set of controls, pairs and frames asked back, every quantum   *)
(* and number of transitions: no query of a scope can tell that entries    *)
(* were pruned, and a held age counts from the newest accepted rise.       *)
(***************************************************************************)
EXTENDS HistoryReplay, WellFoundedInduction, TLAPS

USE ReplayAssumption DEF ReplayAssumption

-----------------------------------------------------------------------------
(* The past as the log tells it, position by position.                     *)
Entry == [sequence: Nat, time: Int, held_before: SUBSET Controls,
          held_after: SUBSET Controls, eligible: BOOLEAN]

HeldAfter(n) == IF n = 0 THEN baseline ELSE log[n].held_after

Rises(n, logical) ==
    {i \in 1 .. n : /\ ~LogicalHeld(log[i].held_before, logical)
                    /\ LogicalHeld(log[i].held_after, logical)}

NewestRise(rises) == log[Sets!Max(rises)]

RiseAt(n, logical) ==
    IF ~LogicalHeld(HeldAfter(n), logical) THEN NoRise
    ELSE IF Rises(n, logical) = {} THEN StaleRise
    ELSE IF NewestRise(Rises(n, logical)).eligible
         THEN AcceptedRise(NewestRise(Rises(n, logical))) ELSE StaleRise

(* The state after the first n entries.                                    *)
LogState(n) ==
    [held |-> HeldAfter(n),
     rises |-> [logical \in Logical(Controls) |-> RiseAt(n, logical)]]

(* The entries are numbered, in time order, and chained by what is held.   *)
LogInv ==
    /\ log \in Seq(Entry) /\ Len(log) <= MaxEntries
    /\ baseline \in SUBSET Controls
    /\ \A i \in 1 .. Len(log) :
          log[i].sequence = i - 1 /\ log[i].held_before = HeldAfter(i - 1)
    /\ \A i, j \in 1 .. Len(log) : i <= j => log[i].time <= log[j].time

HistoryFields ==
    {"entries", "transport_epoch", "next_sequence", "base_next_sequence",
     "current_held", "causal_base", "causal_time_floor", "last_coordinate"}

(* What is retained is the end of the log; what went before is summed up   *)
(* by the state it leads to.                                               *)
Base == history.base_next_sequence

HistoryInv ==
    /\ DOMAIN history = HistoryFields
    /\ Base \in 0 .. Len(log)
    /\ history.next_sequence = Len(log)
    /\ history.current_held = HeldAfter(Len(log))
    /\ history.entries \in Seq(Entry)
    /\ Len(history.entries) = Len(log) - Base
    /\ \A i \in 1 .. Len(history.entries) : history.entries[i] = log[Base + i]
    /\ history.causal_base = LogState(Base)
    /\ history.causal_time_floor = IF Base = 0 THEN <<>> ELSE <<log[Base].time>>
    /\ history.last_coordinate =
          IF Len(log) = 0 THEN <<>> ELSE <<Coordinate(log[Len(log)])>>

(* What is summed up lies further back than any query of a scope at or     *)
(* after the frontier; pending events do not lie before the frontier.      *)
FrontierInv ==
    /\ next_delivery_sequence \in Nat /\ boundary_index \in Int
    /\ committed_frontier \in Seq([time: Int, sequence: Nat])
    /\ Len(committed_frontier) <= 1
    /\ committed_frontier = <<>> => Base = 0
    /\ committed_frontier # <<>> =>
          LET frontier == committed_frontier[1].time
          IN /\ frontier <= NextBoundary
             /\ Base > 0 => log[Base].time < frontier - PairedLookback
             /\ \A i \in Base + 1 .. Len(log) :
                   log[i].eligible /\ log[i].sequence >= next_delivery_sequence
                      => log[i].time >= frontier

(* A scope is out with the history it was made from.                       *)
ScopeInv ==
    scope # <<>> =>
       \/ /\ Pending # <<>> /\ Pending[1].time <= NextBoundary
          /\ scope = <<EventScope(Pending[1], NextBoundary)>>
       \/ /\ \A i \in DOMAIN Pending : Pending[i].time > NextBoundary
          /\ scope = <<HeartbeatScope(NextBoundary)>>

ReplayInv == LogInv /\ HistoryInv /\ FrontierInv /\ ScopeInv

-----------------------------------------------------------------------------
(* Naturals: a set of them that is not empty has a least element, and a    *)
(* bounded one a greatest; induction over an initial segment.              *)
LEMMA LeastExists ==
    ASSUME NEW S, S \subseteq Nat, S # {}
    PROVE  \E x \in S : \A y \in S : x <= y
  <1>1. IsWellFoundedOn(OpToRel(<, Nat), Nat)
    BY NatLessThanWellFounded
  <1>2. PICK x \in S : \A y \in S : ~(<<y, x>> \in OpToRel(<, Nat))
    BY <1>1, WFMin, Zenon
  <1>3. \A y \in S : ~(y < x)
    BY <1>2 DEF OpToRel
  <1>4. QED  BY <1>3

LEMMA LeastIs ==
    ASSUME NEW S, S \subseteq Nat, NEW x \in S, \A y \in S : x <= y
    PROVE  Earliest(S) = x
  <1>1. ASSUME NEW z \in S, \A y \in S : z <= y PROVE z = x
    <2>1. z \in Nat /\ x \in Nat /\ z <= x /\ x <= z
      BY <1>1
    <2>2. QED  BY ONLY <2>1
  <1>2. \E z \in S : \A y \in S : z <= y
    OBVIOUS
  <1>3. QED  BY <1>1, <1>2, Zenon DEF Earliest

LEMMA EarliestIsLeast ==
    ASSUME NEW S, S \subseteq Nat, S # {}
    PROVE  Earliest(S) \in S /\ \A y \in S : Earliest(S) <= y
  BY LeastExists DEF Earliest

LEMMA MaxIs ==
    ASSUME NEW S, S \subseteq Nat, NEW x \in S, \A y \in S : y <= x
    PROVE  Sets!Max(S) = x
  <1>1. ASSUME NEW z \in S, \A y \in S : z >= y PROVE z = x
    <2>1. z \in Nat /\ x \in Nat /\ z >= x /\ z <= x
      BY <1>1
    <2>2. QED  BY ONLY <2>1
  <1>2. \A y \in S : x >= y
    <2>1. ASSUME NEW y \in S PROVE x >= y
      <3>1. x \in Nat /\ y \in Nat /\ y <= x
        OBVIOUS
      <3>2. QED  BY ONLY <3>1
    <2>2. QED  BY <2>1
  <1>3. QED  BY <1>1, <1>2, Zenon DEF Sets!Max

LEMMA MaxIsGreatest ==
    ASSUME NEW n \in Nat, NEW S, S \subseteq 1 .. n, S # {}
    PROVE  Sets!Max(S) \in S /\ \A y \in S : y <= Sets!Max(S)
  <1> DEFINE T == {n - y : y \in S}
  <1>1. T \subseteq Nat /\ T # {}
    <2>1. \A y \in S : y \in 1 .. n /\ n - y \in Nat
      OBVIOUS
    <2>2. QED  BY <2>1
  <1>2. PICK t \in T : \A u \in T : t <= u
    BY <1>1, LeastExists
  <1>3. PICK x \in S : t = n - x
    OBVIOUS
  <1>4. ASSUME NEW y \in S PROVE y <= x
    <2>1. n - x <= n - y
      BY <1>2, <1>3
    <2>2. x \in 1 .. n /\ y \in 1 .. n
      OBVIOUS
    <2>3. QED  BY ONLY <2>1, <2>2, n \in Nat
  <1>5. S \subseteq Nat
    OBVIOUS
  <1>6. Sets!Max(S) = x
    BY <1>4, <1>5, MaxIs
  <1>7. QED  BY <1>4, <1>6

LEMMA Segment ==
    ASSUME NEW N \in Nat, NEW P, 0 \in P,
           \A n \in 0 .. N - 1 : n \in P => n + 1 \in P
    PROVE  \A n \in 0 .. N : n \in P
  <1> DEFINE bad == {n \in 0 .. N : n \notin P}
  <1>1. SUFFICES ASSUME bad # {} PROVE FALSE
    OBVIOUS
  <1>2. bad \subseteq Nat
    OBVIOUS
  <1>3. PICK x \in bad : \A y \in bad : x <= y
    BY <1>1, <1>2, LeastExists
  <1>4. x \in 0 .. N /\ x \notin P /\ x # 0
    OBVIOUS
  <1>5. x - 1 \in 0 .. N - 1 /\ ~(x <= x - 1) /\ (x - 1) + 1 = x /\ x - 1 \in 0 .. N
    BY <1>4
  <1>6. x - 1 \in P
    BY <1>3, <1>5
  <1>7. QED  BY <1>4, <1>5, <1>6

-----------------------------------------------------------------------------
(* Replaying the log: one entry, and any number of them.                   *)
LEMMA ReplayOne ==
    ASSUME LogInv, NEW n \in 0 .. Len(log) - 1
    PROVE  ApplyToState(LogState(n), log[n + 1]) = LogState(n + 1)
  <1> DEFINE e == log[n + 1]
  <1>1. /\ n \in Nat /\ n + 1 # 0 /\ n + 1 \in 1 .. Len(log) /\ (n + 1) - 1 = n
        /\ e.held_before = HeldAfter(n) /\ HeldAfter(n + 1) = e.held_after
    BY DEF LogInv, HeldAfter
  <1>2. ASSUME NEW logical
        PROVE  RiseAt(n + 1, logical) =
                 LET was == LogicalHeld(HeldAfter(n), logical)
                     is  == LogicalHeld(e.held_after, logical)
                 IN CASE ~was /\ is -> IF e.eligible THEN AcceptedRise(e)
                                                     ELSE StaleRise
                      [] was /\ ~is -> NoRise
                      [] OTHER      -> RiseAt(n, logical)
    <2> DEFINE was == LogicalHeld(HeldAfter(n), logical)
               is  == LogicalHeld(e.held_after, logical)
    <2>1. Rises(n + 1, logical) = IF ~was /\ is THEN Rises(n, logical) \cup {n + 1}
                                                ELSE Rises(n, logical)
      BY <1>1 DEF Rises
    <2>2. CASE ~is
      <3>1. RiseAt(n + 1, logical) = NoRise
        BY <1>1, <2>2 DEF RiseAt
      <3>2. ~was => RiseAt(n, logical) = NoRise
        BY DEF RiseAt
      <3>3. QED  BY <2>2, <3>1, <3>2
    <2>3. CASE is /\ was
      BY <1>1, <2>1, <2>3 DEF RiseAt
    <2>4. CASE is /\ ~was
      <3> DEFINE S == Rises(n + 1, logical)
      <3>1. n + 1 \in S /\ S \subseteq Nat /\ \A y \in S : y <= n + 1
        BY <1>1, <2>1, <2>4 DEF Rises
      <3>2. Sets!Max(S) = n + 1
        BY <3>1, MaxIs
      <3>3. NewestRise(S) = e /\ S # {}
        BY <3>1, <3>2 DEF NewestRise
      <3>4. RiseAt(n + 1, logical) = IF e.eligible THEN AcceptedRise(e) ELSE StaleRise
        BY <1>1, <2>4, <3>3 DEF RiseAt
      <3>5. QED  BY <2>4, <3>4
    <2>5. QED  BY <2>2, <2>3, <2>4
  <1>3. /\ LogState(n).held = HeldAfter(n)
        /\ DOMAIN LogState(n).rises = Logical(Controls)
        /\ \A logical \in Logical(Controls) :
              LogState(n).rises[logical] = RiseAt(n, logical)
    BY DEF LogState
  <1> HIDE DEF e
  <1>4. ApplyToState(LogState(n), e) =
           [held |-> e.held_after,
            rises |-> [logical \in Logical(Controls) |-> RiseAt(n + 1, logical)]]
    BY <1>2, <1>3 DEF ApplyToState
  <1>5. QED  BY <1>1, <1>4 DEF LogState, e

LEMMA ReplayLog ==
    ASSUME LogInv, NEW b \in Nat, NEW k \in Nat, b + k <= Len(log),
           NEW q, Len(q) = k, \A i \in 1 .. k : q[i] = log[b + i]
    PROVE  Replay(LogState(b), q) = LogState(b + k)
  <1> DEFINE Body(f, n) == IF n = 0 THEN LogState(b) ELSE ApplyToState(f[n - 1], q[n])
             after == CHOOSE f : f = [n \in 0 .. Len(q) |-> Body(f, n)]
             known == [n \in 0 .. k |-> LogState(b + n)]
  <1> HIDE DEF Body, after, known
  <1>1. Replay(LogState(b), q) = after[k]
    BY Zenon DEF Replay, after, Body
  <1>2. ASSUME NEW n \in 1 .. k
        PROVE  /\ n - 1 \in 0 .. k /\ n # 0
               /\ ApplyToState(LogState(b + (n - 1)), q[n]) = LogState(b + n)
    <2>1. /\ n - 1 \in 0 .. k /\ n # 0 /\ b + (n - 1) \in 0 .. Len(log) - 1
          /\ (b + (n - 1)) + 1 = b + n /\ q[n] = log[b + n]
      BY DEF LogInv
    <2>2. ApplyToState(LogState(b + (n - 1)), log[(b + (n - 1)) + 1])
             = LogState((b + (n - 1)) + 1)
      BY <2>1, ReplayOne
    <2>3. QED  BY <2>1, <2>2
  <1>3. known = [n \in 0 .. Len(q) |-> Body(known, n)]
    <2>1. ASSUME NEW n \in 0 .. k
          PROVE  known[n] = Body(known, n)
      <3>1. CASE n = 0
        BY <3>1 DEF known, Body
      <3>2. CASE n # 0
        <4>1. n \in 1 .. k /\ n - 1 \in 0 .. k
          BY <3>2
        <4>2. known[n] = LogState(b + n) /\ known[n - 1] = LogState(b + (n - 1))
          BY <4>1 DEF known
        <4>3. QED  BY <1>2, <3>2, <4>1, <4>2 DEF Body
      <3>3. QED  BY <3>1, <3>2
    <2>2. known = [n \in 0 .. k |-> known[n]]
      BY DEF known
    <2>3. QED  BY <2>1, <2>2
  <1>4. after = [n \in 0 .. k |-> Body(after, n)]
    <2>1. after = [n \in 0 .. Len(q) |-> Body(after, n)]
      BY <1>3, Zenon DEF after
    <2>2. QED  BY <2>1
  <1> DEFINE P == {n \in 0 .. k : after[n] = LogState(b + n)}
  <1>5. 0 \in P
    BY <1>4 DEF Body
  <1>6. ASSUME NEW n \in 0 .. k - 1, n \in P
        PROVE  n + 1 \in P
    <2>1. n + 1 \in 1 .. k /\ n + 1 \in 0 .. k /\ (n + 1) - 1 = n /\ n + 1 # 0
      OBVIOUS
    <2>2. after[n + 1] = ApplyToState(after[n], q[n + 1])
      BY <1>4, <2>1 DEF Body
    <2>3. after[n] = LogState(b + n)
      BY <1>6
    <2>4. QED  BY <1>2, <2>1, <2>2, <2>3
  <1> HIDE DEF P
  <1>7. \A n \in 0 .. k : n \in P
    BY <1>5, <1>6, Segment
  <1>8. k \in P
    BY <1>7
  <1>9. QED  BY <1>1, <1>8 DEF P

-----------------------------------------------------------------------------
(* What is retained, as part of the log.                                   *)
LEMMA LogFacts ==
    ASSUME LogInv
    PROVE  /\ Len(log) \in Nat /\ DOMAIN log = 1 .. Len(log)
           /\ \A i \in 1 .. Len(log) :
                 /\ log[i] \in Entry /\ log[i].sequence = i - 1
                 /\ log[i].sequence \in Nat /\ log[i].time \in Int
                 /\ log[i].held_before = HeldAfter(i - 1)
                 /\ log[i].held_after = HeldAfter(i)
  <1>1. /\ Len(log) \in Nat /\ DOMAIN log = 1 .. Len(log)
        /\ \A i \in 1 .. Len(log) : log[i] \in Entry
    BY DEF LogInv
  <1>2. \A i \in 1 .. Len(log) : log[i].time \in Int /\ log[i].sequence \in Nat
    BY <1>1 DEF Entry
  <1>3. \A i \in 1 .. Len(log) : log[i].held_after = HeldAfter(i)
    BY DEF HeldAfter
  <1>4. QED  BY <1>1, <1>2, <1>3 DEF LogInv

LEMMA RetainedFacts ==
    ASSUME LogInv, HistoryInv
    PROVE  /\ Base \in Nat /\ Base <= Len(log) /\ Len(log) \in Nat
           /\ Len(history.entries) = Len(log) - Base
           /\ DOMAIN history.entries = 1 .. Len(log) - Base
           /\ \A i \in 1 .. Len(log) - Base :
                 /\ Base + i \in 1 .. Len(log)
                 /\ history.entries[i] = log[Base + i]
                 /\ history.entries[i].sequence = Base + i - 1
                 /\ history.entries[i].time \in Int
  <1>1. /\ Base \in 0 .. Len(log) /\ Len(log) \in Nat
        /\ history.entries \in Seq(Entry)
        /\ Len(history.entries) = Len(log) - Base
        /\ \A i \in 1 .. Len(history.entries) : history.entries[i] = log[Base + i]
    BY LogFacts, Zenon DEF HistoryInv
  <1>2. Base \in Nat /\ Base <= Len(log) /\ Len(log) - Base \in Nat
    BY <1>1
  <1>3. DOMAIN history.entries = 1 .. Len(log) - Base
    BY <1>1
  <1>4. ASSUME NEW i \in 1 .. Len(log) - Base
        PROVE  /\ Base + i \in 1 .. Len(log) /\ (Base + i) - 1 = Base + i - 1
               /\ i \in 1 .. Len(history.entries)
    BY <1>1, <1>2
  <1>5. ASSUME NEW i \in 1 .. Len(log) - Base
        PROVE  /\ history.entries[i] = log[Base + i]
               /\ history.entries[i].sequence = Base + i - 1
               /\ history.entries[i].time \in Int
    <2>1. history.entries[i] = log[Base + i]
      BY <1>1, <1>4, Zenon
    <2>2. log[Base + i].sequence = (Base + i) - 1 /\ log[Base + i].time \in Int
      BY <1>4, LogFacts, Zenon
    <2>3. QED  BY <1>4, <2>1, <2>2, Zenon
  <1>6. QED  BY <1>1, <1>2, <1>3, <1>4, <1>5

(* The entries before the first of some positions that go on to the end.   *)
LEMMA UpToFacts ==
    ASSUME LogInv, HistoryInv,
           NEW stops, stops \subseteq 1 .. Len(log) - Base,
           \A i, j \in 1 .. Len(log) - Base : i \in stops /\ i <= j => j \in stops
    PROVE  \E k \in 0 .. Len(log) - Base :
              /\ \A i \in 1 .. Len(log) - Base : i \in stops <=> i > k
              /\ Len(UpTo(history.entries, stops)) = k
              /\ \A i \in 1 .. k : UpTo(history.entries, stops)[i] = log[Base + i]
  <1> DEFINE m == Len(log) - Base
             q == history.entries
  <1>1. /\ m \in Nat /\ q \in Seq(Entry) /\ Len(q) = m
        /\ \A i \in 1 .. m : q[i] = log[Base + i]
    BY RetainedFacts DEF HistoryInv
  <1>2. CASE stops = {}
    <2>1. UpTo(q, stops) = q
      BY <1>2 DEF UpTo
    <2>2. \A i \in 1 .. m : ~(i > m)
      BY <1>1
    <2>3. m \in 0 .. m
      BY <1>1
    <2>4. QED  BY <1>1, <1>2, <2>1, <2>2, <2>3
  <1>3. CASE stops # {}
    <2> DEFINE x == Earliest(stops)
    <2>1. stops \subseteq Nat /\ x \in stops /\ \A y \in stops : x <= y
      <3>1. stops \subseteq Nat
        BY <1>1
      <3>2. QED  BY <1>3, <3>1, EarliestIsLeast
    <2>2. UpTo(q, stops) = SubSeq(q, 1, x - 1)
      BY <1>3 DEF UpTo
    <2> HIDE DEF x, m, q
    <2>3. x \in 1 .. m /\ x - 1 \in 0 .. m /\ x - 1 <= m
      BY <1>1, <2>1 DEF m
    <2>4. /\ Len(SubSeq(q, 1, x - 1)) = x - 1
          /\ \A i \in 1 .. x - 1 : SubSeq(q, 1, x - 1)[i] = q[i] /\ i \in 1 .. m
      BY <1>1, <2>3
    <2>5. \A i \in 1 .. m : i \in stops <=> i > x - 1
      <3>1. \A i \in 1 .. m : i \in stops <=> x <= i
        BY <2>1, <2>3 DEF m
      <3>2. QED  BY <2>3, <3>1
    <2>6. QED  BY <1>1, <2>2, <2>3, <2>4, <2>5 DEF m, q
  <1>4. QED  BY <1>2, <1>3

(* A query that reaches what is retained gets the state of the log.        *)
Reaches(query_time, prefix_end) ==
    /\ query_time \in Int /\ prefix_end \in Nat
    /\ Base <= prefix_end /\ prefix_end <= Len(log)
    /\ Base > 0 => log[Base].time <= query_time

LEMMA StateAtLog ==
    ASSUME LogInv, HistoryInv, NEW t, NEW P, Reaches(t, P)
    PROVE  \E n \in Nat : /\ n <= P
                          /\ Before(t, P) = 1 .. n
                          /\ StateAt(history, t, P) = <<LogState(n)>>
  <1> DEFINE m == Len(log) - Base
             stops == {i \in DOMAIN history.entries :
                         ~(/\ history.entries[i].sequence < P
                           /\ history.entries[i].time <= t)}
             before == UpTo(history.entries, stops)
  <1>1. /\ Base \in Nat /\ m \in Nat /\ DOMAIN history.entries = 1 .. m
        /\ \A i \in 1 .. m : /\ Base + i \in 1 .. Len(log)
                             /\ history.entries[i] = log[Base + i]
                             /\ history.entries[i].sequence = Base + i - 1
                             /\ history.entries[i].time \in Int
        /\ t \in Int /\ P \in Nat /\ Base <= P /\ P <= Len(log) /\ Len(log) \in Nat
    <2>1. Base \in Nat /\ Base <= Len(log) /\ Len(log) \in Nat
      BY RetainedFacts
    <2>2. m \in Nat
      BY <2>1
    <2>3. QED  BY <2>1, <2>2, RetainedFacts, Zenon DEF Reaches
  <1>2. /\ stops \subseteq 1 .. m
        /\ \A i \in 1 .. m :
              i \in stops <=> ~(Base + i - 1 < P /\ history.entries[i].time <= t)
    BY <1>1
  <1> HIDE DEF stops, m
  <1>3. ASSUME NEW i \in 1 .. m, NEW j \in 1 .. m, i \in stops, i <= j
        PROVE  j \in stops
    <2>1. history.entries[i].time <= history.entries[j].time
      <3>1. Base + i <= Base + j
        BY <1>1, <1>3
      <3>2. log[Base + i].time <= log[Base + j].time
        BY <1>1, <3>1 DEF LogInv
      <3>3. QED  BY <1>1, <3>2
    <2>2. CASE ~(Base + i - 1 < P)
      <3>1. ~(Base + j - 1 < P)
        BY <1>1, <1>3, <2>2
      <3>2. QED  BY <1>2, <3>1
    <2>3. CASE ~(history.entries[i].time <= t)
      <3> DEFINE a == history.entries[i].time
                 b == history.entries[j].time
      <3>1. a \in Int /\ b \in Int /\ a <= b /\ ~(a <= t)
        BY <1>1, <2>1, <2>3
      <3> HIDE DEF a, b
      <3>2. ~(b <= t)
        BY ONLY <1>1, <3>1
      <3>3. QED  BY <1>2, <3>2 DEF b
    <2>4. QED  BY <1>2, <1>3, <2>2, <2>3
  <1>4. PICK k \in 0 .. m :
              /\ \A i \in 1 .. m : i \in stops <=> i > k
              /\ Len(before) = k
              /\ \A i \in 1 .. k : before[i] = log[Base + i]
    BY <1>2, <1>3, UpToFacts DEF m
  <1> DEFINE n == Base + k
  <1>5. k \in Nat /\ n \in Nat /\ n <= Len(log)
    BY <1>1, <1>4 DEF m
  <1>6. n <= P
    <2>1. CASE k = 0
      BY <1>1, <2>1
    <2>2. CASE k # 0
      <3>1. k \in 1 .. m /\ ~(k > k)
        BY <1>4, <2>2
      <3>2. k \notin stops
        BY <1>4, <3>1
      <3>3. Base + k - 1 < P
        BY <1>2, <3>1, <3>2
      <3>4. QED  BY <1>1, <1>5, <3>3
    <2>3. QED  BY <2>1, <2>2
  <1>7. ASSUME NEW i \in 1 .. Len(log)
        PROVE  (log[i].sequence < P /\ log[i].time <= t) <=> i <= n
    <2>1. log[i].sequence = i - 1 /\ log[i].time \in Int
      BY LogFacts
    <2>2. CASE i <= Base
      <3>1. i <= n /\ i - 1 < P /\ Base > 0 /\ Base \in 1 .. Len(log)
        BY <1>1, <1>5, <2>2
      <3>2. log[i].time <= log[Base].time /\ log[Base].time \in Int
            /\ log[Base].time <= t
        BY <2>2, <3>1, LogFacts DEF LogInv, Reaches
      <3>3. log[i].time <= t
        BY <1>1, <2>1, <3>2
      <3>4. QED  BY <2>1, <3>1, <3>3
    <2>3. CASE ~(i <= Base)
      <3> DEFINE j == i - Base
      <3>1. j \in 1 .. m /\ Base + j = i
        BY <1>1, <2>3 DEF m
      <3> HIDE DEF j
      <3>2. j \in stops <=> ~(i - 1 < P /\ log[i].time <= t)
        <4>1. history.entries[j] = log[i] /\ Base + j - 1 = i - 1
          BY <1>1, <3>1
        <4>2. QED  BY <1>2, <3>1, <4>1, Zenon
      <3>3. j \in stops <=> j > k
        BY <1>4, <3>1
      <3>4. j > k <=> ~(i <= n)
        <4>1. Base + j = i /\ j \in Nat /\ k \in Nat /\ Base \in Nat
          BY <1>1, <1>5, <3>1
        <4>2. QED  BY ONLY <4>1 DEF n
      <3>5. QED  BY <2>1, <3>2, <3>3, <3>4
    <2>4. QED  BY <2>2, <2>3
  <1>8. Before(t, P) = 1 .. n
    <2>1. DOMAIN log = 1 .. Len(log)
      BY LogFacts
    <2>2. \A i \in 1 .. n : i \in 1 .. Len(log) /\ i <= n
      BY <1>1, <1>5
    <2>3. \A i \in 1 .. Len(log) : i <= n => i \in 1 .. n
      BY <1>1, <1>5
    <2> HIDE DEF n
    <2>4. QED  BY <1>7, <2>1, <2>2, <2>3 DEF Before
  <1>9. Replay(history.causal_base, before) = LogState(n)
    <2>1. history.causal_base = LogState(Base)
      BY DEF HistoryInv
    <2>2. Base \in Nat /\ k \in Nat /\ Base + k <= Len(log) /\ Len(before) = k
      BY <1>1, <1>4, <1>5
    <2>3. \A i \in 1 .. k : before[i] = log[Base + i]
      BY <1>4
    <2> HIDE DEF before
    <2>4. Replay(LogState(Base), before) = LogState(Base + k)
      BY <2>2, <2>3, ReplayLog, Zenon
    <2>5. QED  BY <2>1, <2>4, Zenon
  <1>10. ~\/ P > history.next_sequence
          \/ P < history.base_next_sequence
          \/ \E i \in DOMAIN history.causal_time_floor :
                t < history.causal_time_floor[i]
    <2>1. history.next_sequence = Len(log)
      BY DEF HistoryInv
    <2>2. ~(P > Len(log)) /\ ~(P < Base)
      BY <1>1
    <2>3. CASE Base = 0
      BY <2>1, <2>2, <2>3 DEF HistoryInv, Base
    <2>4. CASE Base # 0
      <3>1. history.causal_time_floor = <<log[Base].time>>
        BY <2>4 DEF HistoryInv
      <3>2. log[Base].time <= t /\ log[Base].time \in Int
        BY <1>1, <2>4, LogFacts DEF Reaches
      <3>3. ~(t < log[Base].time)
        BY <1>1, <3>2
      <3>4. QED  BY <2>1, <2>2, <3>1, <3>3 DEF Base
    <2>5. QED  BY <2>3, <2>4
  <1>11. StateAt(history, t, P) = <<Replay(history.causal_base, before)>>
    BY <1>10, Zenon DEF StateAt, Leading, stops
  <1>12. QED  BY <1>5, <1>6, <1>8, <1>9, <1>11

-----------------------------------------------------------------------------
(* The oldest pending event, and what it shows of a scope.                 *)
PendingFrom(i, sequence) == log[i].eligible /\ log[i].sequence >= sequence

FirstIs(k, sequence) ==
    /\ k \in Nat /\ Base < k /\ k <= Len(log)
    /\ PendingFrom(k, sequence)
    /\ \A i \in Base + 1 .. Len(log) : PendingFrom(i, sequence) => k <= i

LEMMA FirstFacts ==
    ASSUME LogInv, HistoryInv, NEW s \in Nat
    PROVE  LET first == FirstResolvedAtOrAfter(history, s)
           IN \/ /\ first = <<>>
                 /\ \A i \in Base + 1 .. Len(log) : ~PendingFrom(i, s)
              \/ \E k \in Nat : first = <<log[k]>> /\ FirstIs(k, s)
  <1> DEFINE m == Len(log) - Base
             found == {i \in DOMAIN history.entries :
                         /\ history.entries[i].eligible
                         /\ history.entries[i].sequence >= s}
             first == FirstResolvedAtOrAfter(history, s)
  <1>1. first = IF found = {} THEN <<>> ELSE <<history.entries[Earliest(found)]>>
    BY DEF FirstResolvedAtOrAfter
  <1>2. /\ Base \in Nat /\ Len(log) \in Nat /\ Base <= Len(log) /\ m \in Nat
        /\ DOMAIN history.entries = 1 .. m
    <2>1. Base \in Nat /\ Base <= Len(log) /\ Len(log) \in Nat
      BY RetainedFacts
    <2>2. m \in Nat
      BY <2>1
    <2>3. QED  BY <2>1, <2>2, RetainedFacts, Zenon
  <1>3. ASSUME NEW i \in 1 .. m
        PROVE  /\ Base + i \in 1 .. Len(log) /\ history.entries[i] = log[Base + i]
               /\ i \in found <=> PendingFrom(Base + i, s)
    BY <1>2, RetainedFacts DEF m, PendingFrom
  <1>4. found \subseteq 1 .. m
    BY <1>2
  <1> HIDE DEF m, found, first
  <1>5. ASSUME NEW i \in Base + 1 .. Len(log)
        PROVE  /\ i - Base \in 1 .. m /\ Base + (i - Base) = i
               /\ PendingFrom(i, s) <=> i - Base \in found
    <2>1. i - Base \in 1 .. m /\ Base + (i - Base) = i
      BY <1>2 DEF m
    <2>2. QED  BY <1>3, <2>1
  <1>6. CASE found = {}
    BY <1>1, <1>5, <1>6 DEF first
  <1>7. CASE found # {}
    <2> DEFINE x == Earliest(found)
               k == Base + x
    <2>1. x \in found /\ \A y \in found : x <= y
      <3>1. found \subseteq Nat
        BY <1>4
      <3>2. QED  BY <1>7, <3>1, EarliestIsLeast
    <2> HIDE DEF x
    <2>2. x \in 1 .. m /\ k \in Nat /\ Base < k /\ k <= Len(log)
      BY <1>2, <1>4, <2>1 DEF m
    <2>3. first = <<log[k]>> /\ PendingFrom(k, s)
      BY <1>1, <1>3, <1>7, <2>1, <2>2 DEF x
    <2>4. ASSUME NEW i \in Base + 1 .. Len(log), PendingFrom(i, s)
          PROVE  k <= i
      <3>1. x <= i - Base
        BY <1>5, <2>1, <2>4
      <3>2. QED  BY <1>2, <2>2, <3>1
    <2> HIDE DEF k
    <2>5. FirstIs(k, s)
      BY <2>2, <2>3, <2>4 DEF FirstIs
    <2>6. QED  BY <2>2, <2>3, <2>5 DEF first
  <1>8. QED  BY <1>6, <1>7

(* What a scope that is out knows.                                         *)
IsEvent(s, k) ==
    /\ k \in Nat /\ Base < k /\ k <= Len(log) /\ log[k].eligible
    /\ s.kind = "event" /\ s.coordinate = Coordinate(log[k])
    /\ s.held_before = HeldAfter(k - 1) /\ s.held_after = HeldAfter(k)
    /\ s.rising = Rising(log[k]) /\ s.falling = Falling(log[k])
    /\ s.prefix_end = k

IsHeartbeat(s) ==
    /\ s.kind = "heartbeat" /\ s.coordinate.sequence = NoSequence
    /\ s.rising = {} /\ s.falling = {} /\ s.held_before = s.held_after
    /\ OrdinaryHeldAt(history, s.coordinate.time, s.prefix_end) = <<s.held_after>>

(* It lies at or after the frontier, so that nothing it asks for is gone.  *)
InReach(s) ==
    /\ s.coordinate.time \in Int
    /\ s.prefix_end \in Nat /\ Base <= s.prefix_end /\ s.prefix_end <= Len(log)
    /\ Base > 0 => log[Base].time < s.coordinate.time - PairedLookback

LEMMA LookbackIs ==
    /\ Quantum \in Nat /\ Quantum > 0 /\ PairedLookback = 4 * Quantum
    /\ PairedLookback \in Nat
  BY DEF PairedLookback

LEMMA FirstOfSeq ==
    ASSUME NEW S, NEW c \in Seq(S), c # <<>>
    PROVE  c[1] \in S
  <1>1. Len(c) \in Nat /\ Len(c) # 0
    OBVIOUS
  <1>2. 1 \in 1 .. Len(c)
    BY ONLY <1>1
  <1>3. QED  BY <1>2

LEMMA SeqOfFunction ==
    ASSUME NEW S, NEW n \in Nat, NEW f \in [1 .. n -> S]
    PROVE  f \in Seq(S) /\ Len(f) = n
  OBVIOUS

LEMMA SegmentsEqual ==
    ASSUME NEW n \in Nat, NEW k \in Nat, 1 .. n = 1 .. k
    PROVE  n = k
  <1>1. n # 0 => n \in 1 .. k
    <2>1. n # 0 => n \in 1 .. n
      BY ONLY n \in Nat
    <2>2. QED  BY <2>1
  <1>2. k # 0 => k \in 1 .. n
    <2>1. k # 0 => k \in 1 .. k
      BY ONLY k \in Nat
    <2>2. QED  BY <2>1
  <1>3. QED  BY <1>1, <1>2

LEMMA BoundaryType ==
    ASSUME FrontierInv PROVE NextBoundary \in Int
  BY DEF FrontierInv, NextBoundary

LEMMA BehindLookback ==
    ASSUME LogInv, HistoryInv, FrontierInv, NEW T \in Int,
           committed_frontier # <<>> => committed_frontier[1].time <= T
    PROVE  Base > 0 => log[Base].time < T - PairedLookback
  <1> SUFFICES ASSUME Base > 0 PROVE log[Base].time < T - PairedLookback
    OBVIOUS
  <1> DEFINE b == log[Base].time
             f == committed_frontier[1].time
  <1>1. b < f - PairedLookback /\ f <= T /\ f \in Int
    <2>1. committed_frontier # <<>>
      BY DEF FrontierInv
    <2>2. b < f - PairedLookback /\ f <= T
      BY <2>1 DEF FrontierInv
    <2>3. f \in Int
      <3>1. committed_frontier \in Seq([time: Int, sequence: Nat])
        BY DEF FrontierInv
      <3>2. committed_frontier[1] \in [time: Int, sequence: Nat]
        BY <2>1, <3>1, FirstOfSeq
      <3>3. QED  BY <3>2
    <2>4. QED  BY <2>2, <2>3
  <1>2. b \in Int
    <2>1. Base \in 1 .. Len(log)
      BY RetainedFacts
    <2>2. QED  BY <2>1, LogFacts
  <1> HIDE DEF b, f
  <1>3. b < T - PairedLookback
    BY ONLY <1>1, <1>2, LookbackIs, T \in Int
  <1>4. QED  BY <1>3 DEF b

LEMMA EventScopeFacts ==
    ASSUME LogInv, HistoryInv, FrontierInv, NEW k, FirstIs(k, next_delivery_sequence),
           NEW boundary
    PROVE  /\ IsEvent(EventScope(log[k], boundary), k)
           /\ InReach(EventScope(log[k], boundary))
           /\ committed_frontier # <<>> => committed_frontier[1].time <= log[k].time
  <1> DEFINE s == EventScope(log[k], boundary)
  <1>1. /\ k \in 1 .. Len(log) /\ k \in Base + 1 .. Len(log) /\ k - 1 \in Nat
        /\ (k - 1) + 1 = k /\ k \in Nat /\ Base < k /\ k <= Len(log)
        /\ log[k].eligible /\ log[k].sequence >= next_delivery_sequence
    BY RetainedFacts DEF FirstIs, PendingFrom
  <1>2. /\ log[k].sequence = k - 1 /\ log[k].time \in Int
        /\ log[k].held_before = HeldAfter(k - 1) /\ log[k].held_after = HeldAfter(k)
    BY <1>1, LogFacts
  <1>3. /\ s.kind = "event" /\ s.coordinate = Coordinate(log[k])
        /\ s.held_before = log[k].held_before /\ s.held_after = log[k].held_after
        /\ s.rising = Rising(log[k]) /\ s.falling = Falling(log[k])
        /\ s.prefix_end = log[k].sequence + 1
    BY DEF EventScope
  <1>4. s.coordinate.time = log[k].time
    BY <1>3 DEF Coordinate
  <1>5. committed_frontier # <<>> => committed_frontier[1].time <= log[k].time
    BY <1>1 DEF FrontierInv
  <1> HIDE DEF s
  <1>6. s.prefix_end = k
    BY <1>1, <1>2, <1>3
  <1>7. IsEvent(s, k)
    BY <1>1, <1>2, <1>3, <1>6, Zenon DEF IsEvent
  <1>8. Base > 0 => log[Base].time < log[k].time - PairedLookback
    BY <1>2, <1>5, BehindLookback
  <1>9. InReach(s)
    <2>1. s.coordinate.time = log[k].time /\ s.coordinate.time \in Int
      BY <1>2, <1>4
    <2>2. s.prefix_end \in Nat /\ Base <= s.prefix_end /\ s.prefix_end <= Len(log)
      <3>1. Base \in Nat /\ k \in Nat /\ Base < k /\ k <= Len(log)
        BY <1>1, RetainedFacts
      <3>2. Base <= k
        BY ONLY <3>1
      <3>3. QED  BY <1>6, <3>1, <3>2
    <2>3. Base > 0 => log[Base].time < s.coordinate.time - PairedLookback
      BY <1>8, <2>1, Zenon
    <2>4. QED  BY <2>1, <2>2, <2>3, Zenon DEF InReach
  <1>10. QED  BY <1>5, <1>7, <1>9 DEF s

(* A sequence that a held query returns.                                   *)
LEMMA HeldAtLog ==
    ASSUME LogInv, HistoryInv, NEW t, NEW P, Reaches(t, P)
    PROVE  \E n \in Nat :
              /\ n <= P /\ Before(t, P) = 1 .. n
              /\ StateAt(history, t, P) = <<LogState(n)>>
              /\ OrdinaryHeldAt(history, t, P) = <<HeldAfter(n)>>
              /\ HeldByLog(t, P) = HeldAfter(n)
  <1>1. PICK n \in Nat : /\ n <= P /\ Before(t, P) = 1 .. n
                         /\ StateAt(history, t, P) = <<LogState(n)>>
    BY StateAtLog
  <1>2. OrdinaryHeldAt(history, t, P) = <<HeldAfter(n)>>
    <2> DEFINE state == StateAt(history, t, P)
    <2>1. OrdinaryHeldAt(history, t, P) = [i \in DOMAIN state |-> state[i].held]
      BY DEF OrdinaryHeldAt
    <2>2. DOMAIN state = {1} /\ state[1].held = HeldAfter(n)
      BY <1>1 DEF LogState
    <2> HIDE DEF state
    <2>3. [i \in DOMAIN state |-> state[i].held] = [i \in {1} |-> HeldAfter(n)]
      BY <2>2
    <2>4. [i \in {1} |-> HeldAfter(n)] = <<HeldAfter(n)>>
      OBVIOUS
    <2>5. QED  BY <2>1, <2>3, <2>4
  <1>3. HeldByLog(t, P) = HeldAfter(n)
    <2>1. CASE n = 0
      BY <1>1, <2>1 DEF HeldByLog, HeldAfter
    <2>2. CASE n # 0
      <3>1. 1 .. n \subseteq Nat /\ n \in 1 .. n /\ \A y \in 1 .. n : y <= n
        BY <2>2
      <3>2. Sets!Max(1 .. n) = n
        BY <3>1, MaxIs
      <3>3. Before(t, P) # {} /\ Sets!Max(Before(t, P)) = n
        BY <1>1, <3>1, <3>2
      <3>4. QED  BY <2>2, <3>3 DEF HeldByLog, HeldAfter
    <2>3. QED  BY <2>1, <2>2
  <1>4. QED  BY <1>1, <1>2, <1>3

(* A scope that is out: what it knows, and how it lies to the frontier.    *)
NextDelivery(s) == IF s.kind = "event" THEN s.coordinate.sequence + 1
                                       ELSE next_delivery_sequence

Executes(s) ==
    /\ InReach(s)
    /\ (\E k \in Nat : IsEvent(s, k)) \/ IsHeartbeat(s)
    /\ s.coordinate \in [time: Int, sequence: Nat]
    /\ s.coordinate.time <= NextBoundary
    /\ committed_frontier # <<>> => committed_frontier[1].time <= s.coordinate.time
    /\ NextDelivery(s) \in Nat
    /\ \A i \in Base + 1 .. Len(log) :
          PendingFrom(i, NextDelivery(s)) => log[i].time >= s.coordinate.time

LEMMA ReachesBack ==
    ASSUME LogInv, HistoryInv, NEW s, InReach(s),
           NEW d \in Nat, d <= PairedLookback
    PROVE  Reaches(s.coordinate.time - d, s.prefix_end)
  <1> DEFINE T == s.coordinate.time
             b == log[Base].time
  <1>1. T \in Int /\ T - d \in Int
    BY DEF InReach
  <1>2. ASSUME Base > 0 PROVE b <= T - d
    <2>1. b < T - PairedLookback
      BY <1>2 DEF InReach
    <2>2. b \in Int
      <3>1. Base \in 1 .. Len(log)
        BY <1>2, RetainedFacts
      <3>2. QED  BY <3>1, LogFacts
    <2> HIDE DEF b, T
    <2>3. QED  BY ONLY <1>1, <2>1, <2>2, LookbackIs, d \in Nat, d <= PairedLookback
  <1>3. QED  BY <1>1, <1>2 DEF InReach, Reaches

LEMMA HeartbeatIs ==
    ASSUME NEW boundary
    PROVE  LET s == HeartbeatScope(boundary)
           IN /\ s.kind = "heartbeat"
              /\ s.coordinate = [time |-> boundary, sequence |-> NoSequence]
              /\ s.held_before = s.held_after /\ s.rising = {} /\ s.falling = {}
              /\ s.held_after = OrdinaryHeldAt(history, boundary, PrefixEnd)[1]
              /\ s.prefix_end = PrefixEnd
  BY DEF HeartbeatScope

LEMMA HeartbeatFacts ==
    ASSUME LogInv, HistoryInv, FrontierInv,
           \A i \in DOMAIN Pending : Pending[i].time > NextBoundary
    PROVE  Executes(HeartbeatScope(NextBoundary))
  <1> DEFINE s == HeartbeatScope(NextBoundary)
             T == s.coordinate.time
  <1>1. /\ s.kind = "heartbeat"
        /\ s.coordinate = [time |-> NextBoundary, sequence |-> NoSequence]
        /\ s.held_before = s.held_after /\ s.rising = {} /\ s.falling = {}
        /\ s.held_after = OrdinaryHeldAt(history, NextBoundary, PrefixEnd)[1]
        /\ s.prefix_end = PrefixEnd
    BY HeartbeatIs
  <1> HIDE DEF s
  <1>2. NextBoundary \in Int /\ NoSequence \in Nat /\ next_delivery_sequence \in Nat
    BY BoundaryType DEF NoSequence, FrontierInv
  <1>3. /\ T = NextBoundary /\ s.coordinate.sequence = NoSequence
        /\ s.coordinate \in [time: Int, sequence: Nat]
    BY <1>1, <1>2
  <1> HIDE DEF T
  <1>4. Base \in Nat /\ Base <= Len(log) /\ Len(log) \in Nat
    BY RetainedFacts
  <1>5. /\ PrefixEnd \in Nat /\ Base <= PrefixEnd /\ PrefixEnd <= Len(log)
        /\ \A i \in Base + 1 .. Len(log) :
              PendingFrom(i, next_delivery_sequence) => log[i].time >= NextBoundary
    <2>1. CASE /\ Pending = <<>>
               /\ \A i \in Base + 1 .. Len(log) :
                     ~PendingFrom(i, next_delivery_sequence)
      <3>1. PrefixEnd = Len(log)
        BY <2>1 DEF PrefixEnd, HistoryInv
      <3>2. QED  BY <1>4, <2>1, <3>1
    <2>2. ASSUME NEW k \in Nat, Pending = <<log[k]>>,
                 FirstIs(k, next_delivery_sequence)
          PROVE  /\ PrefixEnd \in Nat /\ Base <= PrefixEnd /\ PrefixEnd <= Len(log)
                 /\ \A i \in Base + 1 .. Len(log) :
                       PendingFrom(i, next_delivery_sequence)
                          => log[i].time >= NextBoundary
      <3>1. /\ Base < k /\ k <= Len(log) /\ k \in 1 .. Len(log)
            /\ \A i \in Base + 1 .. Len(log) :
                  PendingFrom(i, next_delivery_sequence) => k <= i
        BY <1>4, <2>2 DEF FirstIs
      <3>2. log[k].sequence = k - 1 /\ log[k].time \in Int
        BY <3>1, LogFacts
      <3>3. PrefixEnd = k - 1
        BY <2>2, <3>2 DEF PrefixEnd
      <3>4. log[k].time > NextBoundary
        BY <2>2
      <3>5. ASSUME NEW i \in Base + 1 .. Len(log),
                   PendingFrom(i, next_delivery_sequence)
            PROVE  log[i].time >= NextBoundary
        <4>1. i \in 1 .. Len(log) /\ k <= i
          BY <1>4, <3>1, <3>5
        <4>2. log[k].time <= log[i].time /\ log[i].time \in Int
          BY <3>1, <4>1, LogFacts DEF LogInv
        <4>3. QED  BY <1>2, <3>2, <3>4, <4>2
      <3>6. k - 1 \in Nat /\ Base <= k - 1 /\ k - 1 <= Len(log)
        BY <1>4, <3>1
      <3>7. QED  BY <3>3, <3>5, <3>6
    <2>3. next_delivery_sequence \in Nat
      BY <1>2
    <2>4. QED  BY <2>1, <2>2, <2>3, FirstFacts DEF Pending
  <1>6. committed_frontier # <<>> => committed_frontier[1].time <= NextBoundary
    BY DEF FrontierInv
  <1>7. Base > 0 => log[Base].time < NextBoundary - PairedLookback
    BY <1>2, <1>6, BehindLookback
  <1>8. InReach(s)
    <2>1. s.prefix_end = PrefixEnd /\ s.coordinate.time = NextBoundary
      BY <1>1, <1>3 DEF T
    <2>2. QED  BY <1>2, <1>5, <1>7, <2>1 DEF InReach
  <1>9. OrdinaryHeldAt(history, T, s.prefix_end) = <<s.held_after>>
    <2>1. Reaches(T - 0, s.prefix_end)
      <3>1. 0 \in Nat /\ 0 <= PairedLookback
        BY LookbackIs
      <3>2. QED  BY <1>8, <3>1, ReachesBack, Zenon DEF T
    <2>2. T - 0 = T
      BY <1>2, <1>3
    <2>3. Reaches(T, s.prefix_end)
      BY <2>1, <2>2, Zenon
    <2>4. PICK n \in Nat : OrdinaryHeldAt(history, T, s.prefix_end) = <<HeldAfter(n)>>
      BY <2>3, HeldAtLog
    <2>5. s.held_after = HeldAfter(n)
      BY <1>1, <1>3, <2>4
    <2>6. QED  BY <2>4, <2>5
  <1>10. IsHeartbeat(s)
    BY <1>1, <1>3, <1>9 DEF IsHeartbeat, T
  <1>11. NextDelivery(s) = next_delivery_sequence
    BY <1>1 DEF NextDelivery
  <1>12. QED
    <2>1. /\ s.coordinate.time <= NextBoundary
          /\ committed_frontier # <<>>
                => committed_frontier[1].time <= s.coordinate.time
      BY <1>2, <1>3, <1>6 DEF T
    <2>2. s.coordinate.time = NextBoundary
      BY <1>3 DEF T
    <2>3. QED  BY <1>2, <1>3, <1>5, <1>8, <1>10, <1>11, <2>1, <2>2 DEF Executes, s

LEMMA EventFacts ==
    ASSUME LogInv, HistoryInv, FrontierInv,
           NEW k \in Nat, FirstIs(k, next_delivery_sequence),
           log[k].time <= NextBoundary
    PROVE  Executes(EventScope(log[k], NextBoundary))
  <1> DEFINE s == EventScope(log[k], NextBoundary)
  <1>1. /\ IsEvent(s, k) /\ InReach(s)
        /\ committed_frontier # <<>> => committed_frontier[1].time <= log[k].time
    BY EventScopeFacts
  <1> HIDE DEF s
  <1>2. k \in 1 .. Len(log) /\ Base \in Nat
    BY RetainedFacts DEF FirstIs
  <1>3. log[k].sequence = k - 1 /\ log[k].time \in Int /\ log[k].sequence \in Nat
    BY <1>2, LogFacts
  <1>4. s.kind = "event" /\ s.coordinate = Coordinate(log[k])
    BY <1>1 DEF IsEvent
  <1>5. /\ s.coordinate.time = log[k].time /\ s.coordinate.sequence = k - 1
        /\ s.coordinate \in [time: Int, sequence: Nat]
    BY <1>3, <1>4 DEF Coordinate
  <1>6. NextDelivery(s) = k
    BY <1>4, <1>5 DEF NextDelivery
  <1>7. ASSUME NEW i \in Base + 1 .. Len(log), PendingFrom(i, k)
        PROVE  log[i].time >= log[k].time
    <2>1. i \in 1 .. Len(log)
      BY <1>2
    <2>2. log[i].sequence = i - 1 /\ log[i].time \in Int
      BY <2>1, LogFacts
    <2>3. k <= i
      BY <1>7, <2>1, <2>2 DEF PendingFrom
    <2>4. log[k].time <= log[i].time
      BY <1>2, <2>1, <2>3 DEF LogInv
    <2>5. QED  BY <1>3, <2>2, <2>4
  <1>8. QED  BY <1>1, <1>5, <1>6, <1>7 DEF Executes, s

LEMMA ScopeFacts ==
    ASSUME ReplayInv, scope # <<>>
    PROVE  \E s : scope = <<s>> /\ Executes(s)
  <1>1. LogInv /\ HistoryInv /\ FrontierInv /\ ScopeInv
    BY DEF ReplayInv
  <1>2. CASE /\ Pending # <<>> /\ Pending[1].time <= NextBoundary
             /\ scope = <<EventScope(Pending[1], NextBoundary)>>
    <2>1. next_delivery_sequence \in Nat
      BY <1>1 DEF FrontierInv
    <2>2. PICK k \in Nat : Pending = <<log[k]>> /\ FirstIs(k, next_delivery_sequence)
      BY <1>1, <1>2, <2>1, FirstFacts DEF Pending
    <2>3. Pending[1] = log[k]
      BY <2>2
    <2>4. /\ scope = <<EventScope(log[k], NextBoundary)>>
          /\ log[k].time <= NextBoundary
      BY <1>2, <2>3, Zenon
    <2>5. Executes(EventScope(log[k], NextBoundary))
      BY <1>1, <2>2, <2>4, EventFacts
    <2>6. QED  BY <2>4, <2>5, Zenon
  <1>3. CASE /\ \A i \in DOMAIN Pending : Pending[i].time > NextBoundary
             /\ scope = <<HeartbeatScope(NextBoundary)>>
    BY <1>1, <1>3, HeartbeatFacts, Zenon
  <1>4. QED  BY <1>1, <1>2, <1>3, Zenon DEF ScopeInv

-----------------------------------------------------------------------------
(* The steps.                                                              *)
LEMMA SameHeld ==
    ASSUME NEW n \in Nat, baseline' = baseline,
           n > 0 => log'[n].held_after = log[n].held_after
    PROVE  HeldAfter(n)' = HeldAfter(n)
  BY DEF HeldAfter

LEMMA SameLogState ==
    ASSUME NEW n \in Nat, baseline' = baseline,
           \A i \in 1 .. n : log'[i] = log[i]
    PROVE  LogState(n)' = LogState(n)
  <1>1. HeldAfter(n)' = HeldAfter(n)
    BY DEF HeldAfter
  <1>2. ASSUME NEW logical
        PROVE  RiseAt(n, logical)' = RiseAt(n, logical)
    <2>1. Rises(n, logical)' = Rises(n, logical)
      BY DEF Rises
    <2>2. CASE Rises(n, logical) = {}
      BY <1>1, <2>1, <2>2 DEF RiseAt
    <2>3. CASE Rises(n, logical) # {}
      <3>1. PICK x : x = Sets!Max(Rises(n, logical))
        OBVIOUS
      <3>2. Rises(n, logical) \subseteq 1 .. n
        BY DEF Rises
      <3>3. x \in 1 .. n
        BY <2>3, <3>1, <3>2, MaxIsGreatest
      <3>4. NewestRise(Rises(n, logical)) = log[x]
        BY <3>1 DEF NewestRise
      <3>5. NewestRise(Rises(n, logical))' = log'[x]
        BY <2>1, <3>1 DEF NewestRise
      <3>6. NewestRise(Rises(n, logical))' = NewestRise(Rises(n, logical))
        BY <3>3, <3>4, <3>5
      <3>7. QED  BY <1>1, <2>1, <3>6 DEF RiseAt
    <2>4. QED  BY <2>2, <2>3
  <1>3. QED  BY <1>1, <1>2 DEF LogState

THEOREM InitReplay == Init => ReplayInv
  <1> SUFFICES ASSUME Init PROVE ReplayInv
    OBVIOUS
  <1>1. /\ history = Reset(Controls, 1, 0, baseline) /\ log = <<>> /\ scope = <<>>
        /\ next_delivery_sequence = 0 /\ committed_frontier = <<>>
        /\ boundary_index = -1 /\ baseline \in SUBSET Controls
    BY DEF Init
  <1>2. Len(log) = 0 /\ 1 .. Len(log) = {} /\ HeldAfter(0) = baseline
    BY <1>1 DEF HeldAfter
  <1>3. LogInv
    BY <1>1, <1>2 DEF LogInv
  <1>4. history.causal_base = LogState(0)
    <2>1. ASSUME NEW logical
          PROVE  RiseAt(0, logical) = IF LogicalHeld(baseline, logical)
                                      THEN StaleRise ELSE NoRise
      <3>1. Rises(0, logical) = {}
        BY DEF Rises
      <3>2. QED  BY <1>2, <3>1 DEF RiseAt
    <2>2. history.causal_base =
             [held |-> baseline,
              rises |-> [logical \in Logical(Controls) |->
                           IF LogicalHeld(baseline, logical) THEN StaleRise
                                                             ELSE NoRise]]
      BY <1>1 DEF Reset
    <2>3. QED  BY <1>2, <2>1, <2>2 DEF LogState
  <1>5. HistoryInv
    <2>1. /\ DOMAIN history = HistoryFields /\ Base = 0
          /\ history.next_sequence = 0 /\ history.current_held = baseline
          /\ history.entries = <<>> /\ history.causal_time_floor = <<>>
          /\ history.last_coordinate = <<>>
      BY <1>1 DEF Reset, HistoryFields, Base
    <2>2. <<>> \in Seq(Entry) /\ Len(<<>>) = 0 /\ 1 .. 0 = {}
      OBVIOUS
    <2>3. QED  BY <1>2, <1>4, <2>1, <2>2 DEF HistoryInv
  <1>6. FrontierInv
    <2>1. Base = 0
      BY <1>1 DEF Reset, Base
    <2>2. QED  BY <1>1, <2>1 DEF FrontierInv
  <1>7. QED  BY <1>1, <1>3, <1>5, <1>6 DEF ReplayInv, ScopeInv

(* What an entry of the log is made of.                                    *)
LEMMA HeldType ==
    ASSUME LogInv, NEW n \in 0 .. Len(log) PROVE HeldAfter(n) \in SUBSET Controls
  <1>1. CASE n = 0
    BY <1>1 DEF HeldAfter, LogInv
  <1>2. CASE n # 0
    <2>1. n \in 1 .. Len(log)
      BY <1>2, LogFacts
    <2>2. log[n] \in Entry
      BY <2>1, LogFacts
    <2>3. QED  BY <1>2, <2>2 DEF HeldAfter, Entry
  <1>3. QED  BY <1>1, <1>2

(* Observe: the entry, where it goes, and what it changes.                 *)
Observed(e) ==
    /\ e \in Entry
    /\ e.sequence = Len(log) /\ e.held_before = HeldAfter(Len(log))
    /\ Len(log) > 0 => log[Len(log)].time <= e.time
    /\ committed_frontier # <<>> /\ e.eligible
          => e.time >= committed_frontier[1].time

LEMMA ObserveFacts ==
    ASSUME ReplayInv, NEW held \in SUBSET Controls, NEW time \in ObservedTimes,
           Observe(held, time)
    PROVE  \E e : /\ Observed(e)
                  /\ log' = Append(log, e) /\ Len(log) < MaxEntries
                  /\ history' = [history EXCEPT !.entries = Append(@, e),
                                                !.next_sequence = @ + 1,
                                                !.current_held = e.held_after,
                                                !.last_coordinate = <<Coordinate(e)>>]
                  /\ next_delivery_sequence' \in {next_delivery_sequence, Len(log) + 1}
                  /\ scope' = <<>>
                  /\ UNCHANGED <<baseline, committed_frontier,
                                 frontier_is_boundary, boundary_index>>
  <1>1. LogInv /\ HistoryInv /\ FrontierInv
    BY DEF ReplayInv
  <1> DEFINE record == [transport_epoch |-> 1, sequence |-> history.next_sequence,
                        held_before |-> history.current_held, held_after |-> held]
             late == IsBehindCommittedFrontier([time |-> time,
                                                sequence |-> record.sequence])
             e == [sequence |-> record.sequence, time |-> time,
                   held_before |-> record.held_before,
                   held_after |-> record.held_after, eligible |-> ~late]
  <1>2. /\ scope' = <<>> /\ Len(log) < MaxEntries
        /\ CanAppend(history, record, time)
        /\ history' = AppendEntry(history, record, time, ~late)
        /\ log' = Append(log, history'.entries[Len(history'.entries)])
        /\ next_delivery_sequence' = IF late THEN record.sequence + 1
                                             ELSE next_delivery_sequence
        /\ UNCHANGED <<baseline, committed_frontier, frontier_is_boundary,
                       boundary_index>>
    BY DEF Observe
  <1>3. history' = [history EXCEPT !.entries = Append(@, e),
                                   !.next_sequence = @ + 1,
                                   !.current_held = record.held_after,
                                   !.last_coordinate = <<Coordinate(e)>>]
    BY <1>2, Zenon DEF AppendEntry
  <1>4. /\ record.sequence = Len(log) /\ record.held_before = HeldAfter(Len(log))
        /\ record.held_after = held
    BY <1>1 DEF HistoryInv
  <1>5. /\ e.sequence = Len(log) /\ e.held_before = HeldAfter(Len(log))
        /\ e.held_after = held /\ e.time = time /\ e.eligible = ~late
    BY <1>4
  <1>6. Len(log) \in Nat
    BY <1>1, LogFacts
  <1>7. late \in BOOLEAN
    BY DEF IsBehindCommittedFrontier
  <1>8. e \in Entry
    <2>1. HeldAfter(Len(log)) \in SUBSET Controls
      BY <1>1, <1>6, HeldType
    <2>2. e = [sequence |-> Len(log), time |-> time,
               held_before |-> HeldAfter(Len(log)), held_after |-> held,
               eligible |-> ~late]
      BY <1>4
    <2> HIDE DEF e, late, record
    <2>3. QED  BY <1>6, <1>7, <2>1, <2>2 DEF Entry
  <1>9. Len(log) > 0 => log[Len(log)].time <= time
    <2>1. SUFFICES ASSUME Len(log) > 0 PROVE log[Len(log)].time <= time
      OBVIOUS
    <2>2. history.last_coordinate = <<Coordinate(log[Len(log)])>>
      BY <1>1, <1>6, <2>1 DEF HistoryInv
    <2>3. 1 \in DOMAIN history.last_coordinate
          /\ history.last_coordinate[1].time = log[Len(log)].time
      BY <2>2 DEF Coordinate
    <2>4. time > log[Len(log)].time \/ time = log[Len(log)].time
      BY <1>2, <2>3 DEF CanAppend
    <2>5. log[Len(log)].time \in Int /\ time \in Int
      <3>1. Len(log) \in 1 .. Len(log)
        BY <1>6, <2>1
      <3>2. QED  BY <1>1, <3>1, LogFacts
    <2>6. QED  BY <2>4, <2>5
  <1>10. committed_frontier # <<>> /\ ~late => time >= committed_frontier[1].time
    <2>1. SUFFICES ASSUME committed_frontier # <<>>, ~late
                   PROVE  time >= committed_frontier[1].time
      OBVIOUS
    <2>2. /\ committed_frontier \in Seq([time: Int, sequence: Nat])
          /\ Len(committed_frontier) <= 1
      BY <1>1 DEF FrontierInv
    <2>3. committed_frontier[1] \in [time: Int, sequence: Nat]
      BY <2>1, <2>2, FirstOfSeq
    <2>4. 1 \in DOMAIN committed_frontier
      <3>1. Len(committed_frontier) \in Nat /\ Len(committed_frontier) # 0
        BY <2>1, <2>2
      <3>2. 1 \in 1 .. Len(committed_frontier)
        BY ONLY <3>1
      <3>3. QED  BY <2>2, <3>2
    <2>5. ~(time < committed_frontier[1].time)
      BY <2>1, <2>4 DEF IsBehindCommittedFrontier
    <2>6. time \in Int /\ committed_frontier[1].time \in Int
      BY <2>3
    <2>7. QED  BY <2>5, <2>6
  <1>11. log' = Append(log, e)
    <2>1. history.entries \in Seq(Entry) /\ DOMAIN history = HistoryFields
      BY <1>1 DEF HistoryInv
    <2> HIDE DEF e
    <2>2. history'.entries = Append(history.entries, e)
      BY <1>3, <2>1 DEF HistoryFields
    <2>3. history'.entries[Len(history'.entries)] = e
      BY <1>8, <2>1, <2>2
    <2>4. QED  BY <1>2, <2>3
  <1>12. next_delivery_sequence' \in {next_delivery_sequence, Len(log) + 1}
    BY <1>2, <1>4
  <1>13. Observed(e)
    <2> HIDE DEF e, late
    <2>1. QED  BY <1>5, <1>8, <1>9, <1>10 DEF Observed
  <1>14. record.held_after = e.held_after
    BY <1>4, <1>5
  <1> HIDE DEF e, late, record
  <1>15. QED  BY <1>2, <1>3, <1>11, <1>12, <1>13, <1>14

LEMMA ObserveKeepsLog ==
    ASSUME LogInv, NEW e, Observed(e), log' = Append(log, e), Len(log) < MaxEntries,
           baseline' = baseline
    PROVE  /\ LogInv'
           /\ Len(log') = Len(log) + 1 /\ log'[Len(log) + 1] = e
           /\ \A i \in 1 .. Len(log) : log'[i] = log[i]
  <1>1. Len(log) \in Nat /\ log \in Seq(Entry) /\ e \in Entry
    BY LogFacts DEF LogInv, Observed
  <1>2. /\ log' \in Seq(Entry) /\ Len(log') = Len(log) + 1
        /\ log'[Len(log) + 1] = e
        /\ \A i \in 1 .. Len(log) : log'[i] = log[i]
    BY <1>1
  <1>3. ASSUME NEW n \in 0 .. Len(log)
        PROVE  HeldAfter(n) = IF n = 0 THEN baseline' ELSE log'[n].held_after
    <2>1. n # 0 => log'[n].held_after = log[n].held_after
      BY <1>1, <1>2
    <2>2. QED  BY <2>1 DEF HeldAfter
  <1>4. ASSUME NEW i \in 1 .. Len(log')
        PROVE  /\ log'[i].sequence = i - 1
               /\ log'[i].held_before = HeldAfter(i - 1)'
    <2>1. CASE i \in 1 .. Len(log)
      <3>1. i - 1 \in 0 .. Len(log)
        BY <1>1, <2>1
      <3>2. HeldAfter(i - 1) = IF i - 1 = 0 THEN baseline'
                                            ELSE log'[i - 1].held_after
        BY <1>3, <3>1
      <3>3. HeldAfter(i - 1)' = IF i - 1 = 0 THEN baseline'
                                             ELSE log'[i - 1].held_after
        BY DEF HeldAfter
      <3>4. HeldAfter(i - 1)' = HeldAfter(i - 1)
        BY <3>2, <3>3
      <3>5. QED  BY <1>2, <2>1, <3>4, LogFacts
    <2>2. CASE i = Len(log) + 1
      <3>1. i - 1 = Len(log) /\ Len(log) \in 0 .. Len(log)
        BY <1>1, <2>2
      <3>2. HeldAfter(i - 1) = IF i - 1 = 0 THEN baseline'
                                            ELSE log'[i - 1].held_after
        BY <1>3, <3>1
      <3>3. log'[i] = e
        BY <1>2, <2>2
      <3>4. HeldAfter(i - 1)' = HeldAfter(i - 1)
        BY <3>2 DEF HeldAfter
      <3>5. QED  BY <3>1, <3>3, <3>4, Zenon DEF Observed
    <2>3. QED  BY <1>1, <1>2, <2>1, <2>2
  <1>5. ASSUME NEW i \in 1 .. Len(log'), NEW j \in 1 .. Len(log'), i <= j
        PROVE  log'[i].time <= log'[j].time
    <2>1. CASE j \in 1 .. Len(log)
      <3>1. i \in 1 .. Len(log)
        BY <1>1, <1>2, <1>5, <2>1
      <3>2. QED  BY <1>2, <1>5, <2>1, <3>1 DEF LogInv
    <2>2. CASE j = Len(log) + 1
      <3>1. log'[j] = e /\ e.time \in Int
        BY <1>1, <1>2, <2>2 DEF Entry
      <3>2. CASE i = Len(log) + 1
        BY <2>2, <3>1, <3>2
      <3>3. CASE i \in 1 .. Len(log)
        <4>1. Len(log) > 0 /\ Len(log) \in 1 .. Len(log) /\ i <= Len(log)
          BY <1>1, <3>3
        <4>2. log[i].time <= log[Len(log)].time
          BY <3>3, <4>1 DEF LogInv
        <4>3. log[Len(log)].time <= e.time
          BY <4>1 DEF Observed
        <4>4. log[i].time \in Int /\ log[Len(log)].time \in Int
          BY <3>3, <4>1, LogFacts
        <4>5. log[i].time <= e.time
          BY ONLY <3>1, <4>2, <4>3, <4>4
        <4>6. QED  BY <1>2, <3>1, <3>3, <4>5
      <3>4. QED  BY <1>1, <1>2, <3>2, <3>3
    <2>3. QED  BY <1>1, <1>2, <2>1, <2>2
  <1>6. Len(log') <= MaxEntries
    <2>1. Len(log) < MaxEntries /\ MaxEntries \in Nat
      OBVIOUS
    <2>2. QED  BY ONLY <1>1, <1>2, <2>1
  <1>7. baseline' \in SUBSET Controls
    BY DEF LogInv
  <1>8. LogInv'
    BY <1>2, <1>4, <1>5, <1>6, <1>7 DEF LogInv
  <1>9. QED  BY <1>2, <1>8

LEMMA ObserveKeeps ==
    ASSUME ReplayInv, NEW held \in SUBSET Controls, NEW time \in ObservedTimes,
           Observe(held, time)
    PROVE  ReplayInv'
  <1>1. LogInv /\ HistoryInv /\ FrontierInv
    BY DEF ReplayInv
  <1>2. PICK e :
          /\ Observed(e)
          /\ log' = Append(log, e) /\ Len(log) < MaxEntries
          /\ history' = [history EXCEPT !.entries = Append(@, e),
                                        !.next_sequence = @ + 1,
                                        !.current_held = e.held_after,
                                        !.last_coordinate = <<Coordinate(e)>>]
          /\ next_delivery_sequence' \in {next_delivery_sequence, Len(log) + 1}
          /\ scope' = <<>>
          /\ UNCHANGED <<baseline, committed_frontier,
                         frontier_is_boundary, boundary_index>>
    BY ObserveFacts, Zenon
  <1>3. /\ LogInv' /\ Len(log') = Len(log) + 1 /\ log'[Len(log) + 1] = e
        /\ \A i \in 1 .. Len(log) : log'[i] = log[i]
    BY <1>1, <1>2, ObserveKeepsLog
  <1>4. PICK b : b = Base
    OBVIOUS
  <1>5. PICK N : N = Len(log)
    OBVIOUS
  <1>6. /\ b \in Nat /\ N \in Nat /\ b <= N /\ Len(history.entries) = N - b
        /\ history.entries \in Seq(Entry) /\ DOMAIN history = HistoryFields
        /\ N - b \in Nat /\ e \in Entry
    <2>1. b \in Nat /\ b <= N /\ N \in Nat
      BY <1>1, <1>4, <1>5, RetainedFacts
    <2>2. N - b \in Nat
      BY <2>1
    <2>3. QED  BY <1>1, <1>2, <1>4, <1>5, <2>1, <2>2 DEF HistoryInv, Observed
  <1>7. /\ DOMAIN history' = HistoryFields /\ Base' = b
        /\ history'.next_sequence = N + 1
        /\ history'.current_held = e.held_after
        /\ history'.entries = Append(history.entries, e)
        /\ history'.causal_base = history.causal_base
        /\ history'.causal_time_floor = history.causal_time_floor
        /\ history'.last_coordinate = <<Coordinate(e)>>
    <2>1. history.next_sequence = N
      BY <1>1, <1>5 DEF HistoryInv
    <2>2. QED  BY <1>2, <1>4, <1>6, <2>1 DEF HistoryFields, Base
  <1>8. LogState(b)' = LogState(b)
    <2>1. \A i \in 1 .. b : log'[i] = log[i]
      BY <1>3, <1>5, <1>6
    <2>2. QED  BY <1>2, <1>6, <2>1, SameLogState
  <1>9. HistoryInv'
    <2>1. Base' \in 0 .. Len(log') /\ Len(log') = N + 1
      BY <1>3, <1>5, <1>6, <1>7
    <2>2. history'.current_held = HeldAfter(Len(log))'
      <3>1. N + 1 # 0 /\ Len(log') = N + 1 /\ log'[N + 1] = e
        BY <1>3, <1>5, <1>6
      <3>2. QED  BY <1>7, <3>1 DEF HeldAfter
    <2>3. /\ history'.entries \in Seq(Entry)
          /\ Len(history'.entries) = Len(log') - Base'
      BY <1>6, <1>7, <2>1
    <2>4. ASSUME NEW i \in 1 .. Len(history'.entries)
          PROVE  history'.entries[i] = log'[Base' + i]
      <3>1. i \in 1 .. N - b \/ i = N - b + 1
        <4>1. Len(history'.entries) = (N - b) + 1
          BY <1>6, <1>7
        <4>2. i \in 1 .. (N - b) + 1
          BY <4>1
        <4>3. QED  BY <1>6, <4>2
      <3>2. CASE i \in 1 .. N - b
        <4>1. history'.entries[i] = history.entries[i]
          BY <1>6, <1>7, <3>2
        <4>2. history.entries[i] = log[b + i] /\ b + i \in 1 .. N
          BY <1>1, <1>4, <1>5, <3>2, RetainedFacts
        <4>3. QED  BY <1>3, <1>5, <1>7, <4>1, <4>2
      <3>3. CASE i = N - b + 1
        <4>1. history'.entries[i] = e /\ b + i = N + 1
          BY <1>6, <1>7, <3>3
        <4>2. QED  BY <1>3, <1>5, <1>7, <4>1
      <3>4. QED  BY <3>1, <3>2, <3>3
    <2>5. history'.causal_base = LogState(Base)'
      <3>1. history.causal_base = LogState(b)
        BY <1>1, <1>4 DEF HistoryInv
      <3>2. LogState(Base)' = LogState(b)'
        BY <1>7 DEF LogState, HeldAfter, RiseAt, Rises
      <3>3. QED  BY <1>7, <1>8, <3>1, <3>2
    <2>6. history'.causal_time_floor = IF Base' = 0 THEN <<>> ELSE <<log'[Base'].time>>
      <3>1. history.causal_time_floor = IF b = 0 THEN <<>> ELSE <<log[b].time>>
        BY <1>1, <1>4 DEF HistoryInv
      <3>2. b # 0 => log'[b] = log[b]
        BY <1>3, <1>5, <1>6
      <3>3. QED  BY <1>7, <3>1, <3>2
    <2>7. history'.last_coordinate =
             IF Len(log') = 0 THEN <<>> ELSE <<Coordinate(log'[Len(log')])>>
      BY <1>3, <1>5, <1>6, <1>7
    <2>8. history'.next_sequence = Len(log')
      BY <1>7, <2>1
    <2>9. QED
      BY <1>7, <2>1, <2>2, <2>3, <2>4, <2>5, <2>6, <2>7, <2>8 DEF HistoryInv
  <1>10. FrontierInv'
    <2>1. /\ next_delivery_sequence' \in Nat /\ boundary_index' \in Int
          /\ committed_frontier' \in Seq([time: Int, sequence: Nat])
          /\ Len(committed_frontier') <= 1
          /\ (committed_frontier' = <<>> => Base' = 0)
      BY <1>1, <1>2, <1>4, <1>5, <1>6, <1>7 DEF FrontierInv
    <2>2. ASSUME committed_frontier' # <<>>
          PROVE  /\ committed_frontier'[1].time <= NextBoundary'
                 /\ Base' > 0 => log'[Base'].time
                                    < committed_frontier'[1].time - PairedLookback
      <3>1. b > 0 => log'[b] = log[b]
        BY <1>3, <1>5, <1>6
      <3>2. NextBoundary' = NextBoundary /\ committed_frontier' = committed_frontier
        BY <1>2 DEF NextBoundary
      <3>3. QED  BY <1>1, <1>4, <1>7, <2>2, <3>1, <3>2 DEF FrontierInv
    <2>3. ASSUME committed_frontier' # <<>>, NEW i \in Base' + 1 .. Len(log'),
                 log'[i].eligible, log'[i].sequence >= next_delivery_sequence'
          PROVE  log'[i].time >= committed_frontier'[1].time
      <3>1. committed_frontier' = committed_frontier
        BY <1>2
      <3>2. i \in b + 1 .. N + 1
        BY <1>3, <1>5, <1>7
      <3>3. CASE i = N + 1
        BY <1>2, <1>3, <1>5, <2>3, <3>1, <3>3 DEF Observed
      <3>4. CASE i # N + 1
        <4>1. i \in b + 1 .. N /\ i \in 1 .. N
          BY <1>6, <3>2, <3>4
        <4>2. log'[i] = log[i] /\ log[i].sequence = i - 1
          BY <1>1, <1>3, <1>5, <4>1, LogFacts
        <4>3. next_delivery_sequence' = next_delivery_sequence
          BY <1>2, <1>5, <1>6, <2>3, <4>1, <4>2
        <4>4. QED  BY <1>1, <1>4, <1>5, <2>3, <3>1, <4>1, <4>2, <4>3 DEF FrontierInv
      <3>5. QED  BY <3>3, <3>4
    <2>4. QED  BY <2>1, <2>2, <2>3 DEF FrontierInv
  <1>11. ScopeInv'
    BY <1>2 DEF ScopeInv
  <1>12. QED  BY <1>3, <1>9, <1>10, <1>11 DEF ReplayInv

(* An entry that is dropped stays where it is, and in what it holds.       *)
LEMMA DropKeeps ==
    ASSUME ReplayInv, DropOverload
    PROVE  ReplayInv'
  <1>1. LogInv /\ HistoryInv /\ FrontierInv
    BY DEF ReplayInv
  <1>2. next_delivery_sequence \in Nat /\ Pending # <<>>
    BY <1>1 DEF FrontierInv, DropOverload
  <1>3. PICK k \in Nat : Pending = <<log[k]>> /\ FirstIs(k, next_delivery_sequence)
    BY <1>1, <1>2, FirstFacts DEF Pending
  <1>4. PICK b : b = Base
    OBVIOUS
  <1>5. PICK N : N = Len(log)
    OBVIOUS
  <1>6. /\ b \in Nat /\ N \in Nat /\ b <= N /\ Len(history.entries) = N - b
        /\ history.entries \in Seq(Entry) /\ DOMAIN history = HistoryFields
        /\ N - b \in Nat /\ DOMAIN history.entries = 1 .. N - b
        /\ log \in Seq(Entry) /\ DOMAIN log = 1 .. N
    <2>1. b \in Nat /\ b <= N /\ N \in Nat
      BY <1>1, <1>4, <1>5, RetainedFacts
    <2>2. N - b \in Nat
      BY <2>1
    <2>3. /\ Len(history.entries) = N - b /\ DOMAIN history.entries = 1 .. N - b
          /\ DOMAIN log = 1 .. N
      BY <1>1, <1>4, <1>5, RetainedFacts, LogFacts
    <2>4. QED  BY <1>1, <2>1, <2>2, <2>3 DEF HistoryInv, LogInv
  <1>7. /\ b < k /\ k <= N /\ k \in 1 .. N /\ k \in b + 1 .. N
        /\ log[k].sequence = k - 1 /\ log[k] \in Entry
        /\ log[k].sequence >= next_delivery_sequence
    <2>1. b < k /\ k <= N /\ k \in 1 .. N /\ k \in b + 1 .. N
      BY <1>3, <1>4, <1>5, <1>6 DEF FirstIs
    <2>2. QED  BY <1>1, <1>3, <1>5, <2>1, LogFacts DEF FirstIs, PendingFrom
  <1>8. /\ Pending[1].sequence = k - 1 /\ (k - 1) + 1 = k
    BY <1>3, <1>7
  <1>9. PICK d : d = [log[k] EXCEPT !.eligible = FALSE]
    OBVIOUS
  <1>10. /\ d \in Entry /\ d.eligible = FALSE /\ d.sequence = log[k].sequence
         /\ d.time = log[k].time /\ d.held_before = log[k].held_before
         /\ d.held_after = log[k].held_after
    BY <1>7, <1>9 DEF Entry
  <1>11. /\ history' = ConvertResolvedToStateOnly(history, k - 1)
         /\ log' = [log EXCEPT ![k] = d]
         /\ next_delivery_sequence' = k /\ scope' = <<>>
         /\ UNCHANGED <<baseline, committed_frontier, frontier_is_boundary,
                        boundary_index>>
    BY <1>7, <1>8, <1>9 DEF DropOverload
  <1>12. /\ log' \in Seq(Entry) /\ Len(log') = N
         /\ \A i \in 1 .. N : log'[i] = IF i = k THEN d ELSE log[i]
    BY <1>5, <1>6, <1>7, <1>10, <1>11
  <1>13. ASSUME NEW i \in 1 .. N
         PROVE  /\ log'[i].sequence = log[i].sequence /\ log'[i].time = log[i].time
                /\ log'[i].held_before = log[i].held_before
                /\ log'[i].held_after = log[i].held_after
                /\ log'[i].eligible => log[i].eligible
                /\ i # k => log'[i] = log[i]
    BY <1>10, <1>12
  <1>14. ASSUME NEW n \in 0 .. N
         PROVE  /\ HeldAfter(n) = IF n = 0 THEN baseline' ELSE log'[n].held_after
    <2>1. n # 0 => log'[n].held_after = log[n].held_after
      BY <1>6, <1>13
    <2>2. QED  BY <1>11, <2>1 DEF HeldAfter
  <1>15. LogInv'
    <2>1. ASSUME NEW i \in 1 .. Len(log')
          PROVE  /\ log'[i].sequence = i - 1
                 /\ log'[i].held_before = HeldAfter(i - 1)'
      <3>1. i \in 1 .. N /\ i - 1 \in 0 .. N
        BY <1>6, <1>12
      <3>2. HeldAfter(i - 1) = IF i - 1 = 0 THEN baseline' ELSE log'[i - 1].held_after
        BY <1>14, <3>1
      <3>3. HeldAfter(i - 1)' = HeldAfter(i - 1)
        BY <3>2 DEF HeldAfter
      <3>4. log[i].sequence = i - 1 /\ log[i].held_before = HeldAfter(i - 1)
        BY <1>1, <1>5, <3>1, LogFacts
      <3>5. QED  BY <1>13, <3>1, <3>3, <3>4
    <2>2. ASSUME NEW i \in 1 .. Len(log'), NEW j \in 1 .. Len(log'), i <= j
          PROVE  log'[i].time <= log'[j].time
      <3>1. i \in 1 .. N /\ j \in 1 .. N
        BY <1>12
      <3>2. log[i].time <= log[j].time
        BY <1>1, <1>5, <2>2, <3>1 DEF LogInv
      <3>3. QED  BY <1>13, <3>1, <3>2
    <2>3. Len(log') <= MaxEntries /\ baseline' \in SUBSET Controls
      BY <1>1, <1>5, <1>11, <1>12 DEF LogInv
    <2>4. QED  BY <1>12, <2>1, <2>2, <2>3 DEF LogInv
  <1>16. /\ DOMAIN history' = HistoryFields /\ Base' = b
         /\ history'.next_sequence = N
         /\ history'.current_held = history.current_held
         /\ history'.causal_base = history.causal_base
         /\ history'.causal_time_floor = history.causal_time_floor
         /\ history'.last_coordinate = history.last_coordinate
         /\ history'.entries =
               [i \in 1 .. N - b |->
                  IF history.entries[i].sequence = k - 1
                  THEN [history.entries[i] EXCEPT !.eligible = FALSE]
                  ELSE history.entries[i]]
    <2>1. history.next_sequence = N
      BY <1>1, <1>5 DEF HistoryInv
    <2>2. history' = [history EXCEPT !.entries =
                        [i \in DOMAIN @ |-> IF @[i].sequence = k - 1
                                            THEN [@[i] EXCEPT !.eligible = FALSE]
                                            ELSE @[i]]]
      BY <1>11 DEF ConvertResolvedToStateOnly
    <2>3. QED  BY <1>4, <1>6, <2>1, <2>2 DEF HistoryFields, Base
  <1>17. ASSUME NEW i \in 1 .. N - b
         PROVE  /\ history'.entries[i] = log'[b + i] /\ b + i \in 1 .. N
                /\ history'.entries[i] \in Entry
    <2>1. /\ history.entries[i] = log[b + i] /\ b + i \in 1 .. N
          /\ history.entries[i].sequence = b + i - 1
      BY <1>1, <1>4, <1>5, RetainedFacts
    <2>2. CASE b + i = k
      <3>1. history.entries[i].sequence = k - 1
        <4>1. b \in Nat /\ i \in Nat
          BY <1>6
        <4>2. b + i - 1 = k - 1
          BY ONLY <4>1, <2>2, k \in Nat
        <4>3. QED  BY <2>1, <4>2, Zenon
      <3>2. history'.entries[i] = d
        <4>1. history.entries[i] = log[k]
          BY <2>1, <2>2, Zenon
        <4>2. history'.entries[i] = [history.entries[i] EXCEPT !.eligible = FALSE]
          BY <1>16, <3>1
        <4>3. QED  BY <1>9, <4>1, <4>2, Zenon
      <3>3. QED  BY <1>10, <1>12, <2>1, <2>2, <3>2
    <2>3. CASE b + i # k
      <3>1. b + i - 1 # k - 1
        BY <1>6, <1>7, <2>3
      <3>2. history'.entries[i] = history.entries[i]
        BY <1>16, <2>1, <3>1
      <3>3. log'[b + i] = log[b + i] /\ log[b + i] \in Entry
        BY <1>1, <1>5, <1>13, <2>1, <2>3, LogFacts
      <3>4. QED  BY <2>1, <3>2, <3>3
    <2>4. QED  BY <2>2, <2>3
  <1>18. HistoryInv'
    <2>1. Base' \in 0 .. Len(log') /\ history'.next_sequence = Len(log')
      BY <1>6, <1>12, <1>16
    <2>2. history'.current_held = HeldAfter(Len(log))'
      <3>1. N \in 0 .. N
        BY <1>6
      <3>2. HeldAfter(N) = IF N = 0 THEN baseline' ELSE log'[N].held_after
        BY <1>14, <3>1
      <3>3. history.current_held = HeldAfter(N)
        BY <1>1, <1>5 DEF HistoryInv
      <3>4. QED  BY <1>12, <1>16, <3>2, <3>3 DEF HeldAfter
    <2>3. history'.entries \in Seq(Entry) /\ Len(history'.entries) = N - b
      <3>1. history'.entries \in [1 .. N - b -> Entry]
        BY <1>16, <1>17
      <3>2. QED  BY <1>6, <3>1
    <2>4. \A i \in 1 .. Len(history'.entries) : history'.entries[i] = log'[Base' + i]
      BY <1>16, <1>17, <2>3
    <2>5. history'.causal_base = LogState(Base)'
      <3>1. \A i \in 1 .. b : log'[i] = log[i]
        BY <1>6, <1>7, <1>13
      <3>2. LogState(b)' = LogState(b)
        BY <1>6, <1>11, <3>1, SameLogState
      <3>3. history.causal_base = LogState(b)
        BY <1>1, <1>4 DEF HistoryInv
      <3>4. LogState(Base)' = LogState(b)'
        BY <1>16 DEF LogState, HeldAfter, RiseAt, Rises
      <3>5. QED  BY <1>16, <3>2, <3>3, <3>4
    <2>6. history'.causal_time_floor = IF Base' = 0 THEN <<>> ELSE <<log'[Base'].time>>
      <3>1. history.causal_time_floor = IF b = 0 THEN <<>> ELSE <<log[b].time>>
        BY <1>1, <1>4 DEF HistoryInv
      <3>2. b # 0 => log'[b].time = log[b].time
        BY <1>6, <1>13
      <3>3. QED  BY <1>16, <3>1, <3>2
    <2>7. history'.last_coordinate =
             IF Len(log') = 0 THEN <<>> ELSE <<Coordinate(log'[Len(log')])>>
      <3>1. history.last_coordinate =
               IF N = 0 THEN <<>> ELSE <<Coordinate(log[N])>>
        BY <1>1, <1>5 DEF HistoryInv
      <3>2. N # 0 => Coordinate(log'[N]) = Coordinate(log[N])
        BY <1>6, <1>13 DEF Coordinate
      <3>3. QED  BY <1>12, <1>16, <3>1, <3>2
    <2>8. Len(history'.entries) = Len(log') - Base'
      BY <1>12, <1>16, <2>3
    <2>9. QED
      BY <1>16, <2>1, <2>2, <2>3, <2>4, <2>5, <2>6, <2>7, <2>8 DEF HistoryInv
  <1>19. FrontierInv'
    <2>1. /\ next_delivery_sequence' \in Nat /\ boundary_index' \in Int
          /\ committed_frontier' \in Seq([time: Int, sequence: Nat])
          /\ Len(committed_frontier') <= 1
          /\ (committed_frontier' = <<>> => Base' = 0)
      BY <1>1, <1>4, <1>11, <1>16 DEF FrontierInv
    <2>2. ASSUME committed_frontier' # <<>>
          PROVE  /\ committed_frontier'[1].time <= NextBoundary'
                 /\ Base' > 0 => log'[Base'].time
                                    < committed_frontier'[1].time - PairedLookback
      <3>1. b > 0 => log'[b].time = log[b].time
        BY <1>6, <1>13
      <3>2. NextBoundary' = NextBoundary /\ committed_frontier' = committed_frontier
        BY <1>11 DEF NextBoundary
      <3>3. QED  BY <1>1, <1>4, <1>16, <2>2, <3>1, <3>2 DEF FrontierInv
    <2>3. ASSUME committed_frontier' # <<>>, NEW i \in Base' + 1 .. Len(log'),
                 log'[i].eligible, log'[i].sequence >= next_delivery_sequence'
          PROVE  log'[i].time >= committed_frontier'[1].time
      <3>1. i \in b + 1 .. N /\ i \in 1 .. N
        BY <1>6, <1>12, <1>16
      <3>2. log[i].sequence \in Nat /\ log'[i].sequence = log[i].sequence
        BY <1>1, <1>5, <1>13, <3>1, LogFacts
      <3>3. log[i].eligible /\ log[i].sequence >= next_delivery_sequence
        BY <1>2, <1>7, <1>11, <1>13, <2>3, <3>1, <3>2
      <3>4. log[i].time >= committed_frontier[1].time
        BY <1>1, <1>4, <1>5, <1>11, <2>3, <3>1, <3>3 DEF FrontierInv
      <3>5. QED  BY <1>11, <1>13, <3>1, <3>4
    <2>4. QED  BY <2>1, <2>2, <2>3 DEF FrontierInv
  <1>20. ScopeInv'
    BY <1>11 DEF ScopeInv
  <1>21. QED  BY <1>15, <1>18, <1>19, <1>20 DEF ReplayInv

(* A scope begins, or nothing happens: the history stays as it is.         *)
LEMMA SameKeeps ==
    ASSUME LogInv, HistoryInv, FrontierInv,
           UNCHANGED <<history, log, baseline, next_delivery_sequence,
                       committed_frontier, boundary_index>>
    PROVE  LogInv' /\ HistoryInv' /\ FrontierInv'
  <1>1. LogInv'
    BY DEF LogInv, HeldAfter
  <1>2. HistoryInv'
    BY DEF HistoryInv, HeldAfter, Base, LogState, RiseAt, Rises, NewestRise
  <1>3. FrontierInv'
    BY DEF FrontierInv, Base, NextBoundary
  <1>4. QED  BY <1>1, <1>2, <1>3

LEMMA BeginKeeps ==
    ASSUME ReplayInv, BeginEvent \/ BeginHeartbeat
    PROVE  ReplayInv'
  <1>1. UNCHANGED <<history, log, baseline, next_delivery_sequence,
                    committed_frontier, boundary_index>>
    BY DEF BeginEvent, BeginHeartbeat
  <1>2. LogInv' /\ HistoryInv' /\ FrontierInv'
    BY <1>1, SameKeeps DEF ReplayInv
  <1>3. /\ Pending' = Pending /\ NextBoundary' = NextBoundary
    BY <1>1 DEF Pending, NextBoundary
  <1>4. ScopeInv'
    <2>1. CASE BeginEvent
      <3>1. /\ Pending # <<>> /\ Pending[1].time <= NextBoundary
            /\ scope' = <<EventScope(Pending[1], NextBoundary)>>
        BY <2>1 DEF BeginEvent
      <3>2. EventScope(Pending[1], NextBoundary)' = EventScope(Pending[1], NextBoundary)
        BY <1>1 DEF EventScope, Pending, NextBoundary
      <3>3. QED  BY <1>3, <3>1, <3>2 DEF ScopeInv
    <2>2. CASE BeginHeartbeat
      <3>1. /\ \A i \in DOMAIN Pending : Pending[i].time > NextBoundary
            /\ scope' = <<HeartbeatScope(NextBoundary)>>
        BY <2>2 DEF BeginHeartbeat
      <3>2. HeartbeatScope(NextBoundary)' = HeartbeatScope(NextBoundary)
        BY <1>1 DEF HeartbeatScope, PrefixEnd, Pending, NextBoundary
      <3>3. QED  BY <1>3, <3>1, <3>2 DEF ScopeInv
    <2>3. QED  BY <2>1, <2>2
  <1>5. QED  BY <1>2, <1>4 DEF ReplayInv

(* PruneBefore: how far it goes, and what it leaves.                       *)
LEMMA PruneFacts ==
    ASSUME LogInv, HistoryInv, NEW T \in Int, NEW E \in Nat
    PROVE  \E b \in Nat :
             LET h == PruneBefore(history, T, E)
             IN /\ Base <= b /\ b <= Len(log)
                /\ DOMAIN h = HistoryFields
                /\ h.base_next_sequence = b
                /\ h.next_sequence = Len(log)
                /\ h.current_held = HeldAfter(Len(log))
                /\ h.last_coordinate = history.last_coordinate
                /\ h.entries \in Seq(Entry) /\ Len(h.entries) = Len(log) - b
                /\ \A i \in 1 .. Len(h.entries) : h.entries[i] = log[b + i]
                /\ h.causal_base = LogState(b)
                /\ h.causal_time_floor = IF b = 0 THEN <<>> ELSE <<log[b].time>>
                /\ b = Base \/ (b > 0 /\ log[b].time < T - PairedLookback)
  <1> DEFINE m == Len(log) - Base
             stops == {i \in DOMAIN history.entries :
                         ~(/\ history.entries[i].sequence < E
                           /\ IsOld(history.entries[i], T))}
             pruned == UpTo(history.entries, stops)
  <1>1. /\ Base \in Nat /\ m \in Nat /\ DOMAIN history.entries = 1 .. m
        /\ Len(history.entries) = m /\ history.entries \in Seq(Entry)
        /\ Base <= Len(log) /\ Len(log) \in Nat
        /\ \A i \in 1 .. m : /\ Base + i \in 1 .. Len(log)
                             /\ history.entries[i] = log[Base + i]
                             /\ history.entries[i].sequence = Base + i - 1
                             /\ history.entries[i].time \in Int
    <2>1. Base \in Nat /\ Base <= Len(log) /\ Len(log) \in Nat
      BY RetainedFacts
    <2>2. m \in Nat
      BY <2>1
    <2>3. history.entries \in Seq(Entry)
      BY DEF HistoryInv
    <2>4. QED  BY <2>1, <2>2, <2>3, RetainedFacts, Zenon
  <1>2. T - PairedLookback \in Int
    BY LookbackIs
  <1>3. /\ stops \subseteq 1 .. m
        /\ \A i \in 1 .. m :
              i \in stops <=> ~(/\ Base + i - 1 < E
                                /\ history.entries[i].time < T - PairedLookback)
    BY <1>1 DEF IsOld
  <1> HIDE DEF stops, m
  <1>4. ASSUME NEW i \in 1 .. m, NEW j \in 1 .. m, i \in stops, i <= j
        PROVE  j \in stops
    <2> DEFINE x == history.entries[i].time
               y == history.entries[j].time
    <2>1. x <= y /\ x \in Int /\ y \in Int
      <3>1. Base + i <= Base + j
        BY <1>1, <1>4
      <3>2. log[Base + i].time <= log[Base + j].time
        BY <1>1, <3>1 DEF LogInv
      <3>3. QED  BY <1>1, <3>2
    <2>2. CASE ~(Base + i - 1 < E)
      <3>1. ~(Base + j - 1 < E)
        BY <1>1, <1>4, <2>2
      <3>2. QED  BY <1>3, <3>1
    <2>3. CASE ~(x < T - PairedLookback)
      <3> HIDE DEF x, y
      <3>1. ~(y < T - PairedLookback)
        BY ONLY <1>2, <2>1, <2>3
      <3>2. QED  BY <1>3, <3>1 DEF y
    <2>4. QED  BY <1>3, <1>4, <2>2, <2>3
  <1>5. PICK k \in 0 .. m :
              /\ \A i \in 1 .. m : i \in stops <=> i > k
              /\ Len(pruned) = k
              /\ \A i \in 1 .. k : pruned[i] = log[Base + i]
    BY <1>3, <1>4, UpToFacts DEF m
  <1> DEFINE b == Base + k
             h == PruneBefore(history, T, E)
  <1> HIDE DEF pruned
  <1>6. k \in Nat /\ b \in Nat /\ b <= Len(log) /\ Base <= b
    BY <1>1, <1>5 DEF m
  <1>7. h = IF k = 0 THEN history
            ELSE [history EXCEPT
                    !.entries = SubSeq(@, k + 1, Len(@)),
                    !.causal_base = Replay(@, pruned),
                    !.causal_time_floor = <<pruned[k].time>>,
                    !.base_next_sequence = pruned[k].sequence + 1]
    <2>1. PruneBefore(history, T, E) =
            IF Len(pruned) = 0 THEN history
            ELSE [history EXCEPT
                    !.entries = SubSeq(@, Len(pruned) + 1, Len(@)),
                    !.causal_base = Replay(@, pruned),
                    !.causal_time_floor = <<pruned[Len(pruned)].time>>,
                    !.base_next_sequence = pruned[Len(pruned)].sequence + 1]
      BY Zenon DEF PruneBefore, Leading, stops, pruned
    <2>2. QED  BY <1>5, <2>1
  <1>8. CASE k = 0
    <2>1. h = history /\ b = Base
      BY <1>1, <1>7, <1>8
    <2> HIDE DEF b, h
    <2>2. /\ DOMAIN h = HistoryFields /\ h.base_next_sequence = b
          /\ h.next_sequence = Len(log) /\ h.current_held = HeldAfter(Len(log))
          /\ h.last_coordinate = history.last_coordinate
          /\ h.entries \in Seq(Entry) /\ Len(h.entries) = Len(log) - b
          /\ \A i \in 1 .. Len(h.entries) : h.entries[i] = log[b + i]
          /\ h.causal_base = LogState(b)
          /\ h.causal_time_floor = IF b = 0 THEN <<>> ELSE <<log[b].time>>
      BY <2>1, Zenon DEF HistoryInv, Base
    <2>3. QED  BY <1>6, <2>1, <2>2 DEF h
  <1>9. CASE k # 0
    <2>1. k \in 1 .. m /\ Base + k \in 1 .. Len(log) /\ b > 0 /\ b # 0 /\ k \in 1 .. k
      BY <1>1, <1>5, <1>9
    <2>2. pruned[k] = log[b]
      BY <1>5, <2>1
    <2>3. log[b].sequence + 1 = b
      <3>1. log[b].sequence = b - 1
        BY <2>1, LogFacts
      <3>2. QED  BY <1>6, <3>1
    <2>4. log[b].time < T - PairedLookback
      <3>1. k \notin stops
        BY <1>5, <2>1
      <3>2. history.entries[k].time < T - PairedLookback
        BY <1>3, <2>1, <3>1
      <3>3. QED  BY <1>1, <2>1, <3>2
    <2>5. Replay(history.causal_base, pruned) = LogState(b)
      <3>1. history.causal_base = LogState(Base)
        BY DEF HistoryInv
      <3>2. Base \in Nat /\ Base + k <= Len(log) /\ Len(pruned) = k /\ k \in Nat
        BY <1>1, <1>5, <1>6
      <3>3. \A i \in 1 .. k : pruned[i] = log[Base + i]
        BY <1>5
      <3>4. Replay(LogState(Base), pruned) = LogState(Base + k)
        BY <3>2, <3>3, ReplayLog, Zenon
      <3>5. QED  BY <3>1, <3>4, Zenon
    <2>6. DOMAIN history = HistoryFields
      BY DEF HistoryInv
    <2>7. /\ DOMAIN h = HistoryFields /\ h.base_next_sequence = b
          /\ h.next_sequence = history.next_sequence
          /\ h.current_held = history.current_held
          /\ h.last_coordinate = history.last_coordinate
          /\ h.entries = SubSeq(history.entries, k + 1, m)
          /\ h.causal_base = LogState(b)
          /\ h.causal_time_floor = <<log[b].time>>
      <3> HIDE DEF b, h
      <3>1. h = [history EXCEPT
                    !.entries = SubSeq(@, k + 1, m),
                    !.causal_base = LogState(b),
                    !.causal_time_floor = <<log[b].time>>,
                    !.base_next_sequence = b]
        BY <1>1, <1>7, <1>9, <2>2, <2>3, <2>5
      <3>2. QED  BY <2>6, <3>1 DEF HistoryFields
    <2>8. h.next_sequence = Len(log) /\ h.current_held = HeldAfter(Len(log))
      BY <2>7 DEF HistoryInv
    <2> HIDE DEF h
    <2>9. /\ h.entries \in Seq(Entry) /\ Len(h.entries) = m - k
          /\ \A i \in 1 .. m - k : /\ h.entries[i] = history.entries[i + k]
                                   /\ i + k \in 1 .. m
      <3> DEFINE q == SubSeq(history.entries, k + 1, m)
      <3>1. k + 1 \in 1 .. m + 1 /\ m - k \in Nat
        BY <1>1, <2>1
      <3>2. q = [i \in 1 .. m - k |-> history.entries[i + k]]
        BY <1>1, <2>1, <3>1
      <3>3. \A i \in 1 .. m - k : i + k \in 1 .. m
        BY <1>1, <2>1
      <3>4. \A i \in 1 .. m : history.entries[i] \in Entry
        BY <1>1
      <3>5. q \in [1 .. m - k -> Entry]
        BY <3>2, <3>3, <3>4
      <3>6. q \in Seq(Entry) /\ Len(q) = m - k
        BY <3>1, <3>5, SeqOfFunction, Zenon
      <3>7. QED  BY <2>7, <3>2, <3>3, <3>6
    <2>10. Len(h.entries) = Len(log) - b
      <3>1. m - k = Len(log) - b
        BY <1>1, <1>6 DEF m
      <3>2. QED  BY <2>9, <3>1
    <2>11. ASSUME NEW i \in 1 .. Len(h.entries)
           PROVE  h.entries[i] = log[b + i]
      <3>1. i \in 1 .. m - k
        BY <2>9
      <3>2. h.entries[i] = history.entries[i + k] /\ i + k \in 1 .. m
        BY <2>9, <3>1
      <3>3. history.entries[i + k] = log[Base + (i + k)]
        BY <1>1, <3>2
      <3>4. Base + (i + k) = b + i
        BY <1>1, <1>6, <3>1
      <3>5. QED  BY <3>2, <3>3, <3>4
    <2> HIDE DEF b
    <2>12. QED  BY <1>6, <2>1, <2>4, <2>7, <2>8, <2>9, <2>10, <2>11 DEF h
  <1>10. QED  BY <1>8, <1>9

(* CommitScope: the frontier moves on, and what is pruned lies behind it.  *)
LEMMA CommitKeeps ==
    ASSUME ReplayInv, CommitScope
    PROVE  ReplayInv'
  <1>1. LogInv /\ HistoryInv /\ FrontierInv
    BY DEF ReplayInv
  <1>2. scope # <<>>
    BY DEF CommitScope
  <1>3. PICK s : scope = <<s>> /\ Executes(s)
    BY <1>2, ScopeFacts
  <1>4. scope[1] = s
    BY <1>3
  <1>5. PICK T : T = s.coordinate.time
    OBVIOUS
  <1>6. /\ T \in Int /\ T <= NextBoundary /\ NextBoundary \in Int
        /\ s.coordinate \in [time: Int, sequence: Nat]
        /\ NextDelivery(s) \in Nat
        /\ committed_frontier # <<>> => committed_frontier[1].time <= T
        /\ \A i \in Base + 1 .. Len(log) :
              PendingFrom(i, NextDelivery(s)) => log[i].time >= T
    BY <1>1, <1>3, <1>5, BoundaryType DEF Executes
  <1>7. /\ next_delivery_sequence' = NextDelivery(s)
        /\ committed_frontier' = <<s.coordinate>>
        /\ boundary_index' \in {boundary_index, boundary_index + 1}
        /\ scope' = <<>> /\ log' = log /\ baseline' = baseline
    BY <1>4 DEF CommitScope, NextDelivery
  <1>8. \E E \in Nat : history' = PruneBefore(history, T, E)
    <2> DEFINE next == FirstResolvedAtOrAfter(history, NextDelivery(s))
               E == IF next = <<>> THEN history.next_sequence ELSE next[1].sequence
    <2>1. history' = PruneBefore(history, T, E)
      <3>1. LET next2 == FirstResolvedAtOrAfter(history, next_delivery_sequence')
            IN history' = PruneBefore(history, scope[1].coordinate.time,
                             IF next2 = <<>> THEN history.next_sequence
                                             ELSE next2[1].sequence)
        BY DEF CommitScope
      <3>2. QED  BY <1>4, <1>5, <1>7, <3>1
    <2>2. E \in Nat
      <3>1. CASE next = <<>>
        BY <1>1, <3>1, LogFacts DEF HistoryInv
      <3>2. CASE next # <<>>
        <4>1. PICK k \in Nat : next = <<log[k]>> /\ FirstIs(k, NextDelivery(s))
          BY <1>1, <1>6, <3>2, FirstFacts
        <4>2. k \in 1 .. Len(log)
          <5>1. Base \in Nat /\ Base < k /\ k <= Len(log) /\ Len(log) \in Nat
            BY <1>1, <4>1, RetainedFacts DEF FirstIs
          <5>2. QED  BY ONLY <5>1, k \in Nat
        <4>3. E = log[k].sequence
          BY <3>2, <4>1
        <4>4. QED  BY <1>1, <4>2, <4>3, LogFacts
      <3>3. QED  BY <3>1, <3>2
    <2>3. QED  BY <2>1, <2>2, Zenon
  <1>9. PICK E \in Nat : history' = PruneBefore(history, T, E)
    BY <1>8
  <1>10. PICK b \in Nat :
           /\ Base <= b /\ b <= Len(log)
           /\ DOMAIN history' = HistoryFields
           /\ history'.base_next_sequence = b
           /\ history'.next_sequence = Len(log)
           /\ history'.current_held = HeldAfter(Len(log))
           /\ history'.last_coordinate = history.last_coordinate
           /\ history'.entries \in Seq(Entry)
           /\ Len(history'.entries) = Len(log) - b
           /\ \A i \in 1 .. Len(history'.entries) : history'.entries[i] = log[b + i]
           /\ history'.causal_base = LogState(b)
           /\ history'.causal_time_floor = IF b = 0 THEN <<>> ELSE <<log[b].time>>
           /\ b = Base \/ (b > 0 /\ log[b].time < T - PairedLookback)
    <2>1. \E b \in Nat :
             LET h == PruneBefore(history, T, E)
             IN /\ Base <= b /\ b <= Len(log)
                /\ DOMAIN h = HistoryFields
                /\ h.base_next_sequence = b
                /\ h.next_sequence = Len(log)
                /\ h.current_held = HeldAfter(Len(log))
                /\ h.last_coordinate = history.last_coordinate
                /\ h.entries \in Seq(Entry) /\ Len(h.entries) = Len(log) - b
                /\ \A i \in 1 .. Len(h.entries) : h.entries[i] = log[b + i]
                /\ h.causal_base = LogState(b)
                /\ h.causal_time_floor = IF b = 0 THEN <<>> ELSE <<log[b].time>>
                /\ b = Base \/ (b > 0 /\ log[b].time < T - PairedLookback)
      BY <1>1, <1>6, PruneFacts, Zenon
    <2>2. QED  BY <1>9, <2>1, Zenon
  <1>11. Base \in Nat /\ Len(log) \in Nat /\ Base' = b
    BY <1>1, <1>10, RetainedFacts DEF Base
  <1>12. LogInv'
    BY <1>1, <1>7 DEF LogInv, HeldAfter
  <1>13. HistoryInv'
    <2>1. LogState(b)' = LogState(b) /\ HeldAfter(Len(log))' = HeldAfter(Len(log))
      <3>1. LogState(b)' = LogState(b)
        BY <1>7, SameLogState
      <3>2. QED  BY <1>7, <3>1 DEF HeldAfter
    <2>2. LogState(Base)' = LogState(b)'
      BY <1>11 DEF LogState, HeldAfter, RiseAt, Rises
    <2>3. history.last_coordinate =
             IF Len(log) = 0 THEN <<>> ELSE <<Coordinate(log[Len(log)])>>
      BY <1>1 DEF HistoryInv
    <2>4. history'.causal_base = LogState(Base)'
      BY <1>10, <2>1, <2>2
    <2>5. history'.current_held = HeldAfter(Len(log))'
      BY <1>10, <2>1
    <2>6. Base' \in 0 .. Len(log')
      BY <1>7, <1>10, <1>11
    <2>7. QED  BY <1>7, <1>10, <1>11, <2>3, <2>4, <2>5, <2>6 DEF HistoryInv
  <1>14. FrontierInv'
    <2>1. /\ next_delivery_sequence' \in Nat /\ boundary_index' \in Int
          /\ committed_frontier' \in Seq([time: Int, sequence: Nat])
          /\ Len(committed_frontier') <= 1 /\ committed_frontier' # <<>>
          /\ committed_frontier'[1].time = T
      <3>1. boundary_index' \in Int
        BY <1>1, <1>7 DEF FrontierInv
      <3>2. QED  BY <1>5, <1>6, <1>7, <3>1
    <2>2. T <= NextBoundary'
      <3>1. PICK q : q = Quantum
        OBVIOUS
      <3>2. q \in Nat /\ boundary_index \in Int
        BY <1>1, <3>1 DEF FrontierInv
      <3>3. /\ NextBoundary = (boundary_index + 1) * q
            /\ NextBoundary' = (boundary_index' + 1) * q
        BY <3>1 DEF NextBoundary
      <3>4. CASE boundary_index' = boundary_index
        BY <1>6, <3>3, <3>4
      <3>5. CASE boundary_index' = boundary_index + 1
        <4>1. ((boundary_index + 1) + 1) * q = (boundary_index + 1) * q + q
          BY <3>2
        <4>2. NextBoundary' = NextBoundary + q
          BY <3>3, <3>5, <4>1
        <4>3. QED  BY <1>6, <3>2, <4>2
      <3>6. QED  BY <1>7, <3>4, <3>5
    <2>3. b > 0 => log[b].time < T - PairedLookback
      <3>1. CASE b = Base
        BY <1>1, <1>6, <3>1, BehindLookback
      <3>2. QED  BY <1>10, <3>1
    <2>4. ASSUME NEW i \in b + 1 .. Len(log),
                 log[i].eligible /\ log[i].sequence >= NextDelivery(s)
          PROVE  log[i].time >= T
      <3>1. i \in Base + 1 .. Len(log)
        BY <1>10, <1>11
      <3>2. QED  BY <1>6, <2>4, <3>1 DEF PendingFrom
    <2>5. QED  BY <1>7, <1>11, <2>1, <2>2, <2>3, <2>4 DEF FrontierInv
  <1>15. ScopeInv'
    BY <1>7 DEF ScopeInv
  <1>16. QED  BY <1>12, <1>13, <1>14, <1>15 DEF ReplayInv

(* Every step keeps the invariant.                                         *)
THEOREM ReplayInvariant == Spec => []ReplayInv
  <1>1. ASSUME ReplayInv, [Next]_vars PROVE ReplayInv'
    <2>1. ASSUME NEW held \in SUBSET Controls, NEW time \in ObservedTimes,
                 Observe(held, time)
          PROVE  ReplayInv'
      BY <1>1, <2>1, ObserveKeeps
    <2>2. CASE DropOverload
      BY <1>1, <2>2, DropKeeps
    <2>3. CASE BeginEvent \/ BeginHeartbeat
      BY <1>1, <2>3, BeginKeeps
    <2>4. CASE CommitScope
      BY <1>1, <2>4, CommitKeeps
    <2>5. CASE UNCHANGED vars
      <3>1. LogInv' /\ HistoryInv' /\ FrontierInv'
        BY <1>1, <2>5, SameKeeps DEF ReplayInv, vars
      <3>2. ScopeInv'
        BY <1>1, <2>5 DEF ReplayInv, ScopeInv, vars, Pending, NextBoundary,
                          EventScope, HeartbeatScope, PrefixEnd
      <3>3. QED  BY <3>1, <3>2 DEF ReplayInv
    <2>6. QED  BY <1>1, <2>1, <2>2, <2>3, <2>4, <2>5, Zenon DEF Next
  <1>2. QED  BY <1>1, InitReplay, PTL DEF Spec

-----------------------------------------------------------------------------
(* The queries of a scope, one kind after the other.                       *)
LEMMA EventAt ==
    ASSUME LogInv, HistoryInv, NEW s, NEW k \in Nat, IsEvent(s, k)
    PROVE  /\ k \in 1 .. Len(log) /\ k - 1 \in Nat /\ (k - 1) + 1 = k
           /\ Base \in Nat /\ Base < k
           /\ s.kind = "event" /\ s.coordinate = Coordinate(log[k])
           /\ s.coordinate.time = log[k].time /\ s.coordinate.sequence = k - 1
           /\ log[k].time \in Int /\ log[k].sequence = k - 1 /\ log[k].eligible
           /\ log[k].held_before = HeldAfter(k - 1) /\ log[k].held_after = HeldAfter(k)
           /\ s.held_before = HeldAfter(k - 1) /\ s.held_after = HeldAfter(k)
           /\ s.rising = Rising(log[k]) /\ s.falling = Falling(log[k])
           /\ s.prefix_end = k
  <1>1. /\ k \in 1 .. Len(log) /\ k - 1 \in Nat /\ (k - 1) + 1 = k
        /\ Base \in Nat /\ Base < k
    BY RetainedFacts DEF IsEvent
  <1>2. /\ log[k].time \in Int /\ log[k].sequence = k - 1
        /\ log[k].held_before = HeldAfter(k - 1) /\ log[k].held_after = HeldAfter(k)
    BY <1>1, LogFacts
  <1>3. /\ s.kind = "event" /\ s.coordinate = Coordinate(log[k]) /\ log[k].eligible
        /\ s.held_before = HeldAfter(k - 1) /\ s.held_after = HeldAfter(k)
        /\ s.rising = Rising(log[k]) /\ s.falling = Falling(log[k])
        /\ s.prefix_end = k
    BY Zenon DEF IsEvent
  <1>4. s.coordinate.time = log[k].time /\ s.coordinate.sequence = k - 1
    BY <1>2, <1>3 DEF Coordinate
  <1>5. QED  BY <1>1, <1>2, <1>3, <1>4

LEMMA EventResolved ==
    ASSUME LogInv, HistoryInv, NEW s, NEW k \in Nat, IsEvent(s, k)
    PROVE  EventIsRetained(history, s)
  <1>1. /\ k \in 1 .. Len(log) /\ (k - 1) + 1 = k /\ Base \in Nat /\ Base < k
        /\ s.coordinate.time = log[k].time /\ s.coordinate.sequence = k - 1
        /\ log[k].sequence = k - 1 /\ log[k].eligible
        /\ log[k].held_before = s.held_before /\ log[k].held_after = s.held_after
        /\ s.rising = Rising(log[k]) /\ s.falling = Falling(log[k])
        /\ s.prefix_end = k
    BY EventAt
  <1> DEFINE i == k - Base
  <1>2. i \in 1 .. Len(log) - Base /\ Base + i = k
    BY <1>1, RetainedFacts
  <1>3. i \in DOMAIN history.entries /\ history.entries[i] = log[k]
    BY <1>2, RetainedFacts
  <1> HIDE DEF i
  <1>4. i \in FindResolvedTransition(history, s.coordinate.sequence)
    BY <1>1, <1>3 DEF FindResolvedTransition
  <1>5. QED  BY <1>1, <1>3, <1>4 DEF EventIsRetained

LEMMA ScopeResolved ==
    ASSUME LogInv, HistoryInv, NEW s, Executes(s)
    PROVE  IsResolved(history, s)
  <1>1. ASSUME NEW k \in Nat, IsEvent(s, k)
        PROVE  IsResolved(history, s)
    BY <1>1, EventResolved, EventAt DEF IsResolved
  <1>2. ASSUME IsHeartbeat(s)
        PROVE  IsResolved(history, s)
    BY <1>2 DEF IsHeartbeat, IsResolved, HeartbeatHolds
  <1>3. QED  BY <1>1, <1>2 DEF Executes

LEMMA BackIs ==
    ASSUME NEW back \in Backs
    PROVE  /\ back * Quantum \in Nat /\ back * Quantum <= PairedLookback
           /\ back \notin {0, 4} => back * Quantum + Quantum <= PairedLookback
  <1>1. PICK q : q = Quantum
    OBVIOUS
  <1>2. q \in Nat /\ PairedLookback = 4 * q
    BY <1>1, LookbackIs
  <1>3. back \in {0, 1, 2, 3, 4}
    OBVIOUS
  <1>4. /\ back * q \in Nat /\ back * q <= 4 * q
        /\ back \notin {0, 4} => back * q + q <= 4 * q
    BY ONLY <1>2, <1>3
  <1>5. QED  BY <1>1, <1>2, <1>4

LEMMA FrameReaches ==
    ASSUME LogInv, HistoryInv, NEW s, Executes(s), NEW back \in Backs
    PROVE  Reaches(TranslateRequestedFrame(s, back), s.prefix_end)
  <1>1. back * Quantum \in Nat /\ back * Quantum <= PairedLookback
    BY BackIs
  <1>2. Reaches(s.coordinate.time - back * Quantum, s.prefix_end)
    BY <1>1, ReachesBack DEF Executes
  <1>3. QED  BY <1>2, Zenon DEF TranslateRequestedFrame

LEMMA HeldAnswer ==
    ASSUME LogInv, HistoryInv, NEW s, Executes(s), NEW back \in Backs
    PROVE  LET held == HeldByLog(TranslateRequestedFrame(s, back), s.prefix_end)
           IN /\ \A control \in Controls :
                    Answer(history, s, Ask("held", Single(control), back))
                       = Answered(control \in held)
              /\ Answer(history, s, Ask("direction", 2, back))
                    = Answered(EitherDirection(held))
  <1> DEFINE t == TranslateRequestedFrame(s, back)
             held == HeldByLog(t, s.prefix_end)
  <1>1. PICK n \in Nat : /\ StateAt(history, t, s.prefix_end) = <<LogState(n)>>
                         /\ OrdinaryHeldAt(history, t, s.prefix_end) = <<HeldAfter(n)>>
                         /\ held = HeldAfter(n)
    BY FrameReaches, HeldAtLog
  <1>2. ASSUME NEW control \in Controls
        PROVE  Answer(history, s, Ask("held", Single(control), back))
                  = Answered(control \in held)
    <2> DEFINE logical == Single(control)
               state == StateAt(history, t, s.prefix_end)
    <2>1. Answer(history, s, Ask("held", logical, back))
             = FromHistory(HeldAt(history, logical, t, s.prefix_end))
      <3> HIDE DEF logical
      <3>1. Answer(history, s, Ask("held", logical, back))
               = QueryHeld(history, s, logical, back)
        BY DEF Answer, Ask
      <3>2. QED  BY <3>1, Zenon DEF QueryHeld
    <2>2. HeldAt(history, logical, t, s.prefix_end) = <<control \in held>>
      <3>1. HeldAt(history, logical, t, s.prefix_end)
               = [i \in DOMAIN state |-> LogicalHeld(state[i].held, logical)]
        BY Zenon DEF HeldAt
      <3>2. DOMAIN state = {1} /\ state[1].held = held
        BY <1>1 DEF LogState
      <3>3. LogicalHeld(held, logical) = (control \in held)
        BY DEF LogicalHeld, Single
      <3> HIDE DEF state, held, logical
      <3>4. [i \in DOMAIN state |-> LogicalHeld(state[i].held, logical)]
               = [i \in {1} |-> control \in held]
        BY <3>2, <3>3
      <3>5. [i \in {1} |-> control \in held] = <<control \in held>>
        OBVIOUS
      <3>6. QED  BY <3>1, <3>4, <3>5, Zenon
    <2>3. FromHistory(<<control \in held>>) = Answered(control \in held)
      <3> HIDE DEF held
      <3>1. <<control \in held>> # <<>> /\ <<control \in held>>[1] = (control \in held)
        OBVIOUS
      <3>2. QED  BY <3>1 DEF FromHistory
    <2>4. QED  BY <2>1, <2>2, <2>3, Zenon
  <1>3. Answer(history, s, Ask("direction", 2, back))
           = Answered(EitherDirection(held))
    <2> DEFINE state == OrdinaryHeldAt(history, t, s.prefix_end)
    <2>1. Answer(history, s, Ask("direction", 2, back))
             = QueryDirection(history, s, 2, back)
      BY DEF Answer, Ask
    <2>2. state # <<>> /\ state[1] = held
      BY <1>1
    <2>3. QueryDirection(history, s, 2, back)
             = IF state = <<>> THEN Failure("HistoryLost")
               ELSE Answered(DirectionOf(2, LAMBDA logical :
                                               LogicalHeld(state[1], logical)))
      BY Zenon DEF QueryDirection
    <2> HIDE DEF state, held
    <2>4. DirectionOf(2, LAMBDA logical : LogicalHeld(state[1], logical))
             = DirectionOf(2, LAMBDA logical : LogicalHeld(held, logical))
      BY <2>2 DEF DirectionOf
    <2>5. QED  BY <2>1, <2>2, <2>3, <2>4 DEF EitherDirection
  <1>4. QED  BY <1>2, <1>3

(* What is pruned is too old to be combined with, or to lie in a frame.    *)
LEMMA WholeIs ==
    ASSUME HistoryInv
    PROVE  /\ Whole.entries = log /\ Whole.causal_time_floor = <<>>
           /\ Whole.base_next_sequence = 0 /\ Whole.next_sequence = Len(log)
  BY DEF HistoryInv, HistoryFields, Whole

LEMMA RetainedOrOld ==
    ASSUME LogInv, HistoryInv, NEW s, Executes(s)
    PROVE  /\ \A i \in DOMAIN history.entries :
                 \E j \in DOMAIN log : history.entries[i] = log[j]
           /\ \A j \in DOMAIN log :
                 \/ \E i \in DOMAIN history.entries : history.entries[i] = log[j]
                 \/ /\ log[j].time < s.coordinate.time - PairedLookback
                    /\ log[j].time \in Int
  <1>1. /\ Base \in Nat /\ Len(log) \in Nat /\ Base <= Len(log)
        /\ DOMAIN log = 1 .. Len(log)
        /\ DOMAIN history.entries = 1 .. Len(log) - Base
    BY RetainedFacts, LogFacts
  <1>2. ASSUME NEW i \in DOMAIN history.entries
        PROVE  \E j \in DOMAIN log : history.entries[i] = log[j]
    BY <1>1, RetainedFacts
  <1>3. ASSUME NEW j \in DOMAIN log
        PROVE  \/ \E i \in DOMAIN history.entries : history.entries[i] = log[j]
               \/ /\ log[j].time < s.coordinate.time - PairedLookback
                  /\ log[j].time \in Int
    <2>1. CASE j > Base
      <3>1. j - Base \in 1 .. Len(log) - Base /\ Base + (j - Base) = j
        BY <1>1, <2>1
      <3>2. history.entries[j - Base] = log[j]
        BY <3>1, RetainedFacts
      <3>3. QED  BY <1>1, <3>1, <3>2
    <2>2. CASE ~(j > Base)
      <3> DEFINE T == s.coordinate.time
                 x == log[j].time
                 y == log[Base].time
      <3>1. j \in 1 .. Len(log) /\ Base \in 1 .. Len(log) /\ j <= Base /\ Base > 0
        BY <1>1, <2>2
      <3>2. x <= y /\ x \in Int /\ y \in Int
        BY <3>1, LogFacts DEF LogInv
      <3>3. y < T - PairedLookback /\ T \in Int
        BY <3>1 DEF Executes, InReach
      <3> HIDE DEF x, y, T
      <3>4. x < T - PairedLookback
        BY ONLY <3>2, <3>3, LookbackIs
      <3>5. QED  BY <3>2, <3>4 DEF x, T
    <2>3. QED  BY <2>1, <2>2
  <1>4. QED  BY <1>2, <1>3

LEMMA PriorEdgeSame ==
    ASSUME LogInv, HistoryInv, NEW s, Executes(s), NEW control, NEW rising
    PROVE  HasPriorEdge(history, control, s.coordinate, rising)
              = HasPriorEdge(Whole, control, s.coordinate, rising)
  <1> DEFINE Is(e) == /\ e.eligible
                      /\ e.sequence < s.coordinate.sequence
                      /\ e.time \in s.coordinate.time - PairedLookback
                                       .. s.coordinate.time
                      /\ control \in EdgesOf(e, rising)
  <1>1. HasPriorEdge(history, control, s.coordinate, rising)
           = \E i \in DOMAIN history.entries : Is(history.entries[i])
    BY Zenon DEF HasPriorEdge
  <1>2. HasPriorEdge(Whole, control, s.coordinate, rising)
           = \E j \in DOMAIN log : Is(log[j])
    <2>1. HasPriorEdge(Whole, control, s.coordinate, rising)
             = \E j \in DOMAIN Whole.entries : Is(Whole.entries[j])
      BY Zenon DEF HasPriorEdge
    <2>2. Whole.entries = log
      BY WholeIs
    <2> HIDE DEF Is
    <2>3. QED  BY <2>1, <2>2
  <1>3. ASSUME NEW e, e.time < s.coordinate.time - PairedLookback, e.time \in Int
        PROVE  ~Is(e)
    <2>1. s.coordinate.time \in Int
      BY DEF Executes, InReach
    <2>2. PICK x : x = e.time
      OBVIOUS
    <2>3. x \notin s.coordinate.time - PairedLookback .. s.coordinate.time
      BY <1>3, <2>1, <2>2, LookbackIs
    <2>4. QED  BY <2>2, <2>3
  <1> HIDE DEF Is
  <1>4. (\E i \in DOMAIN history.entries : Is(history.entries[i]))
           <=> (\E j \in DOMAIN log : Is(log[j]))
    <2>1. ASSUME NEW i \in DOMAIN history.entries, Is(history.entries[i])
          PROVE  \E j \in DOMAIN log : Is(log[j])
      <3>1. PICK j \in DOMAIN log : history.entries[i] = log[j]
        BY RetainedOrOld
      <3>2. Is(log[j])
        BY <2>1, <3>1
      <3>3. QED  BY <3>2
    <2>2. ASSUME NEW j \in DOMAIN log, Is(log[j])
          PROVE  \E i \in DOMAIN history.entries : Is(history.entries[i])
      <3>1. ~(log[j].time < s.coordinate.time - PairedLookback /\ log[j].time \in Int)
        BY <1>3, <2>2
      <3>2. PICK i \in DOMAIN history.entries : history.entries[i] = log[j]
        BY <3>1, RetainedOrOld
      <3>3. Is(history.entries[i])
        BY <2>2, <3>2
      <3>4. QED  BY <3>3
    <2>3. QED  BY <2>1, <2>2
  <1>5. QED  BY <1>1, <1>2, <1>4

LEMMA EdgeSame ==
    ASSUME LogInv, HistoryInv, NEW s, Executes(s), NEW logical, NEW edges, NEW rising
    PROVE  LogicalEdge(history, logical, s.coordinate, edges, rising)
              = LogicalEdge(Whole, logical, s.coordinate, edges, rising)
  <1>1. \A control : HasPriorEdge(history, control, s.coordinate, rising)
                        = HasPriorEdge(Whole, control, s.coordinate, rising)
    BY PriorEdgeSame
  <1>2. QED  BY <1>1 DEF LogicalEdge

LEMMA EdgesAnswer ==
    ASSUME LogInv, HistoryInv, NEW s, Executes(s), NEW logical,
           NEW kind \in {"pressed", "released"}
    PROVE  Answer(history, s, Ask(kind, logical, 0))
              = Answer(Whole, s, Ask(kind, logical, 0))
  <1>1. CASE kind = "pressed"
    <2>1. \A h : Answer(h, s, Ask("pressed", logical, 0))
                    = Answered(Pressed(h, logical, s))
      BY DEF Answer, Ask, QueryPressed
    <2>2. Pressed(history, logical, s) = Pressed(Whole, logical, s)
      BY EdgeSame DEF Pressed
    <2>3. QED  BY <1>1, <2>1, <2>2
  <1>2. CASE kind = "released"
    <2>1. \A h : Answer(h, s, Ask("released", logical, 0))
                    = Answered(Released(h, logical, s))
      BY DEF Answer, Ask, QueryReleased
    <2>2. Released(history, logical, s) = Released(Whole, logical, s)
      BY EdgeSame DEF Released
    <2>3. QED  BY <1>2, <2>1, <2>2
  <1>3. QED  BY <1>1, <1>2

LEMMA EarlierAnswer ==
    ASSUME LogInv, HistoryInv, NEW s, Executes(s), NEW back \in Backs \ {0, 4},
           NEW logical \in Logical(Controls), logical.kind # "both"
    PROVE  Answer(history, s, Ask("released", logical, back))
              = Answer(Whole, s, Ask("released", logical, back))
  <1> DEFINE t == TranslateRequestedFrame(s, back)
             P == s.prefix_end
             start == t - Quantum
             Is(e) == /\ e.eligible
                      /\ e.sequence < P
                      /\ start < e.time /\ e.time <= t
                      /\ LogicalEdge(Whole, logical, Coordinate(e), Falling(e), FALSE)
  <1>1. \A h : Answer(h, s, Ask("released", logical, back))
                  = Answered(ReleasedInWindow(h, logical, t, P))
    BY DEF Answer, Ask, QueryReleased
  <1>2. \A e : LogicalEdge(history, logical, Coordinate(e), Falling(e), FALSE)
                  = LogicalEdge(Whole, logical, Coordinate(e), Falling(e), FALSE)
    <2>1. logical.kind \in {"single", "either"}
      BY DEF Logical, Single
    <2>2. QED  BY <2>1 DEF LogicalEdge
  <1>3. /\ s.coordinate.time \in Int /\ t \in Int /\ start \in Int
        /\ s.coordinate.time - PairedLookback <= start
        /\ P \in Nat /\ Base <= P /\ P <= Len(log)
        /\ Base > 0 => log[Base].time < s.coordinate.time - PairedLookback
    <2>1. PICK q : q = Quantum
      OBVIOUS
    <2>2. PICK x : x = back * Quantum
      OBVIOUS
    <2>3. q \in Nat /\ x \in Nat /\ x + q <= PairedLookback
      BY <2>1, <2>2, BackIs, LookbackIs
    <2>4. /\ s.coordinate.time \in Int /\ P \in Nat /\ Base <= P /\ P <= Len(log)
          /\ Base > 0 => log[Base].time < s.coordinate.time - PairedLookback
      BY DEF Executes, InReach
    <2>5. t = s.coordinate.time - x /\ start = t - q
      BY <2>1, <2>2 DEF TranslateRequestedFrame
    <2> HIDE DEF t, start, P
    <2>6. PICK T : T = s.coordinate.time
      OBVIOUS
    <2>7. T \in Int /\ t = T - x /\ start = t - q
      BY <2>4, <2>5, <2>6
    <2>8. t \in Int /\ start \in Int /\ T - PairedLookback <= start
      BY ONLY <2>3, <2>7, LookbackIs
    <2>9. QED  BY <2>4, <2>6, <2>8
  <1>4. ASSUME NEW e, e.time < s.coordinate.time - PairedLookback, e.time \in Int
        PROVE  ~Is(e)
    <2> HIDE DEF t, start, P
    <2>1. ~(start < e.time)
      BY <1>3, <1>4, LookbackIs
    <2>2. QED  BY <2>1
  <1>5. ReleasedInWindow(history, logical, t, P)
           = \E i \in DOMAIN history.entries : Is(history.entries[i])
    <2>1. CanPrune(history, P)
      <3>1. P \in Nat /\ Base <= P /\ P <= Len(log) /\ Base \in Nat
        BY <1>3, RetainedFacts
      <3>2. history.next_sequence = Len(log)
        BY DEF HistoryInv
      <3> HIDE DEF P
      <3>3. QED  BY <3>1, <3>2 DEF CanPrune, Base
    <2>2. \A i \in DOMAIN history.causal_time_floor :
             start >= history.causal_time_floor[i]
      <3>1. CASE Base = 0
        BY <3>1 DEF HistoryInv
      <3>2. CASE Base # 0
        <4>1. history.causal_time_floor = <<log[Base].time>>
          BY <3>2 DEF HistoryInv
        <4>2. PICK b : b = log[Base].time
          OBVIOUS
        <4>3. Base \in 1 .. Len(log) /\ Base > 0
          BY <3>2, RetainedFacts
        <4>4. b \in Int
          BY <4>2, <4>3, LogFacts
        <4>5. b < s.coordinate.time - PairedLookback
          BY <1>3, <4>2, <4>3
        <4> HIDE DEF start
        <4>6. start >= b
          BY <1>3, <4>4, <4>5, LookbackIs
        <4>7. QED  BY <4>1, <4>2, <4>6
      <3>3. QED  BY <3>1, <3>2
    <2>3. ReleasedInWindow(history, logical, t, P)
             = /\ CanPrune(history, P)
               /\ \A i \in DOMAIN history.causal_time_floor :
                     start >= history.causal_time_floor[i]
               /\ \E i \in DOMAIN history.entries :
                     LET entry == history.entries[i]
                     IN /\ entry.eligible
                        /\ entry.sequence < P
                        /\ start < entry.time /\ entry.time <= t
                        /\ LogicalEdge(history, logical, Coordinate(entry),
                                       Falling(entry), FALSE)
      BY Zenon DEF ReleasedInWindow
    <2> HIDE DEF t, P, start
    <2>4. QED  BY <1>2, <2>1, <2>2, <2>3
  <1>6. ReleasedInWindow(Whole, logical, t, P) = \E j \in DOMAIN log : Is(log[j])
    <2>1. CanPrune(Whole, P)
      <3>1. P \in 0 .. Len(log)
        BY <1>3, LogFacts
      <3>2. QED  BY <3>1, WholeIs DEF CanPrune
    <2>2. DOMAIN Whole.causal_time_floor = {} /\ Whole.entries = log
      BY WholeIs
    <2>3. ReleasedInWindow(Whole, logical, t, P)
             = /\ CanPrune(Whole, P)
               /\ \A i \in DOMAIN Whole.causal_time_floor :
                     start >= Whole.causal_time_floor[i]
               /\ \E i \in DOMAIN Whole.entries : Is(Whole.entries[i])
      BY Zenon DEF ReleasedInWindow
    <2> HIDE DEF t, P, start, Is
    <2>4. QED  BY <2>1, <2>2, <2>3
  <1> HIDE DEF Is, t, P, start
  <1>7. (\E i \in DOMAIN history.entries : Is(history.entries[i]))
           <=> (\E j \in DOMAIN log : Is(log[j]))
    <2>1. ASSUME NEW i \in DOMAIN history.entries, Is(history.entries[i])
          PROVE  \E j \in DOMAIN log : Is(log[j])
      <3>1. PICK j \in DOMAIN log : history.entries[i] = log[j]
        BY RetainedOrOld
      <3>2. Is(log[j])
        BY <2>1, <3>1
      <3>3. QED  BY <3>2
    <2>2. ASSUME NEW j \in DOMAIN log, Is(log[j])
          PROVE  \E i \in DOMAIN history.entries : Is(history.entries[i])
      <3>1. ~(log[j].time < s.coordinate.time - PairedLookback /\ log[j].time \in Int)
        BY <1>4, <2>2
      <3>2. PICK i \in DOMAIN history.entries : history.entries[i] = log[j]
        BY <3>1, RetainedOrOld
      <3>3. Is(history.entries[i])
        BY <2>2, <3>2
      <3>4. QED  BY <3>3
    <2>3. QED  BY <2>1, <2>2
  <1>8. QED  BY <1>1, <1>5, <1>6, <1>7

LEMMA FromHistoryIs ==
    ASSUME NEW x PROVE FromHistory(<<x>>) = Answered(x)
  <1>1. <<x>> # <<>> /\ <<x>>[1] = x
    OBVIOUS
  <1>2. QED  BY <1>1 DEF FromHistory

(* An event starts from what the entries before it leave held.             *)
LEMMA EventStart ==
    ASSUME LogInv, HistoryInv, NEW s, Executes(s), s.kind = "event"
    PROVE  OrdinaryHeldAt(history, s.coordinate.time, s.coordinate.sequence)
              = <<s.held_before>>
  <1>1. PICK k \in Nat : IsEvent(s, k)
    BY DEF Executes, IsHeartbeat
  <1>2. /\ k \in 1 .. Len(log) /\ k - 1 \in Nat /\ (k - 1) + 1 = k
        /\ Base \in Nat /\ Base < k
        /\ s.coordinate.time = log[k].time /\ s.coordinate.sequence = k - 1
        /\ log[k].time \in Int /\ s.held_before = HeldAfter(k - 1)
    BY <1>1, EventAt
  <1>3. Len(log) \in Nat
    BY LogFacts
  <1>4. Reaches(log[k].time, k - 1)
    <2>1. Base <= k - 1 /\ k - 1 <= Len(log)
      BY <1>2, <1>3
    <2>2. Base > 0 => log[Base].time <= log[k].time
      <3>1. Base > 0 => Base \in 1 .. Len(log) /\ Base <= k
        BY <1>2, <1>3
      <3>2. QED  BY <1>2, <3>1 DEF LogInv
    <2>3. QED  BY <1>2, <2>1, <2>2 DEF Reaches
  <1>5. PICK n \in Nat :
          /\ Before(log[k].time, k - 1) = 1 .. n
          /\ OrdinaryHeldAt(history, log[k].time, k - 1) = <<HeldAfter(n)>>
    BY <1>4, HeldAtLog
  <1>6. Before(log[k].time, k - 1) = 1 .. k - 1
    <2>1. ASSUME NEW i \in 1 .. Len(log)
          PROVE  (log[i].sequence < k - 1 /\ log[i].time <= log[k].time)
                    <=> i <= k - 1
      <3>1. log[i].sequence = i - 1
        BY LogFacts
      <3>2. i <= k - 1 => log[i].time <= log[k].time
        BY <1>2 DEF LogInv
      <3>3. (i - 1 < k - 1) <=> (i <= k - 1)
        BY <1>2
      <3>4. QED  BY <3>1, <3>2, <3>3
    <2>2. DOMAIN log = 1 .. Len(log)
      BY LogFacts
    <2>3. \A i \in 1 .. k - 1 : i \in 1 .. Len(log) /\ i <= k - 1
      BY <1>2, <1>3
    <2>4. \A i \in 1 .. Len(log) : i <= k - 1 => i \in 1 .. k - 1
      BY <1>2, <1>3
    <2>5. QED  BY <2>1, <2>2, <2>3, <2>4 DEF Before
  <1>7. n = k - 1
    BY <1>2, <1>5, <1>6, SegmentsEqual
  <1>8. QED  BY <1>2, <1>5, <1>7

(* The newest rise of a control before a query is the one in the base, or  *)
(* a retained one: what the log says of it, the replayed state says.       *)
LEMMA AgeAnswer ==
    ASSUME LogInv, HistoryInv, NEW s, Executes(s), NEW logical \in Logical(Controls)
    PROVE  Answer(history, s, Ask("held_age", logical, 0))
              = Answered(AgeByLog(logical, s))
  <1> DEFINE T == s.coordinate.time
             P == s.prefix_end
             age(rise) == 1 + (T - rise.time) \div Quantum
             atRise == /\ s.kind = "event"
                       /\ ~LogicalHeld(s.held_before, logical)
                       /\ LogicalHeld(s.held_after, logical)
  <1>1. T \in Int /\ P \in Nat
    BY DEF Executes, InReach
  <1>2. Reaches(T, P)
    <2>1. 0 \in Nat /\ 0 <= PairedLookback /\ InReach(s)
      BY LookbackIs DEF Executes
    <2>2. Reaches(T - 0, P)
      BY <2>1, ReachesBack, Zenon
    <2>3. T - 0 = T
      BY <1>1
    <2>4. QED  BY <2>2, <2>3, Zenon
  <1>3. PICK n \in Nat : /\ n <= P /\ Before(T, P) = 1 .. n
                         /\ StateAt(history, T, P) = <<LogState(n)>>
                         /\ HeldByLog(T, P) = HeldAfter(n)
    BY <1>2, HeldAtLog
  <1>4. PICK held : held = LogicalHeld(HeldAfter(n), logical)
    OBVIOUS
  <1>5. PICK rises : rises = Rises(n, logical)
    OBVIOUS
  <1>6. RisesByLog(logical, s) = rises
    BY <1>3, <1>5 DEF RisesByLog, Rises
  <1>7. PICK newest : newest = Sets!Max(rises)
    OBVIOUS
  <1>8. AgeByLog(logical, s) =
          IF ~LogicalHeld(HeldAfter(n), logical) THEN 0
          ELSE IF rises = {} THEN 5
          ELSE IF ~log[newest].eligible THEN 5
          ELSE IF log[newest].sequence = s.coordinate.sequence THEN 1
          ELSE IF age(log[newest]) < 2 THEN 2 ELSE age(log[newest])
    <2>1. AgeByLog(logical, s) =
            LET r    == RisesByLog(logical, s)
                rise == log[Sets!Max(r)]
                h    == HeldByLog(T, P)
                a    == 1 + (T - rise.time) \div Quantum
            IN IF ~LogicalHeld(h, logical) THEN 0
               ELSE IF r = {} THEN 5
               ELSE IF ~rise.eligible THEN 5
               ELSE IF rise.sequence = s.coordinate.sequence THEN 1
               ELSE IF a < 2 THEN 2 ELSE a
      BY Zenon DEF AgeByLog
    <2>2. QED  BY <1>3, <1>6, <1>7, <2>1, Zenon
  <1>9. PICK rise : rise = RiseAt(n, logical)
    OBVIOUS
  <1>10. HeldAge(history, logical, s) =
           IF ~LogicalHeld(HeldAfter(n), logical) THEN <<0>>
           ELSE IF atRise THEN <<1>>
           ELSE IF rise.kind # "accepted" THEN <<5>>
           ELSE IF rise.sequence >= P \/ rise.time > T THEN <<>>
           ELSE <<IF age(rise) < 2 THEN 2 ELSE age(rise)>>
    <2> DEFINE state == StateAt(history, T, P)
    <2>1. HeldAge(history, logical, s) =
            IF state = <<>> THEN <<>>
            ELSE IF ~LogicalHeld(state[1].held, logical) THEN <<0>>
            ELSE IF atRise THEN <<1>>
            ELSE IF state[1].rises[logical].kind # "accepted" THEN <<5>>
            ELSE IF \/ state[1].rises[logical].sequence >= P
                    \/ state[1].rises[logical].time > T THEN <<>>
            ELSE <<IF age(state[1].rises[logical]) < 2 THEN 2
                                                       ELSE age(state[1].rises[logical])>>
      BY Zenon DEF HeldAge
    <2>2. /\ state # <<>> /\ state[1].held = HeldAfter(n)
          /\ state[1].rises[logical] = rise
      BY <1>3, <1>9 DEF LogState
    <2> HIDE DEF state, age, atRise, T, P
    <2>3. QED  BY <2>1, <2>2, Zenon
  <1>11. Answer(history, s, Ask("held_age", logical, 0))
            = FromHistory(HeldAge(history, logical, s))
    BY DEF Answer, Ask, QueryHeldAge
  <1>12. rises \subseteq 1 .. n /\ (rises # {} => newest \in rises)
    <2>1. rises \subseteq 1 .. n
      BY <1>5 DEF Rises
    <2>2. QED  BY <1>7, <2>1, MaxIsGreatest
  <1>13. rise = IF ~LogicalHeld(HeldAfter(n), logical) THEN NoRise
                ELSE IF rises = {} THEN StaleRise
                ELSE IF log[newest].eligible THEN AcceptedRise(log[newest])
                                             ELSE StaleRise
    BY <1>5, <1>7, <1>9, Zenon DEF RiseAt, NewestRise
  <1>14. ASSUME NEW k \in Nat, IsEvent(s, k)
         PROVE  /\ n = k /\ s.coordinate.sequence = k - 1 /\ s.kind = "event"
                /\ k \in 1 .. Len(log) /\ log[k].eligible /\ log[k].sequence = k - 1
                /\ log[k].held_before = s.held_before
                /\ log[k].held_after = s.held_after
    <2>1. /\ k \in 1 .. Len(log) /\ P = k /\ T = log[k].time
          /\ log[k].sequence = k - 1 /\ log[k].eligible /\ s.kind = "event"
          /\ s.coordinate.sequence = k - 1 /\ k - 1 \in Nat
          /\ log[k].held_before = s.held_before /\ log[k].held_after = s.held_after
      BY <1>14, EventAt
    <2>2. k \in Before(T, P)
      <3>1. log[k].time <= T
        BY <1>1, <2>1
      <3>2. log[k].sequence < P
        BY <2>1
      <3>3. QED  BY <2>1, <3>1, <3>2, LogFacts DEF Before
    <2>3. n = k
      <3>1. k \in 1 .. n /\ n <= k
        BY <1>3, <2>1, <2>2
      <3>2. QED  BY ONLY <3>1, n \in Nat, k \in Nat
    <2>4. QED  BY <2>1, <2>3
  <1>15. CASE ~LogicalHeld(HeldAfter(n), logical)
    <2>1. HeldAge(history, logical, s) = <<0>> /\ AgeByLog(logical, s) = 0
      BY <1>8, <1>10, <1>15, Zenon
    <2>2. QED  BY <1>11, <2>1, FromHistoryIs
  <1>16. CASE LogicalHeld(HeldAfter(n), logical) /\ atRise
    <2>1. PICK k \in Nat : IsEvent(s, k)
      BY <1>16 DEF Executes, IsHeartbeat
    <2>2. /\ n = k /\ s.coordinate.sequence = k - 1
          /\ k \in 1 .. Len(log) /\ log[k].eligible /\ log[k].sequence = k - 1
          /\ log[k].held_before = s.held_before /\ log[k].held_after = s.held_after
      BY <1>14, <2>1
    <2>3. k \in rises
      <3>1. k \in 1 .. n
        BY <2>2
      <3>2. QED  BY <1>5, <1>16, <2>2, <3>1 DEF Rises
    <2>4. newest = k
      <3>1. rises \subseteq Nat /\ \A y \in rises : y <= k
        BY <1>12, <2>2
      <3>2. QED  BY <1>7, <2>3, <3>1, MaxIs
    <2>5. HeldAge(history, logical, s) = <<1>>
      BY <1>10, <1>16, Zenon
    <2>6. AgeByLog(logical, s) = 1
      <3>1. rises # {} /\ log[newest].eligible
            /\ log[newest].sequence = s.coordinate.sequence
        BY <2>2, <2>3, <2>4
      <3>2. QED  BY <1>8, <1>16, <3>1, Zenon
    <2>7. QED  BY <1>11, <2>5, <2>6, FromHistoryIs
  <1>17. CASE LogicalHeld(HeldAfter(n), logical) /\ ~atRise
              /\ (rises = {} \/ ~log[newest].eligible)
    <2>1. rise = StaleRise
      BY <1>13, <1>17, Zenon
    <2>2. rise.kind # "accepted"
      BY <2>1 DEF StaleRise
    <2>3. HeldAge(history, logical, s) = <<5>>
      BY <1>10, <1>17, <2>2, Zenon
    <2>4. AgeByLog(logical, s) = 5
      BY <1>8, <1>17, Zenon
    <2>5. QED  BY <1>11, <2>3, <2>4, FromHistoryIs
  <1>18. CASE LogicalHeld(HeldAfter(n), logical) /\ ~atRise
              /\ rises # {} /\ log[newest].eligible
    <2>1. rise = AcceptedRise(log[newest])
      BY <1>13, <1>18, Zenon
    <2>2. /\ rise.kind = "accepted" /\ rise.time = log[newest].time
          /\ rise.sequence = log[newest].sequence
      BY <2>1 DEF AcceptedRise
    <2>3. newest \in rises /\ newest \in 1 .. n /\ newest \in Before(T, P)
      BY <1>3, <1>12, <1>18
    <2>4. /\ newest \in 1 .. Len(log) /\ log[newest].sequence < P
          /\ log[newest].time <= T /\ log[newest].sequence = newest - 1
          /\ log[newest].time \in Int
      BY <2>3, LogFacts DEF Before
    <2>5. ~(rise.sequence >= P \/ rise.time > T)
      <3>1. PICK x : x = log[newest].time
        OBVIOUS
      <3>2. PICK y : y = log[newest].sequence
        OBVIOUS
      <3>3. x \in Int /\ x <= T /\ y < P /\ y \in Int
        BY <2>4, <3>1, <3>2
      <3> HIDE DEF T, P
      <3>4. ~(y >= P) /\ ~(x > T)
        BY <1>1, <3>3
      <3>5. QED  BY <2>2, <3>1, <3>2, <3>4
    <2>6. age(rise) = age(log[newest])
      BY <2>2
    <2>7. log[newest].sequence # s.coordinate.sequence
      <3>1. ASSUME NEW k \in Nat, IsEvent(s, k)
            PROVE  log[newest].sequence # s.coordinate.sequence
        <4>1. /\ n = k /\ s.coordinate.sequence = k - 1 /\ s.kind = "event"
              /\ log[k].held_before = s.held_before
              /\ log[k].held_after = s.held_after
          BY <1>14, <3>1
        <4>2. newest # k
          <5>1. /\ ~LogicalHeld(log[newest].held_before, logical)
                /\ LogicalHeld(log[newest].held_after, logical)
            BY <1>5, <2>3 DEF Rises
          <5>2. QED  BY <1>18, <4>1, <5>1
        <4>3. QED  BY <2>4, <4>1, <4>2
      <3>2. ASSUME IsHeartbeat(s)
            PROVE  log[newest].sequence # s.coordinate.sequence
        <4>1. s.coordinate.sequence = MaxEntries + 1
          BY <3>2 DEF IsHeartbeat, NoSequence
        <4>2. Len(log) <= MaxEntries /\ Len(log) \in Nat /\ MaxEntries \in Nat
          BY LogFacts DEF LogInv
        <4>3. newest - 1 # MaxEntries + 1
          BY ONLY <2>4, <4>2
        <4>4. QED  BY <2>4, <4>1, <4>3
      <3>3. QED  BY <3>1, <3>2 DEF Executes
    <2> HIDE DEF age, atRise, T, P
    <2>8. HeldAge(history, logical, s)
             = <<IF age(log[newest]) < 2 THEN 2 ELSE age(log[newest])>>
      BY <1>10, <1>18, <2>2, <2>5, <2>6, Zenon
    <2>9. AgeByLog(logical, s)
             = IF age(log[newest]) < 2 THEN 2 ELSE age(log[newest])
      BY <1>8, <1>18, <2>7, Zenon
    <2>10. QED  BY <1>11, <2>8, <2>9, FromHistoryIs
  <1>19. QED  BY <1>15, <1>16, <1>17, <1>18

-----------------------------------------------------------------------------
(* Pruning, late records and dropped ones are invisible to a scope: it     *)
(* stays resolved, and every query of it is answered from the whole past   *)
(* (QueriesTransparent).                                                   *)
THEOREM QueriesAreTransparent == Spec => []QueriesTransparent
  <1>1. ReplayInv => QueriesTransparent
    <2> SUFFICES ASSUME ReplayInv PROVE QueriesTransparent
      OBVIOUS
    <2>1. LogInv /\ HistoryInv
      BY DEF ReplayInv
    <2>2. ASSUME NEW i \in DOMAIN scope
          PROVE  Executes(scope[i])
      <3>1. CASE scope = <<>>
        BY <3>1
      <3>2. CASE scope # <<>>
        <4>1. PICK s : scope = <<s>> /\ Executes(s)
          BY <3>2, ScopeFacts
        <4>2. scope[i] = s
          BY <4>1
        <4>3. QED  BY <4>1, <4>2
      <3>3. QED  BY <3>1, <3>2
    <2>3. \A i \in DOMAIN scope : IsResolved(history, scope[i])
      BY <2>1, <2>2, ScopeResolved
    <2>4. HeldTransparent
      BY <2>1, <2>2, HeldAnswer DEF HeldTransparent
    <2>5. EdgesTransparent
      BY <2>1, <2>2, EdgesAnswer DEF EdgesTransparent
    <2>6. EarlierReleases
      BY <2>1, <2>2, EarlierAnswer DEF EarlierReleases
    <2>7. EventStartsFromHeldState
      BY <2>1, <2>2, EventStart DEF EventStartsFromHeldState
    <2>8. QED  BY <2>3, <2>4, <2>5, <2>6, <2>7 DEF QueriesTransparent
  <1>2. QED  BY <1>1, ReplayInvariant, PTL

(* A held age counts from the newest accepted rise, pruned or not, and is  *)
(* 5 after one that was not accepted (AgeSinceAcceptedRise).               *)
THEOREM AgesSinceAcceptedRise == Spec => []AgeSinceAcceptedRise
  <1>1. ReplayInv => AgeSinceAcceptedRise
    <2> SUFFICES ASSUME ReplayInv, NEW i \in DOMAIN scope,
                        NEW logical \in Logical(Controls)
                 PROVE  Answer(history, scope[i], Ask("held_age", logical, 0))
                           = Answered(AgeByLog(logical, scope[i]))
      BY DEF AgeSinceAcceptedRise
    <2>1. LogInv /\ HistoryInv
      BY DEF ReplayInv
    <2>2. scope # <<>>
      OBVIOUS
    <2>3. PICK s : scope = <<s>> /\ Executes(s)
      BY <2>2, ScopeFacts
    <2>4. scope[i] = s
      BY <2>3
    <2>5. QED  BY <2>1, <2>3, <2>4, AgeAnswer
  <1>2. QED  BY <1>1, ReplayInvariant, PTL
=============================================================================
