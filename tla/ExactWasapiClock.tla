-------------------------- MODULE ExactWasapiClock --------------------------
(***************************************************************************)
(* The exact clock of the WASAPI output: a ring of anchors (where the      *)
(* endpoint was at which host time, and how much had been submitted) that  *)
(* the audio thread publishes and the game thread reads without a lock.    *)
(* A slot's version is odd while its payload is being stored, and names    *)
(* the publication it holds otherwise; the reader loads it before and      *)
(* after the payload. Every load and store is sequentially consistent, so  *)
(* each is a step.                                                         *)
(*                                                                         *)
(* A position is in the endpoint's own units and counts from the mapping's *)
(* origin; ClockFrequency of them make OutputRate output frames. The unit  *)
(* of host time is one in which the endpoint is meant to move by           *)
(* UnitsPerTick. The anchor's sequence number is the publication number    *)
(* plus one, and its generation and mapping never change while a clock     *)
(* lives.                                                                  *)
(***************************************************************************)
EXTENDS Integers, Sequences

CONSTANTS
    Capacity,       \* capacity_: sixty seconds of periods, and two
    ReadAttempts,   \* kStableReadAttempts (3)
    UnitsPerTick,   \* clock_frequency_ over host clock rate
    ClockFrequency, \* clock_frequency_: endpoint units per second
    OutputRate      \* output_sample_rate_: frames per second

ASSUME ClockAssumption ==
    /\ Capacity \in Nat \ {0}
    /\ ReadAttempts \in Nat \ {0}
    /\ UnitsPerTick \in Nat \ {0}
    /\ ClockFrequency \in Nat \ {0} /\ OutputRate \in Nat \ {0}

VARIABLES
    version, payload,   \* the slots
    published_count,
    invalidated,
    publications,       \* writer_publication_count_
    previous,           \* writer_previous_: <<>> or <<anchor>>
    store,              \* 0, or the writer's next store: field, version, count
    anchors,            \* history: every anchor accepted, oldest first
    step,               \* where ResolveQpc is
    time, published, offset, attempt, field, candidate, selected, oldest,
    unstable,           \* its locals
    answer              \* what it returned last

slotVars   == <<version, payload>>
writerVars == <<publications, previous, store, anchors>>
localVars  == <<time, published, offset, attempt, field, candidate, selected,
                oldest, unstable>>
readerVars == <<step, localVars, answer>>
clockVars  == <<slotVars, published_count, invalidated, writerVars, readerVars>>

Slots  == 0 .. Capacity - 1
Fields == <<"position", "qpc", "tail">>
Anchor == [position: Nat, qpc: Nat, tail: Nat]
NoAnchor == [position |-> 0, qpc |-> 0, tail |-> 0]

StoreVersion == Len(Fields) + 1
StoreCount   == Len(Fields) + 2

Slot(publication) == publication % Capacity
Writing(publication)  == publication * 2 + 1
Complete(publication) == publication * 2 + 2

Statuses == {"Resolved", "Pending", "TemporarilyUnavailable", "HistoryLost",
             "Discontinuous"}
Answer == [status: Statuses, time: Nat, frame: Int]
Plain(status, tick) == [status |-> status, time |-> tick, frame |-> 0]

ClockInit ==
    /\ version = [slot \in Slots |-> 0]
    /\ payload = [slot \in Slots |-> NoAnchor]
    /\ published_count = 0
    /\ invalidated = FALSE
    /\ publications = 0 /\ previous = <<>> /\ store = 0 /\ anchors = <<>>
    /\ step = "idle"
    /\ time = 0 /\ published = 0 /\ offset = 0 /\ attempt = 1 /\ field = 1
    /\ candidate = NoAnchor /\ selected = <<>> /\ oldest = <<>>
    /\ unstable = FALSE
    /\ answer = Plain("Pending", 0)

-----------------------------------------------------------------------------
(* The audio thread.                                                       *)
Invalidate == invalidated' = TRUE

NotDecreasing(anchor) ==
    \A i \in DOMAIN previous : /\ anchor.position >= previous[i].position
                               /\ anchor.qpc >= previous[i].qpc
                               /\ anchor.tail >= previous[i].tail

(* Publish up to the store of the odd version. *)
Publish(anchor) ==
    /\ store = 0
    /\ IF invalidated \/ ~NotDecreasing(anchor)
       THEN /\ Invalidate
            /\ UNCHANGED <<slotVars, writerVars>>
       ELSE /\ version' = [version EXCEPT ![Slot(publications)] =
                                                     Writing(publications)]
            /\ publications' = publications + 1
            /\ previous' = <<anchor>>
            /\ anchors' = Append(anchors, anchor)
            /\ store' = 1
            /\ UNCHANGED <<payload, invalidated>>
    /\ UNCHANGED <<published_count, readerVars>>

(* Its remaining stores: the payload, the even version, the count.         *)
StorePayload ==
    /\ store \in 1 .. Len(Fields)
    /\ payload' = [payload EXCEPT ![Slot(publications - 1)] =
           [@ EXCEPT ![Fields[store]] = previous[1][Fields[store]]]]
    /\ store' = store + 1
    /\ UNCHANGED <<version, published_count, invalidated, publications,
                   previous, anchors, readerVars>>

StoreEvenVersion ==
    /\ store = StoreVersion
    /\ version' = [version EXCEPT ![Slot(publications - 1)] =
                                              Complete(publications - 1)]
    /\ store' = StoreCount
    /\ UNCHANGED <<payload, published_count, invalidated, publications,
                   previous, anchors, readerVars>>

StorePublishedCount ==
    /\ store = StoreCount
    /\ published_count' = publications
    /\ store' = 0
    /\ UNCHANGED <<slotVars, invalidated, publications, previous, anchors,
                   readerVars>>

FinishPublish == StorePayload \/ StoreEvenVersion \/ StorePublishedCount

-----------------------------------------------------------------------------
(* The game thread: ResolveQpc searches from the newest anchor.            *)
Publication == published - offset - 1

PositionAt(anchor, tick) == anchor.position + UnitsPerTick * (tick - anchor.qpc)

(* Output frames are exact rationals: ClockFrequency is their denominator. *)
FrameAt(anchor, tick) == PositionAt(anchor, tick) * OutputRate

(* A call returns, and its locals are gone. *)
Return(result) ==
    /\ answer' = result
    /\ step' = "idle"
    /\ time' = 0 /\ published' = 0 /\ offset' = 0 /\ attempt' = 1 /\ field' = 1
    /\ candidate' = NoAnchor /\ selected' = <<>> /\ oldest' = <<>>
    /\ unstable' = FALSE

BeginResolve(tick) ==
    /\ step = "idle"
    /\ \/ /\ invalidated \/ published_count = 0
          /\ Return(Plain(IF invalidated THEN "Discontinuous" ELSE "Pending",
                          tick))
       \/ /\ ~invalidated /\ published_count > 0
          /\ step' = "version"
          /\ time' = tick
          /\ published' = published_count
          /\ UNCHANGED <<offset, attempt, field, candidate, selected, oldest,
                         unstable, answer>>
    /\ UNCHANGED <<slotVars, published_count, invalidated, writerVars>>

NextOffset ==
    /\ attempt' = 1
    /\ IF offset + 1 < published /\ offset + 1 < Capacity
       THEN step' = "version" /\ offset' = offset + 1
       ELSE step' = "finish" /\ UNCHANGED offset

(* A turn of ReadStable that did not read its publication.                 *)
NotStable ==
    /\ UNCHANGED <<selected, oldest>>
    /\ IF attempt < ReadAttempts
       THEN step' = "version" /\ attempt' = attempt + 1
            /\ UNCHANGED <<offset, unstable>>
       ELSE unstable' = TRUE /\ NextOffset

LoadVersion ==
    /\ step = "version"
    /\ IF version[Slot(Publication)] = Complete(Publication)
       THEN step' = "field" /\ UNCHANGED <<offset, attempt, selected, oldest,
                                           unstable>>
       ELSE NotStable
    /\ field' = 1
    /\ UNCHANGED <<slotVars, published_count, invalidated, writerVars, time,
                   published, candidate, answer>>

LoadField ==
    /\ step = "field"
    /\ candidate' = [candidate EXCEPT ![Fields[field]] =
                                 payload[Slot(Publication)][Fields[field]]]
    /\ IF field < Len(Fields) THEN field' = field + 1 /\ UNCHANGED step
                              ELSE step' = "check" /\ UNCHANGED field
    /\ UNCHANGED <<slotVars, published_count, invalidated, writerVars, time,
                   published, offset, attempt, selected, oldest, unstable,
                   answer>>

(* An anchor read in one piece is compared with the time asked for. *)
Consider(anchor) ==
    /\ oldest' = <<anchor>>
    /\ UNCHANGED unstable
    /\ IF time >= anchor.qpc
       THEN selected' = <<anchor>> /\ step' = "finish"
            /\ UNCHANGED <<offset, attempt>>
       ELSE UNCHANGED selected /\ NextOffset

(* Mutant: the version is not loaded again after the payload.              *)
TrustPayload ==
    /\ step = "check"
    /\ Consider(candidate)
    /\ UNCHANGED <<slotVars, published_count, invalidated, writerVars, time,
                   published, field, candidate, answer>>

LoadVersionAgain ==
    /\ step = "check"
    /\ IF version[Slot(Publication)] = Complete(Publication)
       THEN Consider(candidate)
       ELSE NotStable
    /\ UNCHANGED <<slotVars, published_count, invalidated, writerVars, time,
                   published, field, candidate, answer>>

(* What the anchor at or before the time says of it. *)
Project(anchor) ==
    IF anchor.tail = 0 \/ FrameAt(anchor, time) >= anchor.tail * ClockFrequency
    THEN Plain("Pending", time)
    ELSE [status |-> "Resolved", time |-> time, frame |-> FrameAt(anchor, time)]

Verdict ==
    IF invalidated THEN Plain("Discontinuous", time)
    ELSE IF selected # <<>> THEN Project(selected[1])
    ELSE IF unstable THEN Plain("TemporarilyUnavailable", time)
    ELSE IF /\ published > Capacity
            /\ \E i \in DOMAIN oldest : time < oldest[i].qpc
         THEN Plain("HistoryLost", time)
         ELSE Plain("Pending", time)

Finish ==
    /\ step = "finish"
    /\ Return(Verdict)
    /\ UNCHANGED <<slotVars, published_count, invalidated, writerVars>>

Search == LoadVersion \/ LoadField \/ LoadVersionAgain \/ Finish

ClockNext ==
    \/ \E anchor \in Anchor : Publish(anchor)
    \/ FinishPublish
    \/ Invalidate /\ UNCHANGED <<slotVars, published_count, writerVars,
                                 readerVars>>
    \/ \E tick \in Nat : BeginResolve(tick)
    \/ Search

ClockSpec == ClockInit /\ [][ClockNext]_clockVars

-----------------------------------------------------------------------------
ClockTypeOK ==
    /\ version \in [Slots -> Nat] /\ payload \in [Slots -> Anchor]
    /\ published_count \in Nat
    /\ invalidated \in BOOLEAN
    /\ publications \in Nat
    /\ previous \in Seq(Anchor) /\ Len(previous) <= 1
    /\ store \in 0 .. StoreCount
    /\ anchors \in Seq(Anchor)
    /\ step \in {"idle", "version", "field", "check", "finish"}
    /\ time \in Nat /\ published \in Nat /\ offset \in Nat
    /\ attempt \in 1 .. ReadAttempts
    /\ field \in 1 .. Len(Fields)
    /\ candidate \in Anchor
    /\ selected \in Seq(Anchor) /\ Len(selected) <= 1
    /\ oldest \in Seq(Anchor) /\ Len(oldest) <= 1
    /\ unstable \in BOOLEAN
    /\ answer \in Answer

(* What a query answers from the list of all anchors: the newest of the    *)
(* last Capacity at or before the time decides; nothing older is known.    *)
Retained(count) == {k \in 1 .. count : k > count - Capacity}

LogAnswer(count) ==
    IF \E k \in Retained(count) : anchors[k].qpc <= time
    THEN Project(anchors[CHOOSE k \in Retained(count) :
                           /\ anchors[k].qpc <= time
                           /\ \A j \in Retained(count) :
                                 j > k => anchors[j].qpc > time])
    ELSE Plain(IF count > Capacity THEN "HistoryLost" ELSE "Pending", time)

(* Although the ring is overwritten under the reader, an answer is the one *)
(* the anchors published when the query began give: no torn anchor, no     *)
(* older one in place of one that was lost. The two exceptions say         *)
(* themselves that they know nothing: a publication overtook the search,   *)
(* or the clock has been invalidated (ReadStable, ResolveQpc).             *)
AnswersFromLog ==
    [][step = "finish" /\ step' = "idle" =>
          \/ answer' = LogAnswer(published)
          \/ answer'.status = "TemporarilyUnavailable"
             /\ publications > published
          \/ answer'.status = "Discontinuous" /\ invalidated]_clockVars
=============================================================================
