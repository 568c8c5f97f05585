------------------------ MODULE AudioCursorTimeline ------------------------
(* Where the source of a sound buffer is heard on the output               *)
(* (AudioCursorTimeline.cpp): the ring of mapped spans that the render     *)
(* thread publishes and the game searches for its cursor, and the history  *)
(* of playback epochs that judgement resolves exactly. The render thread   *)
(* is the only writer. A reader skips a slot that is being written, as it  *)
(* skips one that has been written over, and does not copy the history     *)
(* while it changes, so that a publication is one step here. Output and    *)
(* source frames advance at one rate; SegmentLength below is the cutting   *)
(* of a span for other rates. Identities of the buffer, rates and the      *)
(* recorded reason of a failure are left out.                              *)
EXTENDS Integers, Sequences, FiniteSetsExt

CONSTANTS
    kRenderSpanCapacity,
    kExactPlaybackEpochCapacity

ASSUME TimelineAssumption ==
    /\ kRenderSpanCapacity \in Nat \ {0}
    /\ kExactPlaybackEpochCapacity \in Nat \ {0}

VARIABLES
    slots,                 \* slot -> [sequence, span]
    published_generation,
    exact                  \* the history: the epochs kept, whether older
                           \* ones were evicted, whether it is broken, and
                           \* the generation the game expects

timelineVars == <<slots, published_generation, exact>>

NoSpan == [begin |-> 0, end |-> 0, source |-> 0, epoch |-> 0]

TimelineInit ==
    /\ slots = [i \in 0..kRenderSpanCapacity - 1 |->
                  [sequence |-> -1, span |-> NoSpan]]
    /\ published_generation = 0
    /\ exact = [epochs |-> <<>>, evicted |-> FALSE, discontinuous |-> FALSE,
                requested |-> 0]
-----------------------------------------------------------------------------
(* The cutting of a mapped stretch for any pair of rates: interpolating    *)
(* inside a segment has to give the frame of the mapping as a whole.       *)
MappedSourceFrame(output, rate) == (output * rate.source) \div rate.output

Interpolated(offset, begin, length, rate) ==
    LET first == MappedSourceFrame(begin, rate)
        last  == MappedSourceFrame(begin + length, rate)
    IN  first + (offset * (last - first)) \div length

SegmentMatchesCumulativeMapping(begin, length, rate) ==
    \A offset \in 1..length - 1 :
        Interpolated(offset, begin, length, rate) =
            MappedSourceFrame(begin + offset, rate)

(* Mutant: whole output periods are taken from any phase.                  *)
WholePeriods(begin, remaining, rate) ==
    IF remaining >= rate.output
    THEN remaining - (remaining % rate.output)
    ELSE Max({1} \cup {n \in 2..remaining :
                SegmentMatchesCumulativeMapping(begin, n, rate)})

(* rate is in lowest terms: its output rate is the reduced output period.  *)
SegmentLength(begin, remaining, rate) ==
    LET phase == begin % rate.output
        upto  == IF phase = 0 THEN rate.output - 1 ELSE rate.output - phase
        most  == IF remaining < upto THEN remaining ELSE upto
    IN  IF phase = 0 /\ remaining >= rate.output
        THEN remaining - (remaining % rate.output)
        ELSE Max({1} \cup {n \in 2..most :
                    SegmentMatchesCumulativeMapping(begin, n, rate)})
-----------------------------------------------------------------------------
(* AudioCursorTimeline::Publish.                                           *)
SlotOf(count) == count % kRenderSpanCapacity

PublishSpan(span) ==
    /\ slots' = [slots EXCEPT ![SlotOf(published_generation)] =
                   [sequence |-> published_generation, span |-> span]]
    /\ published_generation' = published_generation + 1

SourceAt(span, frame) == span.source + (frame - span.begin)

(* Mutant: a span of an earlier generation counts.                          *)
CoversAnyGeneration(span, generation, frame) ==
    frame \in span.begin..span.end - 1

Covers(span, generation, frame) ==
    span.epoch = generation /\ frame \in span.begin..span.end - 1

(* ResolveSourceFrame looks at one slot after the other, the newest first. *)
(* search: what it has loaded and seen.                                    *)
Search(generation, frame) ==
    [published |-> published_generation, offset |-> 0, generation |-> generation,
     frame |-> frame, seen |-> FALSE, earliest |-> frame + 1]

Exhausted(search) ==
    search.offset >= search.published
        \/ search.offset >= kRenderSpanCapacity

StableSpan(search) ==
    LET count == search.published - search.offset - 1
        slot  == slots[SlotOf(count)]
    IN  IF slot.sequence = count THEN slot.span ELSE NoSpan

Found(search) == Covers(StableSpan(search), search.generation, search.frame)

(* Of the spans of the generation it keeps the earliest beginning, as far  *)
(* as it tells an early frame from a hole: at most the frame looked for,   *)
(* or after it.                                                            *)
NextSlot(search) ==
    LET span == StableSpan(search)
    IN  IF span.epoch # search.generation
        THEN [search EXCEPT !.offset = @ + 1]
        ELSE [search EXCEPT !.offset = @ + 1, !.seen = TRUE,
                            !.earliest = IF span.begin < @ THEN span.begin
                                                           ELSE @]

Miss(search) ==
    IF ~search.seen \/ search.frame < search.earliest THEN "pending"
                                                      ELSE "unmapped"
-----------------------------------------------------------------------------
(* ExpectExactPlaybackGeneration.                                          *)
Expect(generation) ==
    exact' = [exact EXCEPT !.requested = Max({@, generation})]

Newest == exact.epochs[Len(exact.epochs)]
NewEpoch(generation) ==
    exact.epochs = <<>> \/ Newest.generation # generation

SourceTail(epoch) ==
    epoch.source_origin + (epoch.tail - epoch.output_origin)

Closed(epoch, closure, source_tail) ==
    [epoch EXCEPT !.closure = closure, !.closed_tail = source_tail]

(* An epoch as the render thread publishes it.                             *)
EpochOf(generation, origin, output_origin, source_origin, tail) ==
    [generation |-> generation, origin |-> origin,
     output_origin |-> output_origin, source_origin |-> source_origin,
     tail |-> tail, closure |-> "none", closed_tail |-> 0]

Accepts(epoch) ==
    /\ epoch.tail > epoch.output_origin
    /\ IF NewEpoch(epoch.generation)
       THEN exact.epochs # <<>> =>
                /\ epoch.generation > Newest.generation
                /\ Newest.closure \in {"none", "NaturalEnd"}
       ELSE /\ Newest.closure = "none"
            /\ epoch.origin = Newest.origin
            /\ epoch.output_origin = Newest.output_origin
            /\ epoch.source_origin = Newest.source_origin
            /\ epoch.tail > Newest.tail

(* A new epoch closes the one before it where that one was mapped to; an   *)
(* epoch without room evicts the oldest.                                   *)
Appended(epoch) ==
    LET count  == Len(exact.epochs)
        closed == IF Newest.closure = "none"
                  THEN [exact.epochs EXCEPT ![count] =
                          Closed(@, "LaterEpoch", SourceTail(@))]
                  ELSE exact.epochs
        all    == IF count = 0 THEN <<epoch>> ELSE Append(closed, epoch)
    IN  IF Len(all) > kExactPlaybackEpochCapacity THEN Tail(all) ELSE all

Stored(epoch) ==
    IF NewEpoch(epoch.generation)
    THEN [exact EXCEPT
            !.epochs  = Appended(epoch),
            !.evicted = @ \/ Len(exact.epochs) = kExactPlaybackEpochCapacity]
    ELSE [exact EXCEPT !.epochs[Len(exact.epochs)] = epoch]

(* PublishExactMappedSpan. What it refuses breaks the history for good.    *)
PublishExactMappedSpan(epoch) ==
    exact' = IF Accepts(epoch) THEN Stored(epoch)
                               ELSE [exact EXCEPT !.discontinuous = TRUE]

(* CloseExactWriterAfterQuiescence.                                        *)
CloseExactWriter ==
    exact' = IF exact.epochs = <<>> THEN exact
             ELSE [exact EXCEPT
                     !.requested = Newest.generation,
                     !.epochs[Len(exact.epochs)] =
                        IF @.closure = "none"
                        THEN Closed(@, "WriterQuiescedRelease", SourceTail(@))
                        ELSE @]
-----------------------------------------------------------------------------
(* ResolveExactSourceFrame over the copied epochs: Discontinuous when they *)
(* do not follow one another.                                              *)
WellFormed(epoch) ==
    /\ epoch.tail > epoch.output_origin
    /\ epoch.closure \in {"LaterEpoch", "WriterQuiescedRelease"} =>
           epoch.closed_tail = SourceTail(epoch)

Follows(epoch, previous) ==
    /\ epoch.generation > previous.generation
    /\ epoch.output_origin >= previous.output_origin
    /\ previous.closure \in {"LaterEpoch", "NaturalEnd"}

Consistent ==
    /\ \A i \in DOMAIN exact.epochs : WellFormed(exact.epochs[i])
    /\ \A i \in 2..Len(exact.epochs) :
           Follows(exact.epochs[i], exact.epochs[i - 1])
    /\ Newest.closure # "LaterEpoch"

Holding(frame) ==
    {i \in DOMAIN exact.epochs :
        frame \in exact.epochs[i].output_origin..exact.epochs[i].tail - 1}

ExactSource(i, frame) ==
    exact.epochs[i].source_origin + (frame - exact.epochs[i].output_origin)

Before(frame) == {i \in DOMAIN exact.epochs : exact.epochs[i].tail <= frame}
GenerationPending ==
    exact.requested > Newest.generation
        /\ Newest.closure # "WriterQuiescedRelease"

(* A frame after the tail of an epoch and before the origin of the next.   *)
Between(frame) ==
    \E i \in Before(frame) :
        /\ i < Len(exact.epochs)
        /\ frame < exact.epochs[i + 1].output_origin

AfterClosedEnd(frame) ==
    Len(exact.epochs) \in Before(frame) /\ Newest.closure # "none"

Answer(status, generation, source) ==
    [status |-> status, generation |-> generation, source |-> source]

ResolveExactSourceFrame(frame) ==
    IF exact.epochs = <<>> THEN Answer("Pending", 0, 0)
    ELSE IF exact.discontinuous \/ ~Consistent
              \/ \E i, j \in Holding(frame) :
                     ExactSource(i, frame) # ExactSource(j, frame)
    THEN Answer("Discontinuous", 0, 0)
    ELSE IF Holding(frame) # {}
    THEN LET i == Max(Holding(frame))
         IN  Answer("Resolved", exact.epochs[i].generation,
                    ExactSource(i, frame))
    ELSE IF frame < exact.epochs[1].output_origin
    THEN Answer(IF exact.evicted THEN "HistoryLost" ELSE "OutsidePlayback", 0, 0)
    ELSE IF ~Between(frame) /\ (GenerationPending \/ ~AfterClosedEnd(frame))
    THEN Answer("Pending", 0, 0)
    ELSE LET last == exact.epochs[Max(Before(frame))]
         IN  Answer("OutsidePlayback", last.generation,
                    IF last.closure = "none" THEN SourceTail(last)
                                             ELSE last.closed_tail)
=============================================================================
