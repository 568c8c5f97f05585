-------------------------- MODULE WasapiRenderLoop --------------------------
(***************************************************************************)
(* The running WASAPI output: the audio thread waits for the endpoint,     *)
(* reads its clock, plans where the next packet goes, submits it, and      *)
(* publishes an anchor of the exact clock; the game thread resolves the    *)
(* times of input records, in their order, against that clock.             *)
(*                                                                         *)
(* The endpoint is outside the program: at each tick of the host clock it  *)
(* moves on by some of its units, it asks for a packet when no more than   *)
(* one is left to play, and its clock may report a position and a host     *)
(* time that lag behind, each by more or less than it did before: both may *)
(* go back. The loop plans in whole output frames, the exact clock         *)
(* compares the positions and the times themselves.                        *)
(***************************************************************************)
EXTENDS ExactWasapiClock, FiniteSets

CONSTANTS
    PacketFrames,   \* packet_frames_: the endpoint's period
    GapWindow,      \* gap_window_frames_: one second of frames
    DeviceSteps,    \* units the endpoint may move in one tick
    ClockLags,      \* units its clock may report too few
    TimeLags,       \* how old the host time it reports may be
    QueryTimes,     \* host times the scheduler may ask for
    MaxQpc          \* bound: the host clock stops here

ASSUME LoopAssumption ==
    /\ PacketFrames \in Nat \ {0} /\ GapWindow \in Nat \ {0}
    /\ DeviceSteps \subseteq Nat /\ ClockLags \subseteq Nat
    /\ TimeLags \subseteq Nat
    /\ QueryTimes \subseteq Nat /\ MaxQpc \in Nat

GapLimit == 3       \* gap_positions_.size()

VARIABLES
    qpc, device,            \* host clock, endpoint position in its units
    loop,                   \* where the audio thread is
    sample,                 \* its last ReadClock
    block_begin,            \* of the packet it has planned
    submitted_tail, last_presented, gap_positions,    \* OutputPacingTracker
    failure,                \* failure_stage_
    gaps                    \* history: every position a gap was noticed at

deviceVars == <<qpc, device>>
loopVars   == <<loop, sample, block_begin, submitted_tail, last_presented,
                gap_positions, failure, gaps>>
renderVars == <<clockVars, deviceVars, loopVars>>

NoSample == [position |-> 0, qpc |-> 0]

LoopInit ==
    /\ ClockInit
    /\ qpc = 0 /\ device = 0
    /\ loop = "wait" /\ sample = NoSample /\ block_begin = 0
    /\ submitted_tail = PacketFrames     \* the silent prefill
    /\ last_presented = 0 /\ gap_positions = <<>>
    /\ failure = "none" /\ gaps = <<>>

-----------------------------------------------------------------------------
(* Host clock and endpoint. *)
Tick ==
    /\ qpc < MaxQpc
    /\ qpc' = qpc + 1
    /\ \E units \in DeviceSteps : device' = device + units
    /\ UNCHANGED <<clockVars, loopVars>>

(* The output frame a position has reached (EndpointClockMapper).          *)
ToOutputFrame(position) == (position * OutputRate) \div ClockFrequency

PacketWanted == submitted_tail - ToOutputFrame(device) <= PacketFrames

-----------------------------------------------------------------------------
(* The pacing tracker.                                                     *)
AlignUp(frame) == ((frame + PacketFrames - 1) \div PacketFrames) * PacketFrames

(* Mutant: gaps of any age count. *)
RecordEveryGap(presented) ==
    IF Len(gap_positions) < GapLimit THEN Append(gap_positions, presented)
                                     ELSE gap_positions

(* The loop over gap_positions_ that keeps, in place, those of the window. *)
GapsInWindow(presented) ==
    LET kept[n \in 0 .. Len(gap_positions)] ==
            IF n = 0 THEN <<>>
            ELSE IF presented - gap_positions[n] < GapWindow
                 THEN Append(kept[n - 1], gap_positions[n])
                 ELSE kept[n - 1]
    IN kept[Len(gap_positions)]

RecordGap(presented) ==
    IF Len(GapsInWindow(presented)) < GapLimit
    THEN Append(GapsInWindow(presented), presented)
    ELSE GapsInWindow(presented)

(* Mutant: the endpoint's clock may go back a packet.                      *)
BackByPacket(presented) == presented + PacketFrames < last_presented

WentBack(presented) == presented < last_presented

Fail(stage) ==
    /\ failure' = stage
    /\ loop' = "failed"

(* Plan, with the packet's place or the reason to give up. *)
Plan(presented) ==
    IF WentBack(presented)
    THEN /\ Fail("InvalidClockPosition")
         /\ UNCHANGED <<block_begin, last_presented, gap_positions, gaps>>
    ELSE /\ last_presented' = presented
         /\ IF presented > submitted_tail
            THEN /\ block_begin' = AlignUp(presented)
                 /\ gap_positions' = RecordGap(presented)
                 /\ gaps' = Append(gaps, presented)
                 /\ IF Len(gap_positions') >= GapLimit
                    THEN Fail("ChronicOutputGap")
                    ELSE loop' = "submit" /\ UNCHANGED failure
            ELSE /\ block_begin' = submitted_tail
                 /\ loop' = "submit"
                 /\ UNCHANGED <<gap_positions, gaps, failure>>

-----------------------------------------------------------------------------
(* RenderLoop. A position before the mapping's origin has no frame.        *)
NoOutputFrame ==
    /\ Fail("InvalidClockPosition")
    /\ UNCHANGED <<block_begin, last_presented, gap_positions, gaps>>

WaitAndReadClock ==
    /\ loop = "wait" /\ store = 0
    /\ PacketWanted
    /\ \E lag \in ClockLags, age \in TimeLags :
          /\ age <= qpc
          /\ sample' = [position |-> device - lag, qpc |-> qpc - age]
          /\ IF device < lag
             THEN NoOutputFrame
             ELSE Plan(ToOutputFrame(device - lag))
    /\ UNCHANGED <<clockVars, deviceVars, submitted_tail>>

BlockEnd == block_begin + PacketFrames

(* The loop does not look whether the clock has taken the anchor.          *)
SubmitAndPublish ==
    /\ loop = "submit"
    /\ submitted_tail' = BlockEnd
    /\ loop' = "wait"
    /\ Publish([position |-> sample.position, qpc |-> sample.qpc,
                tail |-> BlockEnd])
    /\ UNCHANGED <<deviceVars, sample, block_begin, last_presented,
                   gap_positions, failure, gaps>>

StoreAnchor ==
    /\ FinishPublish
    /\ UNCHANGED <<deviceVars, loopVars>>

(* The wait, the mixer or the submission fails, or the engine is shut down *)
(* while it waits.                                                         *)
LeaveLoop ==
    /\ loop \in {"wait", "submit"} /\ store = 0
    /\ \/ Fail("Endpoint")
       \/ loop = "wait" /\ loop' = "failed" /\ UNCHANGED failure
    /\ UNCHANGED <<clockVars, deviceVars, sample, block_begin, submitted_tail,
                   last_presented, gap_positions, gaps>>

ReadClockFails ==
    /\ loop = "wait" /\ store = 0
    /\ Fail("Endpoint")
    /\ Invalidate
    /\ UNCHANGED <<slotVars, published_count, writerVars, readerVars,
                   deviceVars, sample, block_begin, submitted_tail,
                   last_presented, gap_positions, gaps>>

CleanupExactClock ==
    /\ loop = "failed"
    /\ loop' = "ended"
    /\ Invalidate
    /\ UNCHANGED <<slotVars, published_count, writerVars, readerVars,
                   deviceVars, sample, block_begin, submitted_tail,
                   last_presented, gap_positions, failure, gaps>>

-----------------------------------------------------------------------------
(* The game thread: the scheduler resolves input records and its horizon,  *)
(* all of them times that have passed.                                     *)
ResolvePast ==
    /\ \E tick \in QueryTimes : tick <= qpc /\ BeginResolve(tick)
    /\ UNCHANGED <<deviceVars, loopVars>>

SearchAnchor ==
    /\ Search
    /\ UNCHANGED <<deviceVars, loopVars>>

LoopNext ==
    \/ Tick
    \/ WaitAndReadClock \/ SubmitAndPublish \/ StoreAnchor
    \/ LeaveLoop \/ ReadClockFails \/ CleanupExactClock
    \/ ResolvePast \/ SearchAnchor

LoopSpec == LoopInit /\ [][LoopNext]_renderVars

-----------------------------------------------------------------------------
LoopTypeOK ==
    /\ ClockTypeOK
    /\ qpc \in 0 .. MaxQpc /\ device \in Nat
    /\ loop \in {"wait", "submit", "failed", "ended"}
    /\ sample \in [position: Int, qpc: Nat]
    /\ block_begin \in Nat /\ submitted_tail \in Nat
    /\ last_presented \in Nat
    /\ gap_positions \in Seq(Nat) /\ Len(gap_positions) <= GapLimit
    /\ failure \in {"none", "Endpoint", "InvalidClockPosition",
                    "ChronicOutputGap"}
    /\ gaps \in Seq(Nat)

(* While the render loop runs, its own publications trip the checks that   *)
(* invalidate the clock (Publish) only for two faults of the endpoint that *)
(* planning in whole frames cannot see (Plan): a host time that goes back, *)
(* or a position that goes back within one output frame. A packet placed   *)
(* behind a gap never does, nor a position a whole frame back: the loop    *)
(* has given up before. Else only a failure to read the clock and the      *)
(* cleanup invalidate.                                                     *)
BackWithinFrame ==
    \E i \in DOMAIN previous :
       \/ sample.qpc < previous[i].qpc
       \/ /\ sample.position < previous[i].position
          /\ ToOutputFrame(sample.position)
                = ToOutputFrame(previous[i].position)

OwnPublicationsAccepted ==
    [][~invalidated /\ invalidated' =>
          loop' \in {"failed", "ended"} \/ BackWithinFrame]_renderVars

(* The loop gives up for a chronic gap exactly when three gaps lie within  *)
(* one second of frames, although the tracker forgets old ones             *)
(* (RecordGap).                                                            *)
RecentGaps ==
    {i \in DOMAIN gaps : gaps[Len(gaps)] - gaps[i] < GapWindow}

ChronicMeansThreeGaps ==
    failure # "Endpoint" =>
        (failure = "ChronicOutputGap" <=> Cardinality(RecentGaps) >= GapLimit)

(* A later input is never judged at an earlier output frame than an        *)
(* earlier one was: the audit calls the exact output mapping monotonic,    *)
(* and the scheduler stops the process if it is not                        *)
(* (ResolvedCoordinateRegressed).                                          *)
ResolvedInOrder ==
    step = "finish" /\ Verdict.status = "Resolved"
        /\ answer.status = "Resolved" /\ time > answer.time
    => Verdict.frame >= answer.frame
=============================================================================
