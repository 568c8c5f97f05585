----------------------------- MODULE MixerVoice -----------------------------
(* One voice of the mixer (MiniaudioMixer.cpp): the control operations of  *)
(* the game, the callback in which the render thread mixes the voice into  *)
(* an output period, and the atomics they share. A step is a load or a     *)
(* store of those atomics with what the same thread does up to the next    *)
(* one. The source has the rate of the output, so that the converter       *)
(* passes frames through; miniaudio calls the voice once in a period, does *)
(* so when the node is started, and its calls do not fail. Run tokens do   *)
(* not wrap.                                                               *)
EXTENDS AudioCursorTimeline, AudioSnapshot

CONSTANTS
    SourceLength,     \* frames of the source
    PeriodFrames,     \* output frames of a period
    Discontinuities,  \* frames the endpoint may skip before a period
    MaxOutput,        \* bound on the output frames
    Silent            \* what is heard where no source is

ASSUME VoiceAssumption ==
    /\ SourceLength \in Nat \ {0} /\ PeriodFrames \in Nat \ {0}
    /\ Discontinuities \subseteq Nat /\ MaxOutput \in Nat
    /\ Silent \notin [epoch : Nat, source : Nat]

VARIABLES
    playback,         \* packed_state_: [phase, run]
    node,             \* the node is started
    seek_mailbox,     \* [sequence, frame, epoch, origin]; odd: being written
    applied_seek_sequence,
    cursor,
    ended,
    looping,
    accepted_epoch,
    audible_drain,    \* [end, run, epoch]
    active_voices,
    mapping,          \* the render thread's epoch: [epoch, source_start,
                      \* output_frames, origin]
    output_frame,     \* the output rendered so far
    render,           \* the period being rendered
    control,          \* the control operation under way
    heard,            \* history: output frame -> [epoch, source]
    lost_anchor,      \* history: a play began elsewhere than the seek
                      \* accepted before it asked for
    overlapped        \* history: a play was published while the render
                      \* thread held an earlier run

stateVars   == <<playback, node>>
sharedVars  == <<seek_mailbox, looping, accepted_epoch>>
cursorVars  == <<applied_seek_sequence, cursor, ended, mapping>>
renderVars  == <<output_frame, render, heard>>
historyVars == <<lost_anchor, overlapped>>
voiceVars   == <<stateVars, sharedVars, cursorVars, audible_drain,
                 active_voices, renderVars, control, historyVars>>

Idle == [at |-> "idle"]

VoiceInit ==
    /\ TimelineInit /\ SnapshotInit
    /\ playback = [phase |-> "Stopped", run |-> 0]
    /\ node = FALSE
    /\ seek_mailbox = [sequence |-> 0, frame |-> 0, epoch |-> 1,
                       origin |-> "Play"]
    /\ applied_seek_sequence = 0 /\ cursor = 0 /\ ended = FALSE
    /\ looping = FALSE /\ accepted_epoch = 1
    /\ audible_drain = [end |-> 0, run |-> 0, epoch |-> 0]
    /\ active_voices = 0
    /\ mapping = [epoch |-> 1, source_start |-> 0, output_frames |-> 0,
                  origin |-> "Play"]
    /\ output_frame = 0 /\ render = Idle /\ control = Idle
    /\ heard = [f \in 0..MaxOutput - 1 |-> Silent]
    /\ lost_anchor = FALSE /\ overlapped = FALSE

Phase(phase) == playback' = [playback EXCEPT !.phase = phase]
-----------------------------------------------------------------------------
(* Mutant: a voice that is being ended does not play any more.             *)
NotEnding == playback.phase = "Playing"

(* VoicePlaybackStateMachine, as the game reads it.                        *)
Playing == playback.phase \in {"Playing", "Ending"}

DrainingRun ==
    IF playback.phase \in {"Ending", "Ended"} THEN playback.run ELSE 0

(* audible_until_output_frame, or 0: the end must be that of the run which *)
(* is draining and of the epoch accepted last.                             *)
DrainMatches ==
    /\ DrainingRun # 0
    /\ audible_drain.run = DrainingRun
    /\ audible_drain.epoch = accepted_epoch

AudibleUntil == IF DrainMatches THEN audible_drain.end ELSE 0
-----------------------------------------------------------------------------
(* A control operation begins; Play and Stop first stop the node.          *)
StartPlay(loop, epoch) ==
    /\ node' = FALSE
    /\ control' = [at |-> "play", loop |-> loop, epoch |-> epoch, frame |-> 0,
                   started |-> FALSE, unapplied |-> FALSE]

StartStop == node' = FALSE /\ control' = [at |-> "stop"]

StartSeek(frame, epoch) ==
    /\ control' = [at |-> "seek", frame |-> frame, epoch |-> epoch]
    /\ UNCHANGED node

(* MixerVoice::Play. BeginPlay waits while the render thread ends the      *)
(* voice. The position to go on from is read before the seek that may be   *)
(* pending is looked for.                                                  *)
BeginPlay ==
    /\ control.at = "play" /\ playback.phase \in {"Playing", "Stopped", "Ended"}
    /\ playback' = [phase |-> "Starting", run |-> playback.run + 1]
    /\ control' = [control EXCEPT !.at = "load",
                                  !.started = playback.phase = "Playing"]
    /\ UNCHANGED <<node, sharedVars, cursorVars, audible_drain, active_voices,
                   renderVars, historyVars, timelineVars, snapshotVars>>

PendingSeek   == seek_mailbox.sequence # applied_seek_sequence
UnappliedSeek == PendingSeek /\ seek_mailbox.origin = "Seek"

Fallback == IF ended \/ cursor >= SourceLength THEN 0 ELSE cursor

LoadFallback ==
    /\ control.at = "load"
    /\ looping' = control.loop
    /\ control' = [control EXCEPT !.at = "publish", !.frame = Fallback,
                                  !.unapplied = UnappliedSeek]
    /\ UNCHANGED <<stateVars, seek_mailbox, accepted_epoch, cursorVars,
                   audible_drain, active_voices, renderVars, historyVars,
                   timelineVars, snapshotVars>>

(* SeekMailbox::PublishForPlay and Publish: the sequence is odd while the  *)
(* fields are written.                                                     *)
PlayFrame == IF PendingSeek THEN seek_mailbox.frame ELSE control.frame

RenderingEarlierRun == render.at # "idle" /\ render.run # 0

PublishForPlay ==
    /\ control.at = "publish"
    /\ seek_mailbox' = [seek_mailbox EXCEPT !.sequence = @ + 1]
    /\ control' = [control EXCEPT !.at = "published", !.frame = PlayFrame]
    /\ overlapped' = (overlapped \/ RenderingEarlierRun)
    /\ lost_anchor' =
           (lost_anchor \/ (control.unapplied /\ PlayFrame # seek_mailbox.frame))
    /\ UNCHANGED <<stateVars, looping, accepted_epoch, cursorVars,
                   audible_drain, active_voices, renderVars, timelineVars,
                   snapshotVars>>

StoreRequest(origin) ==
    seek_mailbox' = [sequence |-> seek_mailbox.sequence + 1,
                     frame |-> control.frame, epoch |-> control.epoch,
                     origin |-> origin]

PlayPublished ==
    /\ control.at = "published"
    /\ StoreRequest("Play")
    /\ accepted_epoch' = control.epoch
    /\ active_voices' = IF control.started THEN active_voices
                                           ELSE active_voices + 1
    /\ control' = [control EXCEPT !.at = "commit"]
    /\ UNCHANGED <<stateVars, looping, cursorVars, audible_drain, renderVars,
                   historyVars, timelineVars, snapshotVars>>

CommitPlay ==
    /\ control.at = "commit"
    /\ Phase("Playing") /\ node' = TRUE
    /\ control' = [at |-> "done"]
    /\ UNCHANGED <<sharedVars, cursorVars, audible_drain, active_voices,
                   renderVars, historyVars, timelineVars, snapshotVars>>

(* MixerVoice::Stop. A voice that ended by itself has left the count.      *)
BeginStop ==
    /\ control.at = "stop" /\ playback.phase \in {"Playing", "Stopped", "Ended"}
    /\ IF playback.phase = "Playing"
       THEN /\ Phase("Stopping")
            /\ control' = [control EXCEPT !.at = "stopping"]
       ELSE /\ Phase("Stopped") /\ control' = [at |-> "done"]
    /\ UNCHANGED <<node, sharedVars, cursorVars, audible_drain, active_voices,
                   renderVars, historyVars, timelineVars, snapshotVars>>

CompleteStop ==
    /\ control.at = "stopping"
    /\ active_voices' = active_voices - 1
    /\ Phase("Stopped")
    /\ control' = [at |-> "done"]
    /\ UNCHANGED <<node, sharedVars, cursorVars, audible_drain, renderVars,
                   historyVars, timelineVars, snapshotVars>>

(* MixerVoice::Seek.                                                       *)
PublishSeek ==
    /\ control.at = "seek"
    /\ seek_mailbox' = [seek_mailbox EXCEPT !.sequence = @ + 1]
    /\ control' = [control EXCEPT !.at = "sought"]
    /\ UNCHANGED <<stateVars, looping, accepted_epoch, cursorVars,
                   audible_drain, active_voices, renderVars, historyVars,
                   timelineVars, snapshotVars>>

SeekPublished ==
    /\ control.at = "sought"
    /\ StoreRequest("Seek")
    /\ accepted_epoch' = control.epoch
    /\ control' = [at |-> "done"]
    /\ UNCHANGED <<stateVars, looping, cursorVars, audible_drain,
                   active_voices, renderVars, historyVars, timelineVars,
                   snapshotVars>>

VoiceControl ==
    \/ BeginPlay \/ LoadFallback \/ PublishForPlay \/ PlayPublished
    \/ CommitPlay \/ BeginStop \/ CompleteStop \/ PublishSeek \/ SeekPublished
-----------------------------------------------------------------------------
(* RenderInternal: one period, after the frames the endpoint has skipped.  *)
To(at) == render' = [render EXCEPT !.at = at]

BeginPeriod ==
    /\ render.at = "idle"
    /\ \E gap \in Discontinuities :
           /\ output_frame + gap + PeriodFrames <= MaxOutput
           /\ render' = [at |-> IF node THEN "capture" ELSE "finish",
                         begin |-> output_frame + gap, gap |-> gap, run |-> 0,
                         request |-> seek_mailbox, until |-> 0]
    /\ UNCHANGED <<stateVars, sharedVars, cursorVars, audible_drain,
                   active_voices, output_frame, heard, control, historyVars,
                   timelineVars, snapshotVars>>

(* VoiceNodeProcess.                                                       *)
CapturePlayingRun ==
    /\ render.at = "capture"
    /\ IF playback.phase = "Playing"
       THEN render' = [render EXCEPT !.at = "seek", !.run = playback.run]
       ELSE To("finish")
    /\ UNCHANGED <<stateVars, sharedVars, cursorVars, audible_drain,
                   active_voices, output_frame, heard, control, historyVars,
                   timelineVars, snapshotVars>>

AfterSeek ==
    CASE PendingSeek                    -> "apply"
      [] ~PendingSeek /\ ended          -> "finish"
      [] ~PendingSeek /\ ~ended         ->
            IF render.gap # 0 THEN "advance" ELSE "mix"

ReadStableSeek ==
    /\ render.at = "seek"
    /\ IF seek_mailbox.sequence % 2 = 1
       THEN To("finish")
       ELSE render' = [render EXCEPT !.at = AfterSeek, !.request = seek_mailbox]
    /\ UNCHANGED <<stateVars, sharedVars, cursorVars, audible_drain,
                   active_voices, output_frame, heard, control, historyVars,
                   timelineVars, snapshotVars>>

(* Mutant: the new epoch goes on from what the last one had put out.       *)
ApplySeekOnly ==
    /\ render.at = "apply"
    /\ cursor' = render.request.frame
    /\ mapping' = [mapping EXCEPT !.epoch = render.request.epoch,
                                  !.source_start = render.request.frame,
                                  !.origin = render.request.origin]
    /\ To("applied")
    /\ UNCHANGED <<stateVars, sharedVars, applied_seek_sequence, ended,
                   audible_drain, active_voices, output_frame, heard, control,
                   historyVars, timelineVars, snapshotVars>>

ApplySeek ==
    /\ render.at = "apply"
    /\ cursor' = render.request.frame
    /\ mapping' = [epoch |-> render.request.epoch,
                   source_start |-> render.request.frame,
                   output_frames |-> 0, origin |-> render.request.origin]
    /\ To("applied")
    /\ UNCHANGED <<stateVars, sharedVars, applied_seek_sequence, ended,
                   audible_drain, active_voices, output_frame, heard, control,
                   historyVars, timelineVars, snapshotVars>>

SeekApplied ==
    /\ render.at = "applied"
    /\ ended' = FALSE
    /\ applied_seek_sequence' = render.request.sequence
    /\ To("mix")
    /\ UNCHANGED <<stateVars, sharedVars, cursor, mapping, audible_drain,
                   active_voices, output_frame, heard, control, historyVars,
                   timelineVars, snapshotVars>>

(* The output frames until the source ends, which a looping source never   *)
(* does.                                                                   *)
UntilSourceEnd == Max({0, SourceLength - mapping.source_start
                             - mapping.output_frames})

SourceFrames(frames) ==
    IF looping THEN frames ELSE Min({frames, UntilSourceEnd})
CursorFrames(frames) ==
    IF looping THEN frames ELSE Min({frames, SourceLength - cursor})

(* PublishMappedSpans: the stretch of the output from begin on carries the *)
(* epoch on from where its mapping has come to. A refusal by the exact     *)
(* history leaves the mapping where it is.                                 *)
MappedSpan(begin, frames) ==
    [begin |-> begin, end |-> begin + frames,
     source |-> mapping.source_start + mapping.output_frames,
     epoch |-> mapping.epoch]

MappedEpoch(begin, frames, source_ended) ==
    LET epoch == EpochOf(mapping.epoch, mapping.origin,
                         begin - mapping.output_frames, mapping.source_start,
                         begin + frames)
    IN  IF source_ended THEN Closed(epoch, "NaturalEnd", SourceLength)
                        ELSE epoch

PublishMappedSpans(begin, frames, source_ended) ==
    LET epoch == MappedEpoch(begin, frames, source_ended)
    IN  /\ PublishSpan(MappedSpan(begin, frames))
        /\ PublishExactMappedSpan(epoch)
        /\ mapping' = [mapping EXCEPT
                          !.output_frames = IF Accepts(epoch) THEN @ + frames
                                                              ELSE @]

PublishNothing == UNCHANGED <<timelineVars, mapping>>

Sounds(begin, frames) ==
    heard' = [f \in DOMAIN heard |->
                IF f \in begin..begin + frames - 1
                THEN [epoch |-> mapping.epoch,
                      source |-> (cursor + f - begin) % SourceLength]
                ELSE heard[f]]

MappedPosition(frames) ==
    LET position == mapping.source_start + mapping.output_frames + frames
    IN  IF looping THEN position % SourceLength ELSE Min({position, SourceLength})
Moved(frames) ==
    IF looping THEN (cursor + frames) % SourceLength ELSE cursor + frames

Ends(until) == render' = [render EXCEPT !.at = "end", !.until = until]

(* AdvanceVoiceAcrossDiscontinuity: what the endpoint skipped is mapped as *)
(* if it had been heard.                                                   *)
GapBegin == render.begin - render.gap

AdvanceVoiceAcrossDiscontinuity ==
    LET represented  == SourceFrames(render.gap)
        source_ended == ~looping /\ represented = UntilSourceEnd
        refused      == /\ represented # 0
                        /\ ~Accepts(MappedEpoch(GapBegin, represented,
                                                source_ended))
    IN  /\ render.at = "advance"
        /\ IF represented = 0 THEN PublishNothing
           ELSE PublishMappedSpans(GapBegin, represented, source_ended)
        /\ Sounds(GapBegin, represented)
        /\ cursor' = IF refused THEN cursor ELSE MappedPosition(represented)
        /\ IF refused THEN To("finish")
           ELSE IF source_ended THEN Ends(GapBegin + represented)
           ELSE To("mix")
        /\ UNCHANGED <<stateVars, sharedVars, applied_seek_sequence, ended,
                       audible_drain, active_voices, output_frame, control,
                       historyVars, snapshotVars>>

(* The samples are copied from the snapshot that the thread has acquired.  *)
MixPeriod ==
    LET consumed     == CursorFrames(PeriodFrames)
        source_ended == ~looping /\ cursor + consumed = SourceLength
        mapped       == /\ consumed # 0
                        /\ Accepts(MappedEpoch(render.begin, consumed,
                                               source_ended))
    IN  /\ render.at = "mix" /\ reader = "render"
        /\ IF consumed = 0 THEN PublishNothing
           ELSE PublishMappedSpans(render.begin, consumed, source_ended)
        /\ Sounds(render.begin, consumed)
        /\ cursor' = Moved(consumed)
        /\ ReleaseView
        /\ IF source_ended
           THEN Ends(IF mapped THEN render.begin + consumed ELSE 0)
           ELSE To("finish")
        /\ UNCHANGED <<stateVars, sharedVars, applied_seek_sequence, ended,
                       audible_drain, active_voices, output_frame, control,
                       historyVars>>

AcquireForRender ==
    /\ render.at = "mix"
    /\ SnapshotReader
    /\ UNCHANGED <<voiceVars, timelineVars>>
-----------------------------------------------------------------------------
(* Mutant: the end is not compared with the run that reached it.           *)
EndAnyRun ==
    /\ render.at = "end"
    /\ Phase("Ending") /\ To("drain")
    /\ UNCHANGED <<node, sharedVars, cursorVars, audible_drain, active_voices,
                   output_frame, heard, control, historyVars, timelineVars,
                   snapshotVars>>

(* EndPlayback, unless the game has stopped or restarted the run.          *)
BeginEnd ==
    /\ render.at = "end"
    /\ IF playback = [phase |-> "Playing", run |-> render.run]
       THEN Phase("Ending") /\ To("drain")
       ELSE To("finish") /\ UNCHANGED playback
    /\ UNCHANGED <<node, sharedVars, cursorVars, audible_drain, active_voices,
                   output_frame, heard, control, historyVars, timelineVars,
                   snapshotVars>>

PublishDrain ==
    /\ render.at = "drain"
    /\ audible_drain' = [end |-> render.until, run |-> render.run,
                         epoch |-> mapping.epoch]
    /\ To("stop_node")
    /\ UNCHANGED <<stateVars, sharedVars, cursorVars, active_voices,
                   output_frame, heard, control, historyVars, timelineVars,
                   snapshotVars>>

VoiceEnded ==
    /\ render.at = "stop_node"
    /\ node' = FALSE /\ ended' = TRUE
    /\ active_voices' = active_voices - 1
    /\ To("complete")
    /\ UNCHANGED <<playback, sharedVars, applied_seek_sequence, cursor,
                   mapping, audible_drain, output_frame, heard, control,
                   historyVars, timelineVars, snapshotVars>>

CompleteEnd ==
    /\ render.at = "complete"
    /\ Phase("Ended") /\ To("finish")
    /\ UNCHANGED <<node, sharedVars, cursorVars, audible_drain, active_voices,
                   output_frame, heard, control, historyVars, timelineVars,
                   snapshotVars>>

PeriodRendered ==
    /\ render.at = "finish"
    /\ output_frame' = render.begin + PeriodFrames
    /\ render' = Idle
    /\ UNCHANGED <<stateVars, sharedVars, cursorVars, audible_drain,
                   active_voices, heard, control, historyVars, timelineVars,
                   snapshotVars>>

RenderStep ==
    \/ BeginPeriod \/ CapturePlayingRun \/ ReadStableSeek \/ ApplySeek
    \/ SeekApplied \/ AdvanceVoiceAcrossDiscontinuity \/ AcquireForRender
    \/ MixPeriod \/ BeginEnd \/ PublishDrain \/ VoiceEnded \/ CompleteEnd
    \/ PeriodRendered
=============================================================================
