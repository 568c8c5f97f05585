----------------------------- MODULE SoundBuffer -----------------------------
(* A secondary sound buffer whose cursor follows the presented output      *)
(* (DirectSoundFacade.cpp): the game's sound thread plays, seeks, stops,   *)
(* writes and releases it and asks for its position and status, while the  *)
(* render thread mixes it. The buffer has one game thread, so its control  *)
(* mutex is not contended. The write cursor, volume and format calls keep  *)
(* nothing that these use and are left out.                                *)
EXTENDS MixerVoice

CONSTANTS
    SeekFrames,   \* where the game seeks to
    MaxCalls      \* bound on the plays, seeks, locks and unlocks together

ASSUME SeekAssumption == SeekFrames \subseteq 0..SourceLength - 1

VARIABLES
    playback_generation,
    last_reported_source_frame,
    presented,    \* the output frame the clock returned last, or -1
    game          \* the call under way

bufferVars == <<playback_generation, last_reported_source_frame, presented>>
allVars == <<voiceVars, timelineVars, snapshotVars, bufferVars, game>>

Init ==
    /\ VoiceInit
    /\ playback_generation = 1 /\ last_reported_source_frame = 0
    /\ presented = -1 /\ game = Idle

Returned == game.at = "idle" /\ writer = "idle"
Calls    == playback_generation - 1 + 2 * generation[published_owner]
Bounded  == Calls < MaxCalls
-----------------------------------------------------------------------------
(* Play and SetCurrentPosition: a new generation. Play takes the position  *)
(* it will report at first before the voice chooses where it goes on.      *)
PlayAnchor == IF ended THEN 0 ELSE last_reported_source_frame

Play ==
    /\ Returned /\ Bounded
    /\ \E loop \in BOOLEAN : StartPlay(loop, playback_generation + 1)
    /\ game' = [at |-> "control", anchor |-> PlayAnchor]
    /\ UNCHANGED <<bufferVars, playback, sharedVars, cursorVars,
                   audible_drain, active_voices, renderVars, historyVars,
                   timelineVars, snapshotVars>>

SetCurrentPosition ==
    /\ Returned /\ Bounded
    /\ \E frame \in SeekFrames :
           /\ StartSeek(frame, playback_generation + 1)
           /\ game' = [at |-> "control", anchor |-> frame]
    /\ UNCHANGED <<bufferVars, playback, sharedVars, cursorVars,
                   audible_drain, active_voices, renderVars, historyVars,
                   timelineVars, snapshotVars>>

ControlAccepted ==
    /\ game.at = "control" /\ control.at = "done"
    /\ playback_generation' = playback_generation + 1
    /\ last_reported_source_frame' = game.anchor
    /\ Expect(playback_generation + 1)
    /\ control' = Idle /\ game' = Idle
    /\ UNCHANGED <<presented, stateVars, sharedVars, cursorVars,
                   audible_drain, active_voices, renderVars, historyVars,
                   slots, published_generation, snapshotVars>>
-----------------------------------------------------------------------------
(* GetCurrentPosition and GetStatus. Stop first resolves the position in   *)
(* the same way, and then goes on to stop the voice.                       *)
(* What the query has found: for the status, whether the buffer plays;     *)
(* otherwise how the position was found, and the position.                 *)
ReportsOf(call, status, frame, verdict) ==
    game' = [at |-> "report", call |-> call, playing |-> status,
             frame |-> frame, verdict |-> verdict]
Reports(status, frame, verdict) == ReportsOf(game.call, status, frame, verdict)

BeginQuery ==
    /\ Returned
    /\ \E call \in {"position", "status"} :
           IF call = "status" /\ Playing
           THEN ReportsOf(call, TRUE, -1, "none")
           ELSE game' = [at |-> "drain", call |-> call, mixing |-> Playing]
    /\ UNCHANGED <<bufferVars, voiceVars, timelineVars, snapshotVars>>

ReadAudibleUntil ==
    /\ game.at = "drain"
    /\ IF ~game.mixing /\ AudibleUntil = 0
       THEN Reports(FALSE, -1, "inactive")
       ELSE game' = [at |-> "clock", call |-> game.call,
                     mixing |-> game.mixing, until |-> AudibleUntil]
    /\ UNCHANGED <<bufferVars, voiceVars, timelineVars, snapshotVars>>

(* CurrentOutputFrame of the presented clock: never behind what it has     *)
(* returned nor at what has not been rendered, and unknown until the first *)
(* sample.                                                                 *)
OutputFrames ==
    Max({presented, 0})..output_frame - 1

ReadClock ==
    /\ game.at = "clock"
    /\ \/ /\ presented = -1
          /\ Reports(TRUE, -1, "none")
          /\ UNCHANGED presented
       \/ \E frame \in OutputFrames :
              /\ presented' = frame
              /\ IF game.call = "status"
                 THEN Reports(frame < game.until, frame, "none")
                 ELSE IF ~game.mixing /\ frame >= game.until
                 THEN Reports(FALSE, frame, "inactive")
                 ELSE game' = [at |-> "search", call |-> game.call,
                               search |-> Search(playback_generation, frame)]
    /\ UNCHANGED <<playback_generation, last_reported_source_frame, voiceVars,
                   timelineVars, snapshotVars>>

(* ResolveSourceFrame. A position that is not found is the last one.       *)
SearchSpan ==
    /\ game.at = "search"
    /\ LET search == game.search
       IN  IF Exhausted(search)
           THEN /\ Reports(TRUE, search.frame, Miss(search))
                /\ UNCHANGED last_reported_source_frame
           ELSE IF Found(search)
           THEN /\ Reports(TRUE, search.frame, "resolved")
                /\ last_reported_source_frame' =
                       SourceAt(StableSpan(search), search.frame) % SourceLength
           ELSE /\ game' = [game EXCEPT !.search = NextSlot(search)]
                /\ UNCHANGED last_reported_source_frame
    /\ UNCHANGED <<playback_generation, presented, voiceVars, timelineVars,
                   snapshotVars>>

Return ==
    /\ game.at = "report"
    /\ game' = Idle
    /\ UNCHANGED <<bufferVars, voiceVars, timelineVars, snapshotVars>>

StopVoice ==
    /\ game.at = "report" /\ game.call = "position"
    /\ StartStop
    /\ game' = [at |-> "stopping"]
    /\ UNCHANGED <<bufferVars, playback, sharedVars, cursorVars,
                   audible_drain, active_voices, renderVars, historyVars,
                   timelineVars, snapshotVars>>

Stopped ==
    /\ game.at = "stopping" /\ control.at = "done"
    /\ control' = Idle /\ game' = Idle
    /\ UNCHANGED <<bufferVars, stateVars, sharedVars, cursorVars,
                   audible_drain, active_voices, renderVars, historyVars,
                   timelineVars, snapshotVars>>
-----------------------------------------------------------------------------
(* The destructor: the voice is stopped and detached, which waits for the  *)
(* callback under way, and then the history is closed.                     *)
Release ==
    /\ Returned
    /\ StartStop
    /\ game' = [at |-> "releasing"]
    /\ UNCHANGED <<bufferVars, playback, sharedVars, cursorVars,
                   audible_drain, active_voices, renderVars, historyVars,
                   timelineVars, snapshotVars>>

Detached == render.at \in {"idle", "finish"}

Released ==
    /\ game.at = "releasing" /\ control.at = "done" /\ Detached
    /\ CloseExactWriter
    /\ control' = Idle /\ game' = [at |-> "released"]
    /\ UNCHANGED <<bufferVars, stateVars, sharedVars, cursorVars,
                   audible_drain, active_voices, renderVars, historyVars,
                   slots, published_generation, snapshotVars>>

(* Lock and Unlock with the writes between them, and Restore.              *)
WriteSamples ==
    /\ game.at = "idle"
    /\ \/ Calls + 2 <= MaxCalls      \* a lock and its unlock
       \/ writer # "idle" \/ outstanding # None
    /\ SnapshotWriter
    /\ UNCHANGED <<bufferVars, voiceVars, timelineVars, game>>

Next ==
    \/ Play \/ SetCurrentPosition \/ ControlAccepted
    \/ BeginQuery \/ ReadAudibleUntil \/ ReadClock
    \/ SearchSpan \/ Return \/ StopVoice \/ Stopped
    \/ Release \/ Released \/ WriteSamples
    \/ VoiceControl /\ UNCHANGED <<bufferVars, game>>
    \/ RenderStep /\ UNCHANGED <<bufferVars, game>>

Spec == Init /\ [][Next]_allVars
-----------------------------------------------------------------------------
(* The voice is counted as active from its start to its end or its stop,   *)
(* exactly once, whichever of the two threads ends it.                     *)
ActiveVoicesCounted ==
    active_voices =
        IF \/ playback.phase \in {"Playing", "Stopping"}
           \/ playback.phase = "Starting"
              /\ (control.started \/ control.at = "commit")
           \/ playback.phase = "Ending" /\ render.at \in {"drain", "stop_node"}
        THEN 1 ELSE 0

(* The position reported for an output frame is what is heard there, of    *)
(* the generation the game asked for last; and a position is not missed    *)
(* while the ring holds it. (Both but for a play that met the render       *)
(* thread inside the voice.)                                               *)
RingHolds(frame) ==
    \E i \in DOMAIN slots : Covers(slots[i].span, playback_generation, frame)

ReportTruthful ==
    game.at = "report" /\ ~overlapped =>
        /\ game.verdict = "resolved" =>
               heard[game.frame] = [epoch  |-> playback_generation,
                                    source |-> last_reported_source_frame]
        /\ game.verdict \in {"pending", "unmapped"} => ~RingHolds(game.frame)

(* A buffer whose source has ended is reported as playing until its last   *)
(* frame has been presented.                                               *)
StatusNotEarly ==
    /\ game.at = "report" /\ game.call = "status" /\ ~game.playing
    /\ playback.phase \in {"Ending", "Ended"} /\ ~overlapped
    => \A f \in DOMAIN heard :
           heard[f] # Silent /\ heard[f].epoch = playback_generation
               => f < game.frame

(* What the game is told of position and status is what is heard.          *)
ReportsAreHeard == ReportTruthful /\ StatusNotEarly

(* The exact history is never broken, and gives for every output frame     *)
(* what is heard there: a frame is resolved exactly when a source sounds   *)
(* at it, unless its epoch was evicted.                                    *)
ExactHistoryTruthful ==
    ~overlapped =>
        /\ ~exact.discontinuous
        /\ \A f \in DOMAIN heard :
               LET answer == ResolveExactSourceFrame(f)
               IN  /\ answer.status # "Discontinuous"
                   /\ answer.status = "Resolved" =>
                          heard[f] = [epoch  |-> answer.generation,
                                      source |-> answer.source % SourceLength]
                   /\ heard[f] # Silent =>
                          answer.status \in {"Resolved", "HistoryLost"}

(* A seek that is not yet applied when the game plays the buffer decides   *)
(* where the play begins.                                                  *)
PlayKeepsSeekAnchor == ~lost_anchor
=============================================================================
