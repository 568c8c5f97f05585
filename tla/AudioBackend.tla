---------------------------- MODULE AudioBackend ----------------------------
(* The output as the game uses it (AudioRuntimeState.cpp,                  *)
(* AudioBackendController.cpp, DirectSoundHook.cpp): the start-up publishes *)
(* a runtime for the configured backend, the game's one sound thread       *)
(* creates the device, starts the output, creates voices and, with ASIO,   *)
(* closes the output at its end. Together with the engine of the backend.  *)
EXTENDS WasapiEngine, AsioSession

VARIABLES
    backend,     \* the configured backend
    runtime,     \* g_runtime is set
    control,     \* the controller: "none", "not_started", "starting",
                 \* "active"
    game,        \* where the game's sound thread is
    voice,       \* the creation of a voice has checked the exact clock
    stale_clock  \* history: it then used a clock that had been released

gameVars  == <<backend, runtime, control, game, voice, stale_clock>>
audioVars_ == <<engineVars, asioVars, gameVars>>

Init ==
    /\ EngineInit /\ AsioInit
    /\ backend \in {"wasapi_exclusive", "asio"}
    /\ runtime = FALSE /\ control = "none" /\ game = "boot"
    /\ voice = "none" /\ stale_clock = FALSE

BackendFrame == <<backend, voice, stale_clock>>
ProcessOnly ==
    UNCHANGED <<exact, start, audio, monitor, events, succeeded, endpoint,
                exact_clock, provider, failureVars, reports>>

(* A call that ends in AbortProcess does not return.                       *)
GameAborts ==
    /\ AbortProcess
    /\ game' = "aborted"
    /\ ProcessOnly

-----------------------------------------------------------------------------
(* PrepareAndPublishAudioRuntime. The ASIO controller is made with the     *)
(* runtime.                                                                *)
PrepareAndPublishAudioRuntime ==
    /\ game = "boot"
    /\ \/ /\ runtime' = TRUE
          /\ control' = IF backend = "asio" THEN "not_started" ELSE "none"
          /\ game' = "device"
          /\ UNCHANGED engineVars
       \/ GameAborts /\ UNCHANGED <<runtime, control>>
    /\ UNCHANGED <<BackendFrame, asioVars>>

(* DirectSoundCreate8Detour with GetOrCreateController.                    *)
DirectSoundCreate8 ==
    /\ game = "device"
    /\ \/ /\ control' = "not_started" /\ game' = "cooperative"
          /\ UNCHANGED engineVars
       \/ control = "none" /\ GameAborts /\ UNCHANGED control
    /\ UNCHANGED <<BackendFrame, runtime, asioVars>>

(* StartForWindow, up to its wait for the engine or the owner thread.      *)
StartForWindow ==
    /\ game = "cooperative"
    /\ control' = "starting" /\ game' = "starting"
    /\ IF backend = "asio" THEN StartOwner /\ UNCHANGED engineVars
                           ELSE CreateEngine /\ UNCHANGED asioVars
    /\ UNCHANGED <<BackendFrame, runtime>>

GameWaitsForEngine ==
    /\ game = "starting"
    /\ StartAndWait
    /\ UNCHANGED <<asioVars, gameVars>>

(* PublishResult, or AbortAudioBackendStartup.                             *)
StartReturns ==
    /\ game = "starting"
    /\ \/ /\ start = "started" \/ (startup_complete /\ services)
          /\ control' = "active" /\ game' = "ready"
          /\ UNCHANGED engineVars
       \/ StartFailed /\ GameAborts /\ UNCHANGED control
    /\ UNCHANGED <<BackendFrame, runtime, asioVars>>

-----------------------------------------------------------------------------
(* ExclusiveAudioEngine::CreateVoice for a voice of the judged song. It    *)
(* looks at the engine's clock twice, and nothing keeps the audio thread   *)
(* from releasing it in between.                                           *)
VoiceFails ==
    /\ Claim("game", "InitializeMixer")
    /\ voice' = "none"

VoiceFrame ==
    UNCHANGED <<exact, startVars, audioVars, monitor, events, succeeded,
                failure_claimed, failure_stage, asioVars, backend, runtime,
                control, game>>

CheckExactClock ==
    /\ game = "ready" /\ exact /\ start = "started"
    /\ voice = "none" /\ record["game"].step = "idle"
    /\ IF ClockMember THEN voice' = "checked" /\ UNCHANGED record
                      ELSE VoiceFails
    /\ VoiceFrame /\ UNCHANGED <<process, stale_clock>>

UseExactClock ==
    /\ voice = "checked"
    /\ ClockMember
    /\ \/ voice' = "none" /\ UNCHANGED record
       \/ VoiceFails
    /\ VoiceFrame /\ UNCHANGED <<process, stale_clock>>

(* A clock released under the call: it may crash, or seem to go well.      *)
UseReleasedClock ==
    /\ voice = "checked"
    /\ ~ClockMember
    /\ stale_clock' = TRUE
    /\ \/ process' = "ended" /\ voice' = "none" /\ UNCHANGED record
       \/ UNCHANGED process /\ voice' = "none" /\ UNCHANGED record
       \/ UNCHANGED process /\ VoiceFails
    /\ VoiceFrame

-----------------------------------------------------------------------------
(* ReleaseAudioRuntimeAtOrdinaryAsioClose, after the game has destroyed    *)
(* its sound objects.                                                      *)
CloseAsio ==
    /\ game = "ready" /\ backend = "asio"
    /\ runtime' = FALSE /\ game' = "closing"
    /\ RequestShutdown
    /\ UNCHANGED <<BackendFrame, control, engineVars>>

JoinOwner ==
    /\ game = "closing" /\ owner = "ended"
    /\ game' = "closed" /\ control' = "none"
    /\ UNCHANGED <<BackendFrame, runtime, engineVars, asioVars>>

-----------------------------------------------------------------------------
Alive == process # "ended" /\ ~fatal

EngineThreads ==
    /\ \/ AudioThread \/ RenderFails \/ MonitorThread \/ DismissModal
       \/ \E recorder \in Recorders : RecordRuntimeFailure(recorder)
    /\ UNCHANGED <<asioVars, gameVars>>

AsioThreads ==
    /\ (OwnerThread \/ DriverThread)
    /\ UNCHANGED <<engineVars, gameVars>>

GameThread ==
    \/ PrepareAndPublishAudioRuntime \/ DirectSoundCreate8 \/ StartForWindow
    \/ GameWaitsForEngine \/ StartReturns
    \/ CheckExactClock \/ UseExactClock \/ UseReleasedClock
    \/ CloseAsio \/ JoinOwner

Next == Alive /\ (GameThread \/ EngineThreads \/ AsioThreads)

Spec == Init /\ [][Next]_audioVars_

(* A thread that can go on does; a start that takes too long is given up   *)
(* by its time-out. The driver, which is external, leaves its calls and    *)
(* returns from Stop. Nothing is assumed of the audio thread's calls of    *)
(* the endpoint, only that it signals its exit after them, nor that the    *)
(* game creates voices or closes the output.                               *)
Step(A) == Alive /\ A /\ UNCHANGED <<asioVars, gameVars>>
OwnerStep(A) == Alive /\ A /\ UNCHANGED <<engineVars, gameVars>>

AudioFairness ==
    /\ WF_audioVars_(Alive /\ GameWaitsForEngine)
    /\ WF_audioVars_(Alive /\ StartReturns)
    /\ WF_audioVars_(Alive /\ JoinOwner)
    /\ WF_audioVars_(Step(MonitorThread))
    /\ WF_audioVars_(Step(AudioThreadExits))
    /\ \A recorder \in Recorders :
           WF_audioVars_(Step(RecordRuntimeFailure(recorder)))
    /\ WF_audioVars_(OwnerStep(LoadDriver \/ CreateBuffers \/ PublishTarget
                                  \/ StartDriver \/ PublishServices))
    /\ WF_audioVars_(OwnerStep(shutdown_requested /\ LeaveMessageLoop))
    /\ SF_audioVars_(OwnerStep(StopDriver))
    /\ WF_audioVars_(OwnerStep(ReleaseSession))
    /\ \A c \in Callbacks :
           WF_audioVars_(OwnerStep(TakeFlag(c) \/ FillBuffer(c)))

FairSpec == Spec /\ AudioFairness

-----------------------------------------------------------------------------
TypeOK ==
    /\ EngineTypeOK /\ AsioTypeOK
    /\ backend \in {"wasapi_exclusive", "asio"}
    /\ runtime \in BOOLEAN
    /\ control \in {"none", "not_started", "starting", "active"}
    /\ game \in {"boot", "device", "cooperative", "starting", "ready",
                 "closing", "closed", "aborted"}
    /\ voice \in {"none", "checked"} /\ stale_clock \in BOOLEAN

(* The observer is told of the start before it is told of a failure,       *)
(* although the failure may come first, and it is told once, with the      *)
(* stage that was recorded first (MonitorThreadMain,                       *)
(* RecordRuntimeFailure).                                                  *)
ReportsInOrder ==
    /\ Len(reports) <= 2
    /\ Len(reports) >= 1 => reports[1] = "StartupSucceeded"
    /\ Len(reports) = 2 => reports[2] = failure_stage

(* The audio thread may release the clock under a voice that is being      *)
(* created (ExclusiveAudioEngine.cpp:595, 782), but only in an output that *)
(* has recorded a failure and will end the process.                        *)
StaleClockOnlyAfterFailure == stale_clock => failure_claimed

(* A recorded failure ends the process, whenever it comes: while the       *)
(* output starts, after the start was given up, from either thread.        *)
FailureEndsProcess == failure_claimed ~> process # "running"

(* The game thread's two waits end: the one for the start and the one for  *)
(* the owner thread at the close.                                          *)
StartEnds == game = "starting" ~> game # "starting" \/ ~Alive
CloseEnds == game = "closing" ~> game = "closed" \/ ~Alive
WaitsEnd == StartEnds /\ CloseEnds
=============================================================================
