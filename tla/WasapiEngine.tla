---------------------------- MODULE WasapiEngine ----------------------------
(* The WASAPI engine around its render loop (ExclusiveAudioEngine.cpp):    *)
(* the game thread starts it and waits, the audio thread creates the       *)
(* endpoint, renders and cleans up after itself, the monitor thread        *)
(* reports a runtime failure. They share manual-reset events, a few atomic *)
(* words and the registry of the judgement timeline                        *)
(* (ExactJudgementTimeline.cpp). What the render loop does with one packet *)
(* is the module WasapiRenderLoop; here a turn of it goes well or fails.   *)
EXTENDS Naturals, Sequences

CONSTANT FailureStages     \* the stages at which a running output can fail

ASSUME FailureStagesAssumption ==
    "None" \notin FailureStages /\ "InitializeMixer" \in FailureStages

VARIABLES
    exact,            \* enable_absolute_time_judgement_
    start,            \* where StartExclusiveAudioEngineAndWait is
    audio,            \* where AudioThreadMain is
    monitor,          \* where MonitorThreadMain is
    events,           \* the events that are set
    succeeded,        \* initialization_succeeded_
    endpoint,         \* endpoint_ exists
    exact_clock,      \* the timeline: "none", "live" or "invalid"
    provider,         \* the registry holds it
    failure_claimed,
    failure_stage,
    record,           \* per recorder: the step of RecordRuntimeFailure
    reports,          \* what the observer was told, in order
    process           \* "running", "modal" (AbortProcess) or "ended"

startVars   == <<start, reports>>
timelineVars   == <<exact_clock, provider>>
failureVars == <<failure_claimed, failure_stage, record>>
audioVars   == <<audio, endpoint, timelineVars>>
engineVars  == <<exact, start, audio, monitor, events, succeeded, endpoint,
                 exact_clock, provider, failure_claimed, failure_stage,
                 record, reports, process>>

(* The two threads that record a runtime failure.                          *)
Recorders == {"audio", "game"}
Idle == [step |-> "idle", stage |-> "None"]

EngineInit ==
    /\ exact \in BOOLEAN
    /\ start = "none" /\ audio = "none" /\ monitor = "none"
    /\ events = {} /\ succeeded = FALSE /\ endpoint = FALSE
    /\ exact_clock = "none" /\ provider = FALSE
    /\ failure_claimed = FALSE /\ failure_stage = "None"
    /\ record = [r \in Recorders |-> Idle]
    /\ reports = <<>> /\ process = "running"

SetEvent(event) == events' = events \union {event}

(* AbortProcess: the first thread that calls it shows a message, which     *)
(* leaves the other threads running until it is closed; the second one     *)
(* ends the process at once.                                               *)
AbortProcess ==
    process' = IF process = "running" THEN "modal" ELSE "ended"

DismissModal ==
    /\ process = "modal"
    /\ process' = "ended"
    /\ UNCHANGED <<exact, startVars, audioVars, monitor, events, succeeded,
                   failureVars>>

-----------------------------------------------------------------------------
(* StartExclusiveAudioEngineAndWait, on the game thread.                   *)
CreateEngine ==
    /\ start = "none"
    /\ start' = "threads"
    /\ UNCHANGED <<exact, audioVars, monitor, events, succeeded, failureVars,
                   reports, process>>

(* Mutant: when the second thread is refused the first is not told.        *)
RefusedThreadLeft ==
    /\ start = "threads"
    /\ \/ /\ audio' = "create" /\ monitor' = "await_init"
          /\ start' = "wait"
       \/ /\ monitor' = "await_init" /\ start' = "destroy"
          /\ UNCHANGED audio
    /\ UNCHANGED <<exact, endpoint, timelineVars, events, succeeded,
                   failureVars, reports, process>>

(* CreateControlEvents, StartThreads. The events, the first thread or the  *)
(* second one, when the first is running, may be refused.                  *)
StartThreads ==
    /\ start = "threads"
    /\ \/ /\ audio' = "create" /\ monitor' = "await_init"
          /\ start' = "wait"
          /\ UNCHANGED events
       \/ /\ start' = "destroy"
          /\ events' \in {events, events \union {"initialization",
                                                 "shutdown"}}
          /\ UNCHANGED <<audio, monitor>>
       \/ /\ monitor' = "await_init"
          /\ events' = events \union {"initialization", "shutdown"}
          /\ start' = "destroy"
          /\ UNCHANGED audio
    /\ UNCHANGED <<exact, endpoint, timelineVars, succeeded, failureVars,
                   reports, process>>

(* An engine that does not answer in time is given up without being        *)
(* destroyed, and its threads go on.                                       *)
AwaitInitialization ==
    /\ start = "wait"
    /\ start' = IF "initialization" \notin events THEN "leaked"
                ELSE IF succeeded THEN "report" ELSE "destroy"
    /\ UNCHANGED <<exact, audioVars, monitor, events, succeeded, failureVars,
                   reports, process>>

(* Mutant: the monitor is not told that the start was reported.            *)
ReportWithoutSignal ==
    /\ start = "report"
    /\ reports' = Append(reports, "StartupSucceeded")
    /\ start' = "started"
    /\ UNCHANGED <<exact, audioVars, monitor, events, succeeded, failureVars,
                   process>>

ReportStartup ==
    /\ start = "report"
    /\ reports' = Append(reports, "StartupSucceeded")
    /\ start' = "signal"
    /\ UNCHANGED <<exact, audioVars, monitor, events, succeeded, failureVars,
                   process>>

SignalStartupReported ==
    /\ start = "signal"
    /\ SetEvent("startup_reported")
    /\ start' = "started"
    /\ UNCHANGED <<exact, audioVars, monitor, succeeded, failureVars,
                   reports, process>>

-----------------------------------------------------------------------------
(* ~ExclusiveAudioEngine: only an engine that has failed to start is       *)
(* destroyed.                                                              *)
SignalShutdown ==
    /\ start = "destroy"
    /\ SetEvent("shutdown")
    /\ start' = "join"
    /\ UNCHANGED <<exact, audioVars, monitor, succeeded, failureVars,
                   reports, process>>

Joined == audio \in {"none", "ended"} /\ monitor \in {"none", "ended"}

JoinThreads ==
    /\ start = "join"
    /\ Joined
    /\ exact_clock' = IF exact_clock = "live" THEN "invalid" ELSE exact_clock
    /\ provider' = FALSE
    /\ events' = {}
    /\ start' = "failed"
    /\ UNCHANGED <<exact, audio, endpoint, monitor, succeeded, failureVars,
                   reports, process>>

-----------------------------------------------------------------------------
(* AudioThreadMain. An attempt that fails after the endpoint was created   *)
(* cleans up on this thread before it signals.                             *)
AudioFrame == <<exact, startVars, monitor, process>>

CreateEndpoint ==
    /\ audio = "create"
    /\ \/ endpoint' = TRUE /\ audio' = "prepare"
       \/ audio' = "refuse" /\ UNCHANGED endpoint
    /\ UNCHANGED <<AudioFrame, events, succeeded, timelineVars, failureVars>>

(* The format, the render core, the first clock position.                  *)
PrepareOutput ==
    /\ audio = "prepare"
    /\ \/ audio' = IF exact THEN "register" ELSE "start"
       \/ audio' = "cleanup"
    /\ UNCHANGED <<AudioFrame, events, succeeded, endpoint, timelineVars,
                   failureVars>>

RegisterExactJudgementTimeline ==
    /\ audio = "register"
    /\ \/ exact_clock' = "live" /\ provider' = TRUE /\ audio' = "start"
       \/ audio' = "cleanup" /\ UNCHANGED timelineVars
    /\ UNCHANGED <<AudioFrame, events, succeeded, endpoint, failureVars>>

StartEndpoint ==
    /\ audio = "start"
    /\ audio' \in {"announce", "cleanup"}
    /\ UNCHANGED <<AudioFrame, events, succeeded, endpoint, timelineVars,
                   failureVars>>

AnnounceSuccess ==
    /\ audio = "announce"
    /\ succeeded' = TRUE
    /\ SetEvent("initialization")
    /\ audio' = "render"
    /\ UNCHANGED <<AudioFrame, endpoint, timelineVars, failureVars>>

(* A turn of RenderLoop that ends it: another thread has recorded a        *)
(* failure, or this turn fails. A failure to read the clock invalidates    *)
(* the timeline before anything else happens.                              *)
LeaveRenderLoop ==
    /\ audio = "render"
    /\ failure_stage # "None"
    /\ audio' = "cleanup"
    /\ UNCHANGED <<AudioFrame, events, succeeded, endpoint, timelineVars,
                   failureVars>>

Claim(recorder, stage) ==
    record' = [record EXCEPT ![recorder] =
                   [step |-> "claim", stage |-> stage]]

(* Mutant: the clean-up comes before the failure is recorded.              *)
RenderFailsUnrecorded ==
    /\ audio = "render"
    /\ audio' = "cleanup"
    /\ UNCHANGED <<AudioFrame, events, succeeded, endpoint, timelineVars,
                   failureVars>>

RenderFails ==
    /\ audio = "render"
    /\ \E stage \in FailureStages : Claim("audio", stage)
    /\ \/ UNCHANGED exact_clock
       \/ exact_clock = "live" /\ exact_clock' = "invalid"
    /\ audio' = "record"
    /\ UNCHANGED <<AudioFrame, events, succeeded, endpoint, provider,
                   failure_claimed, failure_stage>>

RenderRecorded ==
    /\ audio = "record"
    /\ record["audio"].step = "idle"
    /\ audio' = "cleanup"
    /\ UNCHANGED <<AudioFrame, events, succeeded, endpoint, timelineVars,
                   failureVars>>

(* CleanupEndpointOnAudioThread: the timeline is invalidated, taken out of *)
(* the registry and released, then the endpoint is shut down.              *)
AfterCleanup == IF succeeded THEN "exit" ELSE "refuse"

InvalidateClock ==
    /\ audio = "cleanup"
    /\ exact_clock' = IF exact_clock = "live" THEN "invalid" ELSE exact_clock
    /\ audio' = IF provider THEN "unregister" ELSE "release"
    /\ UNCHANGED <<AudioFrame, events, succeeded, endpoint, provider,
                   failureVars>>

UnregisterExactJudgementTimeline ==
    /\ audio = "unregister"
    /\ provider' = FALSE
    /\ audio' = "release"
    /\ UNCHANGED <<AudioFrame, events, succeeded, endpoint, exact_clock,
                   failureVars>>

ReleaseEndpoint ==
    /\ audio = "release"
    /\ endpoint' = FALSE
    /\ audio' = AfterCleanup
    /\ UNCHANGED <<AudioFrame, events, succeeded, timelineVars, failureVars>>

SignalInitializationFailure ==
    /\ audio = "refuse"
    /\ succeeded' = FALSE
    /\ SetEvent("initialization")
    /\ audio' = "exit"
    /\ UNCHANGED <<AudioFrame, endpoint, timelineVars, failureVars>>

AudioThreadExits ==
    /\ audio = "exit"
    /\ SetEvent("audio_exited")
    /\ audio' = "ended"
    /\ UNCHANGED <<AudioFrame, succeeded, endpoint, timelineVars, failureVars>>

(* The member of the engine that a voice uses; it is gone once the         *)
(* clean-up has reached the endpoint.                                      *)
ClockMember ==
    exact /\ audio \in {"start", "announce", "render", "record", "cleanup",
                        "unregister"}

-----------------------------------------------------------------------------
(* RecordRuntimeFailure: the first to claim stores its stage and signals.  *)
RecordFrame == <<exact, startVars, audioVars, monitor, succeeded, process>>

Advance(recorder, step) ==
    record' = [record EXCEPT ![recorder].step = step]

ClaimFailure(recorder) ==
    /\ record[recorder].step = "claim"
    /\ IF failure_claimed
       THEN record' = [record EXCEPT ![recorder] = Idle]
       ELSE Advance(recorder, "store")
    /\ failure_claimed' = TRUE
    /\ UNCHANGED <<RecordFrame, events, failure_stage>>

StoreFailure(recorder) ==
    /\ record[recorder].step = "store"
    /\ failure_stage' = record[recorder].stage
    /\ Advance(recorder, "signal")
    /\ UNCHANGED <<RecordFrame, events, failure_claimed>>

SignalFailure(recorder) ==
    /\ record[recorder].step = "signal"
    /\ SetEvent("fatal")
    /\ record' = [record EXCEPT ![recorder] = Idle]
    /\ UNCHANGED <<RecordFrame, failure_claimed, failure_stage>>

RecordRuntimeFailure(recorder) ==
    \/ ClaimFailure(recorder)
    \/ StoreFailure(recorder)
    \/ SignalFailure(recorder)

-----------------------------------------------------------------------------
(* MonitorThreadMain. An engine that runs is never shut down, so of the    *)
(* two events it waits for the shutdown can only meet it at the start.     *)
MonitorFrame == <<exact, start, audioVars, events, succeeded, failureVars>>

(* Mutant: the monitor watches as soon as the initialization is signalled.  *)
MonitorSkipsReport ==
    /\ monitor = "await_init"
    /\ "initialization" \in events
    /\ monitor' = IF succeeded THEN "watch" ELSE "ended"
    /\ UNCHANGED <<MonitorFrame, reports, process>>

MonitorSeesInitialization ==
    /\ monitor = "await_init"
    /\ "initialization" \in events
    /\ monitor' = IF succeeded THEN "await_report" ELSE "ended"
    /\ UNCHANGED <<MonitorFrame, reports, process>>

MonitorSeesReport ==
    /\ monitor = "await_report"
    /\ "startup_reported" \in events
    /\ monitor' = "watch"
    /\ UNCHANGED <<MonitorFrame, reports, process>>

(* The production observer ends the process in RuntimeFailed.              *)
MonitorReportsFailure ==
    /\ monitor = "watch"
    /\ "fatal" \in events
    /\ reports' = Append(reports, failure_stage)
    /\ AbortProcess
    /\ monitor' = "ended"
    /\ UNCHANGED MonitorFrame

-----------------------------------------------------------------------------
AudioThread ==
    \/ CreateEndpoint \/ PrepareOutput \/ RegisterExactJudgementTimeline
    \/ StartEndpoint \/ AnnounceSuccess \/ LeaveRenderLoop \/ RenderRecorded
    \/ InvalidateClock \/ UnregisterExactJudgementTimeline \/ ReleaseEndpoint
    \/ SignalInitializationFailure \/ AudioThreadExits

MonitorThread ==
    \/ MonitorSeesInitialization \/ MonitorSeesReport \/ MonitorReportsFailure

(* StartAndWait without the time-out.                                      *)
StartAndWait ==
    \/ StartThreads \/ AwaitInitialization \/ ReportStartup
    \/ SignalStartupReported \/ SignalShutdown \/ JoinThreads

(* A failed start reaches the caller as a null engine.                     *)
StartFailed == start \in {"failed", "leaked"}

EngineTypeOK ==
    /\ exact \in BOOLEAN /\ succeeded \in BOOLEAN /\ endpoint \in BOOLEAN
    /\ start \in {"none", "threads", "wait", "report", "signal", "started",
                  "destroy", "join", "failed", "leaked"}
    /\ audio \in {"none", "create", "prepare", "register", "start",
                  "announce", "render", "record", "cleanup", "unregister",
                  "release", "refuse", "exit", "ended"}
    /\ monitor \in {"none", "await_init", "await_report", "watch", "ended"}
    /\ events \subseteq {"initialization", "startup_reported", "fatal",
                         "shutdown", "audio_exited"}
    /\ exact_clock \in {"none", "live", "invalid"}
    /\ provider \in BOOLEAN /\ failure_claimed \in BOOLEAN
    /\ failure_stage \in FailureStages \union {"None"}
    /\ record \in [Recorders -> [step: {"idle", "claim", "store", "signal"},
                                 stage: FailureStages \union {"None"}]]
    /\ reports \in Seq({"StartupSucceeded"} \union FailureStages)
    /\ process \in {"running", "modal", "ended"}
=============================================================================
