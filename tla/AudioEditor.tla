----------------------------- MODULE AudioEditor ----------------------------
(***************************************************************************)
(* The audio page of the configuration tool: the window's loop (Main.cpp), *)
(* the model of the page (AudioBackendEditorModel), the worker whose       *)
(* thread inspects a driver, shows its control panel or saves              *)
(* (AudioOperationWorker), and the file. While an operation is under way   *)
(* the page is disabled, while a save is, the whole window; a captured     *)
(* binding, which stands for every setting off the page, still arrives.    *)
(* The catalogue of drivers is available.                                  *)
(***************************************************************************)
EXTENDS AsioHost

CONSTANTS
    Names,          \* driver names the user enters; "" is none
    Frames,         \* buffer sizes the user enters
    Bases,          \* channels the user enters
    MaxEdits,       \* bound: edits
    MaxOperations   \* bound: operations started

VARIABLES
    tool,        \* "closed", "open", "closing", "ended"
    config,      \* the document
    dirty,
    inspection,  \* inspection_state_ and report_
    operation,   \* operation_, of the worker
    worker,      \* its thread: where it is, the document it saves, its result
    file,        \* the configuration file
    edits, operations

editorVars == <<tool, config, dirty, inspection, operation, worker, file,
                edits, operations>>
toolVars == <<hostVars, editorVars>>

Uninspected == [state |-> "idle", report |-> Failure("driver")]
NoWorker    == [at |-> "none"]
Succeeded   == [is |-> "saved"]
NoFile      == [backend |-> "no file"]

ToolInit ==
    /\ HostInit
    /\ tool = "open"
    /\ config = [backend |-> "wasapi_exclusive", driver |-> "", frames |-> 0,
                 base |-> 0, binding |-> 0]
    /\ file = config /\ dirty = FALSE
    /\ inspection = Uninspected
    /\ operation = "idle" /\ worker = NoWorker
    /\ edits = 0 /\ operations = 0

Busy == operation # "idle"

-----------------------------------------------------------------------------
(* Edits. Each setter of the page gives up the inspection.                 *)
Edit ==
    /\ tool = "open" /\ edits < MaxEdits /\ edits' = edits + 1
    /\ dirty' = TRUE
    /\ UNCHANGED <<tool, operation, worker, file, operations, hostVars>>

(* Mutant: the inspection of the former settings stays on the page.        *)
SetKeepingInspection(document) ==
    /\ ~Busy /\ document # config
    /\ config' = document /\ UNCHANGED inspection
    /\ Edit

Set(document) ==
    /\ ~Busy /\ document # config
    /\ config' = document /\ inspection' = Uninspected
    /\ Edit

SetBackend == \E backend \in {"wasapi_exclusive", "asio"} :
                  Set([config EXCEPT !.backend = backend])
OnAsioPage == config.backend = "asio"
SetDriverName == OnAsioPage /\ \E name \in Names : Set([config EXCEPT !.driver = name])
SetBufferFrames == OnAsioPage /\ \E frames \in Frames : Set([config EXCEPT !.frames = frames])
SetOutputBaseChannel == OnAsioPage /\ \E base \in Bases : Set([config EXCEPT !.base = base])

ApplyCompletedCapture ==
    /\ config' = [config EXCEPT !.binding = 1 - @]
    /\ Edit /\ UNCHANGED inspection

-----------------------------------------------------------------------------
(* The buttons. Start* may fail to create its thread.                      *)
Starts(op, state) ==
    /\ operations < MaxOperations /\ operations' = operations + 1
    /\ operation' = op /\ worker' = state
    /\ UNCHANGED <<tool, config, dirty, file, edits>>
StartFails ==
    /\ operations < MaxOperations /\ operations' = operations + 1
    /\ UNCHANGED <<tool, config, dirty, operation, worker, file, edits, hostVars>>
HostUntouched == UNCHANGED <<devices, host, stdin, stdout, reader, job, accepted>>

Request(mode, document) ==
    [mode |-> mode, driver |-> document.driver, frames |-> document.frames,
     base |-> document.base]

(* BeginInspection and StartInspection.                                    *)
Inspect ==
    \/ /\ inspection' = [state |-> "probing", report |-> Failure("driver")]
       /\ Starts("inspection", [at |-> "running"])
       /\ BeginRun(Request("inspect", config))
       /\ HostUntouched /\ UNCHANGED cancel
    \/ inspection' = [state |-> "failed", report |-> Failure("driver")] /\ StartFails

PressInspect == tool = "open" /\ ~Busy /\ OnAsioPage /\ Inspect

PressControlPanel ==
    /\ tool = "open" /\ ~Busy /\ OnAsioPage /\ config.driver # ""
    /\ inspection' = Uninspected
    /\ \/ /\ Starts("control_panel", [at |-> "running"])
          /\ cancel' = FALSE /\ BeginRun(Request("panel", config)) /\ HostUntouched
       \/ StartFails

(* What ConfigCompiler asks of the page.                                   *)
Compiles(document) ==
    document.backend = "asio" => document.driver # "" /\ document.frames # 0

PressSave ==
    /\ tool = "open" /\ ~Busy /\ dirty /\ Compiles(config)
    /\ \/ Starts("save", [at |-> "compile", document |-> config]) /\ UNCHANGED hostVars
       \/ StartFails
    /\ UNCHANGED inspection

-----------------------------------------------------------------------------
(* The worker's thread. The handles of a process that has ended are closed.*)
WorkerStep == UNCHANGED <<tool, config, dirty, inspection, operation, edits, operations>>
CloseHandles ==
    /\ run.at = "returned" /\ run' = AtRestRun
    /\ host' = IF HostAlive THEN host ELSE NoHost
    /\ stdin' = [bytes |-> <<>>, closed |-> FALSE] /\ stdout' = <<>>
    /\ reader' = NoReader
    /\ UNCHANGED <<devices, job, cancel, accepted>>
Completes(result) == worker' = [at |-> "completed", result |-> result]

FinishProbe ==
    /\ operation = "inspection" /\ worker.at = "running"
    /\ Completes(ProbeResult) /\ CloseHandles
    /\ WorkerStep /\ UNCHANGED file
FinishPanel ==
    /\ operation = "control_panel" /\ worker.at = "running"
    /\ Completes(PanelResult) /\ CloseHandles
    /\ WorkerStep /\ UNCHANGED file

(* ValidateAndWriteConfig.                                                 *)
CompileAndValidate ==
    /\ worker.at = "compile"
    /\ IF worker.document.backend = "asio"
       THEN /\ worker' = [worker EXCEPT !.at = "validate"]
            /\ BeginRun(Request("validate", worker.document))
            /\ HostUntouched /\ UNCHANGED cancel
       ELSE worker' = [worker EXCEPT !.at = "write"] /\ UNCHANGED hostVars
    /\ WorkerStep /\ UNCHANGED file

CapabilityFits(document, report) ==
    /\ report.driver = document.driver /\ report.rate \in SupportedRates
    /\ report.effective = document.frames /\ report.base = document.base
    /\ IsAdjacentPair(report.base, report.outputs)
    /\ \A i \in {report.base + 1, report.base + 2} :
          report.outputs[i].type \in SupportedSampleTypes

FinishValidation ==
    /\ worker.at = "validate"
    /\ IF ProbeResult.is = "report" /\ CapabilityFits(worker.document, ProbeResult)
       THEN worker' = [worker EXCEPT !.at = "write"]
       ELSE Completes(Failure("protocol"))
    /\ CloseHandles
    /\ WorkerStep /\ UNCHANGED file

(* WriteConfigDocumentAtomically: a temporary file that nobody else sees,  *)
(* and the replacement, without a backup; one of its failures leaves the   *)
(* old file gone, and the new one is then deleted.                         *)
WriteConfigDocument ==
    /\ worker.at = "write"
    /\ \/ file' = worker.document /\ Completes(Succeeded)
       \/ file' = file /\ Completes(Failure("driver"))
       \/ file' = NoFile /\ Completes(Failure("driver"))
    /\ WorkerStep /\ UNCHANGED hostVars

WorkerThread ==
    \/ FinishProbe \/ FinishPanel \/ CompileAndValidate \/ FinishValidation
    \/ WriteConfigDocument

-----------------------------------------------------------------------------
(* The turn of the loop that finds the operation completed.                *)
Takes(op) ==
    /\ tool = "open" /\ operation = op /\ worker.at = "completed"

TakeInspection ==
    /\ Takes("inspection") /\ operation' = "idle" /\ worker' = NoWorker
    /\ LET report == worker.result
           fits == /\ report.rate \in SupportedRates /\ report.effective # 0
                   /\ config.frames \in {0, report.effective}
                   /\ IsAdjacentPair(config.base, report.outputs)
                   /\ report.base = config.base
       IN  IF inspection.state # "probing" \/ report.is = "failure" \/ ~fits
           THEN /\ inspection' = IF inspection.state # "probing" THEN inspection
                                 ELSE [state |-> "failed", report |-> report]
                /\ UNCHANGED <<config, dirty>>
           ELSE /\ inspection' = [state |-> "valid", report |-> report]
                /\ config' = [config EXCEPT !.frames = report.effective]
                /\ dirty' = (dirty \/ config.frames = 0)
    /\ UNCHANGED <<tool, file, edits, operations, hostVars>>

(* A panel that was closed leads to a new inspection at once.              *)
TakeControlPanel ==
    /\ Takes("control_panel")
    /\ \/ /\ worker.result = PanelClosed
          /\ inspection' = [state |-> "probing", report |-> Failure("driver")]
          /\ operation' = "inspection" /\ worker' = [at |-> "running"]
          /\ BeginRun(Request("inspect", config))
          /\ HostUntouched /\ UNCHANGED cancel
       \/ /\ operation' = "idle" /\ worker' = NoWorker
          /\ inspection' = IF worker.result = PanelClosed
                           THEN [state |-> "failed", report |-> Failure("driver")]
                           ELSE inspection
          /\ UNCHANGED hostVars
    /\ UNCHANGED <<tool, config, dirty, file, edits, operations>>

(* The saved document, when it can be read, replaces the one on the page.  *)
TakeSave ==
    /\ Takes("save") /\ operation' = "idle" /\ worker' = NoWorker
    /\ \/ /\ worker.result = Succeeded
          /\ config' = file /\ dirty' = FALSE /\ inspection' = Uninspected
       \/ UNCHANGED <<config, dirty, inspection>>
    /\ UNCHANGED <<tool, file, edits, operations, hostVars>>

(* Mutant: the panel is not told that the tool ends.                       *)
CloseWindowOnly ==
    /\ tool = "open" /\ tool' = "closing"
    /\ UNCHANGED <<config, dirty, inspection, operation, worker, file, edits,
                   operations, hostVars>>

(* The loop ends with the window; Shutdown cancels a panel and joins.      *)
CloseWindow ==
    /\ tool = "open" /\ tool' = "closing"
    /\ cancel' = (cancel \/ operation = "control_panel")
    /\ UNCHANGED <<config, dirty, inspection, operation, worker, file, edits,
                   operations, devices, host, stdin, stdout, reader, job, run, accepted>>
JoinWorker ==
    /\ tool = "closing" /\ worker.at \in {"none", "completed"}
    /\ tool' = "ended" /\ operation' = "idle" /\ worker' = NoWorker
    /\ UNCHANGED <<config, dirty, inspection, file, edits, operations, hostVars>>

Loop ==
    \/ SetBackend \/ SetDriverName \/ SetBufferFrames \/ SetOutputBaseChannel
    \/ ApplyCompletedCapture \/ PressInspect \/ PressControlPanel \/ PressSave
    \/ TakeInspection \/ TakeControlPanel \/ TakeSave \/ CloseWindow \/ JoinWorker

ProcessStep == RunStep \/ TimesOut \/ WaitFails
ReaderStep == Drain \/ EndOfOutput \/ ReaderFails
ToolNext ==
    \/ Loop \/ WorkerThread
    \/ (HostProcess \/ ProcessStep \/ ReaderStep) /\ UNCHANGED editorVars

ToolSpec == ToolInit /\ [][ToolNext]_toolVars

(* The tool's own threads go on, a wait with a time-out ends. Nothing is   *)
(* assumed of the host, of the driver or of the user.                      *)
ToolFairness ==
    /\ WF_toolVars(WorkerThread)
    /\ WF_toolVars(JoinWorker)
    /\ WF_toolVars((RunStep \/ TimesOut) /\ UNCHANGED editorVars)
    /\ WF_toolVars((Drain \/ EndOfOutput) /\ UNCHANGED editorVars)

-----------------------------------------------------------------------------
(* An inspection that is shown as valid is what the configured driver      *)
(* would answer now: its settings are those of the page, and no panel has  *)
(* changed the device since.                                               *)
InspectionCurrent ==
    inspection.state = "valid" =>
       /\ inspection.report = Report(Request("inspect", config))
       /\ OnAsioPage /\ config.frames # 0

(* A file that selects ASIO holds settings that the driver accepted in a   *)
(* validation; a page without unsaved changes shows the file.              *)
SavedWasAccepted ==
    /\ file.backend = "asio" =>
          [driver |-> file.driver, frames |-> file.frames, base |-> file.base] \in accepted
    /\ ~dirty /\ file # NoFile => config = file

(* A process does not outlive the operation it was started for.            *)
NoOrphan == run.at \in {"none", "returned"} => ~HostAlive

(* The configuration tool tells the truth about the driver, although the   *)
(* driver may print, crash or hang in its process.                         *)
ToolTruthful == InspectionCurrent /\ SavedWasAccepted /\ NoOrphan

(* Inspections and saves answer, and the window closes, although the       *)
(* driver hangs.                                                           *)
ToolAnswers ==
    /\ operation \in {"inspection", "save"} ~> operation = "idle" \/ worker.at = "completed"
    /\ tool = "closing" ~> tool = "ended"
=============================================================================
