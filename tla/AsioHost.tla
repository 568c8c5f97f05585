------------------------------ MODULE AsioHost ------------------------------
(***************************************************************************)
(* An ASIO driver is questioned, and its control panel shown, in a process *)
(* of its own, a suspended copy of the configuration tool that is put into *)
(* a job, given a request on its standard input, and read by a thread of   *)
(* the tool. Run (AsioIsolatedProcess.cpp) is the side of the tool; the    *)
(* host is the process. A call of the driver returns, fails, never         *)
(* returns, or takes the process with it.                                  *)
(***************************************************************************)
EXTENDS AsioProtocol

CONSTANTS
    Installed,          \* [registered driver -> its limits and its outputs]
    PreferredFrames,    \* what a control panel may set
    SupportedRates,
    Rates               \* of the device, also set by the panel

(* A driver has a list of output channels, each with a name and a type.    *)
ASSUME InstalledAssumption ==
    \A name \in DOMAIN Installed :
       Installed[name].outputs \in Seq([name : Nat, type : SampleTypes])

VARIABLES
    devices,    \* [driver -> its preferred frames and its rate]
    host,       \* the process
    stdin,      \* the request in the pipe, and whether its writer is closed
    stdout,     \* what the host has written and nobody has read
    reader,     \* the thread that drains it
    job,        \* the job is open, with the process in it
    cancel,     \* panel_cancellation_event_
    run,        \* where Run is
    accepted    \* history: what drivers accepted when asked to validate it

hostVars == <<devices, host, stdin, stdout, reader, job, cancel, run, accepted>>

NoHost     == [at |-> "none"]
NoReader   == [at |-> "none", bytes |-> <<>>, overflow |-> FALSE]
AtRestRun  == [at |-> "none"]
Modes      == {"inspect", "validate", "panel"}

HostInit ==
    /\ devices \in [DOMAIN Installed -> [preferred : PreferredFrames, rate : SupportedRates]]
    /\ host = NoHost /\ stdin = [bytes |-> <<>>, closed |-> FALSE]
    /\ stdout = <<>> /\ reader = NoReader /\ job = FALSE /\ cancel = FALSE
    /\ run = AtRestRun /\ accepted = {}

HostAlive == host.at \notin {"none", "dead"}
Dead(code) == [at |-> "dead", exit |-> code]

-----------------------------------------------------------------------------
(* The host: RunAsioProbeMode and RunAsioControlPanelMode. All exit codes  *)
(* but zero say the same.                                                  *)
HostStep == UNCHANGED <<stdin, reader, job, cancel, run>>
Become(at) == host' = [host EXCEPT !.at = at]
Conclude(at, result) == host' = [host EXCEPT !.at = at, !.result = result]
DriverFails(at) == Conclude(at, Failure("driver"))

(* ReadAsioModeMessage waits for the end of the input.                     *)
ReadRequest ==
    /\ host.at = "read" /\ stdin.closed
    /\ LET request == IF host.mode = "panel" THEN DecodeAsioControlPanelRequest(stdin.bytes)
                                             ELSE DecodeAsioProbeRequest(stdin.bytes)
       IN  IF request = Malformed THEN host' = Dead(1)
           ELSE host' = [at |-> "prepare", mode |-> request.mode, request |-> request,
                         result |-> Failure("protocol"), buffers |-> FALSE]
    /\ HostStep /\ UNCHANGED <<devices, stdout, accepted>>

(* The apartment and the hidden owner window.                              *)
PrepareHost ==
    /\ host.at = "prepare"
    /\ Become("open") \/ host' = Dead(1)
    /\ HostStep /\ UNCHANGED <<devices, stdout, accepted>>

(* ResolveAsioDriver, the factory, and Init.                               *)
OpenDriver ==
    /\ host.at = "open"
    /\ \/ DriverFails("respond")                    \* not found or not created
       \/ /\ host.request.driver \in DOMAIN Installed
          /\ \/ DriverFails("finish")               \* init
             \/ Become(IF host.mode = "panel" THEN "panel" ELSE "query")
    /\ HostStep /\ UNCHANGED <<devices, stdout, accepted>>

(* ValidateAsioBufferFrames.                                               *)
BufferFramesFit(limits, preferred, frames) ==
    LET fixed == limits.minimum = limits.maximum
    IN  /\ 0 < limits.minimum /\ limits.minimum <= preferred /\ preferred <= limits.maximum
        /\ limits.granularity >= -1 /\ fixed <=> limits.granularity = 0
        /\ frames \in limits.minimum..limits.maximum
        /\ \/ fixed \/ limits.granularity = 1
           \/ limits.granularity = -1 /\ \E exponent \in 0..30 : frames = 2 ^ exponent
           \/ limits.granularity > 1 /\ frames % limits.granularity = 0

IsAdjacentPair(base, outputs) == Len(outputs) >= 2 /\ base < Len(outputs) - 1

Report(request) ==
    LET name == request.driver
    IN  [is |-> "report", driver |-> name, rate |-> devices[name].rate,
         preferred |-> devices[name].preferred, outputs |-> Installed[name].outputs,
         base |-> request.base,
         effective |-> IF request.frames # 0 THEN request.frames
                                             ELSE devices[name].preferred]

(* ProbeAsioCapability: the questions, and in validate mode the checks of  *)
(* the answers. Any of them may fail.                                      *)
QueryDriver ==
    /\ host.at = "query"
    /\ LET report == Report(host.request)
           limits == Installed[host.request.driver]
       IN  \/ DriverFails("finish")
           \/ host.mode = "inspect" /\ Conclude("finish", report)
           \/ /\ host.mode = "validate"
              /\ IF /\ report.rate \in SupportedRates
                    /\ BufferFramesFit(limits, report.preferred, host.request.frames)
                    /\ IsAdjacentPair(report.base, report.outputs)
                 THEN Conclude("create", report) ELSE DriverFails("finish")
    /\ HostStep /\ UNCHANGED <<devices, stdout, accepted>>

(* CreateBuffers, and the information of the two channels.                 *)
CreateValidationBuffers ==
    /\ host.at = "create"
    /\ \/ DriverFails("finish")
       \/ host' = [host EXCEPT !.at = "finish", !.buffers = TRUE,
                      !.result =
                         IF \A i \in {@.base + 1, @.base + 2} :
                               @.outputs[i].type \in SupportedSampleTypes
                         THEN @ ELSE Failure("driver")]
       \/ host' = [host EXCEPT !.at = "finish", !.buffers = TRUE, !.result = Failure("driver")]
    /\ HostStep /\ UNCHANGED <<devices, stdout, accepted>>

(* ControlPanel, and the wait until its windows are gone.                  *)
ShowPanel ==
    /\ host.at = "panel"
    /\ \/ DriverFails("finish") /\ UNCHANGED devices
       \/ Conclude("shown", PanelClosed) /\ UNCHANGED devices
    /\ HostStep /\ UNCHANGED <<stdout, accepted>>

ChangeDevice ==
    /\ host.at = "shown"
    /\ \E preferred \in PreferredFrames, rate \in Rates :
          devices' = [devices EXCEPT ![host.request.driver] =
                         [preferred |-> preferred, rate |-> rate]]
    /\ HostStep /\ UNCHANGED <<host, stdout, accepted>>

ClosePanel ==
    /\ host.at = "shown" /\ Become("finish")
    /\ HostStep /\ UNCHANGED <<devices, stdout, accepted>>

(* finish: the buffers are disposed of, the driver is released; the first  *)
(* failure counts. Release itself reports none.                            *)
FinishDriver ==
    /\ host.at = "finish"
    /\ \/ Become("respond")
       \/ /\ host.buffers
          /\ IF host.result.is = "failure" THEN Become("respond") ELSE DriverFails("respond")
    /\ accepted' = accepted \union
          IF host.mode = "validate" /\ host'.result.is = "report"
          THEN {[driver |-> host.request.driver, frames |-> host.request.frames,
                 base |-> host.request.base]}
          ELSE {}
    /\ HostStep /\ UNCHANGED <<devices, stdout>>

Response == IF host.mode = "panel" THEN EncodeAsioControlPanelResult(host.result)
                                   ELSE EncodeAsioProbeResult(host.result)
Respond ==
    /\ host.at = "respond"
    /\ \/ /\ Response = NoMessage /\ host' = Dead(1) /\ UNCHANGED stdout
       \/ /\ Response # NoMessage
          /\ stdout' = stdout \o Response /\ Become("flush")
    /\ HostStep /\ UNCHANGED <<devices, accepted>>

(* FlushFileBuffers returns when everything has been read.                 *)
ExitHost ==
    /\ host.at = "flush" /\ stdout = <<>> /\ host' = Dead(0)
    /\ HostStep /\ UNCHANGED <<devices, stdout, accepted>>

(* The driver, or the process in one of its calls.                         *)
InDriver == host.at \in {"open", "query", "create", "panel", "shown", "finish"}
Crash ==
    /\ InDriver \/ host.at = "flush"
    /\ host' = Dead(1)
    /\ HostStep /\ UNCHANGED <<devices, stdout, accepted>>
CrashInResponse ==
    /\ host.at = "respond" /\ Len(Response) > 1
    /\ stdout' = stdout \o SubSeq(Response, 1, Len(Response) - 1) /\ host' = Dead(1)
    /\ HostStep /\ UNCHANGED <<devices, accepted>>
DriverPrints ==
    /\ host.at \in {"query", "shown"} /\ stdout = <<>> /\ reader.bytes = <<>>
    /\ ~reader.overflow
    /\ \E length \in {1, kAsioProbeMaxFields + 1} :
          stdout' = [i \in 1..length |-> Noise]
    /\ HostStep /\ UNCHANGED <<devices, host, accepted>>

HostProcess ==
    \/ ReadRequest \/ PrepareHost \/ OpenDriver \/ QueryDriver
    \/ CreateValidationBuffers \/ ShowPanel \/ ChangeDevice \/ ClosePanel
    \/ FinishDriver \/ Respond \/ ExitHost
    \/ Crash \/ CrashInResponse \/ DriverPrints

-----------------------------------------------------------------------------
(* Run, on the worker's thread. Every way out but the first three leads    *)
(* over the death of the process and the end of the reader.                *)
ToolStep == UNCHANGED <<devices, cancel, accepted>>
Returns(status) ==
    run' = [run EXCEPT !.at = "returned", !.status = status]

(* FinishTerminated: closing the job ends the process in it. What it has   *)
(* written is of no use to anybody.                                        *)
Kill(status) ==
    /\ job' = FALSE
    /\ host' = IF job THEN Dead(1) ELSE host
    /\ stdout' = <<>> /\ reader' = [reader EXCEPT !.bytes = <<>>, !.overflow = FALSE]
    /\ run' = [run EXCEPT !.at = "killed", !.status = status]
Goes(at) == run' = [run EXCEPT !.at = at] /\ UNCHANGED <<job, stdout>>

BeginRun(request) ==
    run' = [at |-> "create", status |-> "none", request |-> request,
            bytes |-> <<>>, exit |-> 0]

CreateHost ==
    /\ run.at = "create"
    /\ \/ Returns("create_failed") /\ UNCHANGED <<host, stdin, reader, job, stdout>>
       \/ /\ host' = [at |-> "suspended", mode |-> run.request.mode]
          /\ stdin' = [bytes |-> <<>>, closed |-> FALSE] /\ reader' = NoReader
          /\ Goes("job")
    /\ ToolStep

(* Until it is in the job, the suspended process is ended by hand.         *)
AssignJob ==
    /\ run.at = "job"
    /\ \/ job' = TRUE /\ run' = [run EXCEPT !.at = "reader"] /\ UNCHANGED host
       \/ host' = Dead(1) /\ Returns("job_failed") /\ UNCHANGED job
    /\ ToolStep /\ UNCHANGED <<stdin, stdout, reader>>

(* Mutant: without a reader the tool returns at once.                      *)
ReturnWithoutReader ==
    /\ run.at = "reader"
    /\ \/ reader' = [reader EXCEPT !.at = "draining"] /\ Goes("resume") /\ UNCHANGED host
       \/ Returns("io_failed") /\ UNCHANGED <<host, reader, job, stdout>>
    /\ ToolStep /\ UNCHANGED stdin

StartReader ==
    /\ run.at = "reader"
    /\ \/ reader' = [reader EXCEPT !.at = "draining"] /\ Goes("resume") /\ UNCHANGED host
       \/ Kill("io_failed")
    /\ ToolStep /\ UNCHANGED stdin

ResumeHost ==
    /\ run.at = "resume"
    /\ \/ host' = [host EXCEPT !.at = "read"] /\ Goes("write") /\ UNCHANGED reader
       \/ Kill("create_failed")
    /\ ToolStep /\ UNCHANGED stdin

WriteRequest ==
    /\ run.at = "write"
    /\ \/ /\ stdin' = [bytes |-> IF run.request.mode = "panel"
                                 THEN EncodeAsioControlPanelRequest(run.request)
                                 ELSE EncodeAsioProbeRequest(run.request),
                       closed |-> TRUE]
          /\ Goes("wait") /\ UNCHANGED <<host, reader>>
       \/ Kill("io_failed") /\ stdin' = [stdin EXCEPT !.closed = TRUE]
    /\ ToolStep

HostExited ==
    /\ run.at = "wait" /\ host.at = "dead"
    /\ Goes("collect") /\ ToolStep /\ UNCHANGED <<host, stdin, reader>>
TimesOut ==
    /\ run.at = "wait" /\ HostAlive /\ run.request.mode # "panel" /\ Kill("timed_out")
    /\ ToolStep /\ UNCHANGED stdin
IsCancelled ==
    /\ run.at = "wait" /\ HostAlive /\ run.request.mode = "panel" /\ cancel
    /\ Kill("cancelled") /\ ToolStep /\ UNCHANGED stdin
WaitFails ==
    /\ run.at = "wait" /\ Kill("io_failed") /\ ToolStep /\ UNCHANGED stdin

(* The waits for the process and for the reader.                           *)
AfterKill ==
    /\ run.at = "killed" /\ host.at = "dead" /\ reader.at # "draining"
    /\ Goes("returned") /\ ToolStep /\ UNCHANGED <<host, stdin, reader>>

CollectOutput ==
    /\ run.at = "collect" /\ reader.at \in {"done", "failed"}
    /\ run' = [run EXCEPT !.at = "returned", !.exit = host.exit, !.bytes = reader.bytes,
                  !.status = CASE reader.at = "failed" -> "io_failed"
                               [] reader.overflow      -> "output_too_large"
                               [] OTHER                -> "exited"]
    /\ job' = FALSE
    /\ ToolStep /\ UNCHANGED <<host, stdin, stdout, reader>>

RunStep ==
    \/ CreateHost \/ AssignJob \/ StartReader \/ ResumeHost \/ WriteRequest
    \/ HostExited \/ IsCancelled \/ AfterKill \/ CollectOutput

(* DrainOutput: a part that does not fit is dropped, the rest is read.     *)
Drain ==
    /\ reader.at = "draining" /\ stdout # <<>>
    /\ LET fits == Len(reader.bytes) + Len(stdout) <= kAsioProbeMaxFields
       IN  reader' = [reader EXCEPT !.bytes = IF fits THEN @ \o stdout ELSE @,
                                    !.overflow = @ \/ ~fits]
    /\ stdout' = <<>>
    /\ UNCHANGED <<devices, host, stdin, job, cancel, run, accepted>>
EndOfOutput ==
    /\ reader.at = "draining" /\ stdout = <<>> /\ host.at = "dead"
    /\ reader' = [reader EXCEPT !.at = "done"]
    /\ UNCHANGED <<devices, host, stdin, stdout, job, cancel, run, accepted>>
ReaderFails ==                                   \* no memory
    /\ reader.at = "draining"
    /\ reader' = [at |-> "failed", bytes |-> <<>>, overflow |-> FALSE]
    /\ UNCHANGED <<devices, host, stdin, stdout, job, cancel, run, accepted>>

-----------------------------------------------------------------------------
(* AsioProbeClient::Run: a response counts whatever the exit code.         *)
ProbeResult ==
    LET decoded == DecodeAsioProbeResult(run.bytes)
    IN  IF run.status = "exited" /\ decoded # Malformed
        THEN decoded ELSE Failure("protocol")

(* AsioControlPanelClient::Run: the exit code comes first.                 *)
PanelResult ==
    LET decoded == DecodeAsioControlPanelResult(run.bytes)
    IN  CASE run.status = "cancelled" -> [is |-> "cancelled"]
          [] run.status = "exited" /\ run.exit = 0 /\ decoded # Malformed -> decoded
          [] OTHER -> Failure("protocol")
=============================================================================
