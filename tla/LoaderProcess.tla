--------------------------- MODULE LoaderProcess ---------------------------
(***************************************************************************)
(* A process with the loader, and the one that is started after it has     *)
(* ended: the startup patches it (VersionedStartup); then the game opens   *)
(* and closes its input (InputPollingRuntime) or edits the timing settings *)
(* of its test mode (TimingSettings). The process may end at any step;     *)
(* only what is on the disk remains.                                       *)
(***************************************************************************)
EXTENDS VersionedStartup, InputPollingRuntime, TimingSettings

CONSTANT MaxStarts     \* bound on the processes

VARIABLES
    starts,
    uses               \* what the game goes on to use: the two share nothing,
                       \* so a process that uses both shows nothing more

processVars == <<startupVars, vars, settingsVars, starts, uses>>

ProcessInit ==
    StartupInit /\ Init /\ SettingsInit /\ starts = 0 /\ uses = "none"

ProcessStarts ==
    /\ starts < MaxStarts
    /\ starts' = starts + 1
    /\ Attach /\ SettingsStart
    /\ uses' \in {"input", "test mode"}
    /\ UNCHANGED vars

(* The settings of the input are handed over once, during the startup.     *)
StartingUp ==
    /\ StartupStep
    /\ IF phase = "input" /\ phase' # "ended" THEN Configure
                                             ELSE UNCHANGED vars
    /\ UNCHANGED <<settingsVars, starts, uses>>

(* The game calls nothing before the startup has returned.                 *)
Uses(part) == phase = "running" /\ role = "game" /\ uses = part

InputStep ==
    /\ Uses("input")
    /\ (\E c \in Clients : ClientStep(c)) \/ WorkerStep
    /\ UNCHANGED <<startupVars, settingsVars, starts, uses>>

TestModeStep ==
    /\ Uses("test mode")
    /\ SettingsStep
    /\ UNCHANGED <<startupVars, vars, starts, uses>>

(* The threads of a process that ends are gone with it.                    *)
InputEnds ==
    /\ settings' = "absent"
    /\ open_count' = 0
    /\ starting' = FALSE /\ startup_ready' = FALSE /\ startup_success' = FALSE
    /\ stop_event' = "closed" /\ joinable' = FALSE
    /\ mutex' = {}
    /\ call' = [c \in Clients |-> "none"]
    /\ held_opens' = [c \in Clients |-> 0]
    /\ worker' = "none" /\ published_input' = Released /\ epoch_active' = FALSE

ProcessEnds ==
    /\ Kill /\ InputEnds /\ SettingsEnd
    /\ uses' = "none"
    /\ UNCHANGED starts

ProcessNext ==
    \/ ProcessStarts \/ StartingUp \/ ProcessEnds
    \/ InputStep \/ TestModeStep

ProcessSpec == ProcessInit /\ [][ProcessNext]_processVars /\ Fairness
=============================================================================
