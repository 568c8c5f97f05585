------------------------ MODULE InputPollingRuntime ------------------------
(***************************************************************************)
(* The lifecycle of the input worker thread. The game opens and closes the *)
(* I/O driver any number of times, from any of its threads; the first open *)
(* starts the worker and waits for its start-up, the last close stops and  *)
(* joins it while holding the lifecycle mutex. The worker may fail to      *)
(* start, and may die by itself (WM_QUIT, a failed wait) while it is open. *)
(*                                                                         *)
(* A critical section that does not wait is one step. The two that do are  *)
(* Open, whose condition wait releases the mutex, and the joins, which     *)
(* keep it. The transition transport is reduced to its epoch being active  *)
(* and what the worker last published.                                     *)
(***************************************************************************)
EXTENDS Naturals, FiniteSets

CONSTANTS
    Clients,     \* game threads that call iDmacDrvOpen and iDmacDrvClose
    Words,       \* what the worker can publish; Released is nothing held
    Released,
    MaxOpens     \* bound: opens a client holds at once

ASSUME RuntimeAssumption == Released \in Words /\ MaxOpens \in Nat \ {0}

VARIABLES
    settings,          \* "absent" or "configured"
    open_count,
    starting, startup_ready, startup_success,
    stop_event,        \* "closed", "clear" or "set"
    joinable,          \* state.worker owns a thread
    mutex,             \* {} or {the client that keeps it across a join}
    call,              \* per client: the call it is in
    held_opens,        \* per client: opens that returned success
    worker,            \* where the worker thread is
    published_input,   \* g_published_input
    epoch_active       \* the transition epoch the worker began

stateVars  == <<open_count, starting, startup_ready, startup_success,
                stop_event, joinable>>
workerVars == <<worker, published_input, epoch_active>>
callVars   == <<mutex, call, held_opens>>
vars       == <<settings, stateVars, callVars, workerVars>>

Alive == worker \notin {"none", "exited"}

TypeOK ==
    /\ settings \in {"absent", "configured"}
    /\ open_count \in 0 .. MaxOpens * Cardinality(Clients)
    /\ {starting, startup_ready, startup_success, joinable, epoch_active}
          \subseteq BOOLEAN
    /\ stop_event \in {"closed", "clear", "set"}
    /\ mutex \subseteq Clients /\ Cardinality(mutex) <= 1
    /\ call \in [Clients -> {"none", "opening", "failing", "closing"}]
    /\ held_opens \in [Clients -> 0 .. MaxOpens]
    /\ worker \in {"none", "initializing", "failed", "begun", "running",
                   "stopping", "exited"}
    /\ published_input \in Words

Init ==
    /\ settings = "absent"
    /\ open_count = 0
    /\ starting = FALSE /\ startup_ready = FALSE /\ startup_success = FALSE
    /\ stop_event = "closed"
    /\ joinable = FALSE
    /\ mutex = {}
    /\ call = [c \in Clients |-> "none"]
    /\ held_opens = [c \in Clients |-> 0]
    /\ worker = "none"
    /\ published_input = Released
    /\ epoch_active = FALSE

Locked == mutex # {}

(* ConfigureInputPollingRuntime: only once, and never while open.          *)
Configure ==
    /\ ~Locked
    /\ ~starting /\ open_count = 0
    /\ settings = "absent"
    /\ settings' = "configured"
    /\ UNCHANGED <<stateVars, callVars, workerVars>>

-----------------------------------------------------------------------------
(* OpenInputPollingRuntime. Each entry first waits until nobody starts.    *)
Entered(c) == ~Locked /\ ~starting /\ call[c] = "none"

(* Mutant: a nested open is not counted.                                   *)
OpenAgainUncounted(c) ==
    /\ Entered(c)
    /\ held_opens[c] < MaxOpens
    /\ open_count # 0
    /\ held_opens' = [held_opens EXCEPT ![c] = @ + 1]
    /\ UNCHANGED <<settings, stateVars, mutex, call, workerVars>>

OpenAgain(c) ==
    /\ Entered(c)
    /\ held_opens[c] < MaxOpens
    /\ open_count # 0
    /\ open_count' = open_count + 1
    /\ held_opens' = [held_opens EXCEPT ![c] = @ + 1]
    /\ UNCHANGED <<settings, starting, startup_ready, startup_success,
                   stop_event, joinable, mutex, call, workerVars>>

(* No event or no thread could be created: the open fails and what it did  *)
(* is undone. An open before the configuration changes nothing.            *)
OpenWithoutThread(c) ==
    /\ Entered(c)
    /\ open_count = 0
    /\ settings = "configured"
    /\ startup_ready' = FALSE
    /\ startup_success' = FALSE
    /\ published_input' = Released
    /\ stop_event' = "closed"
    /\ UNCHANGED <<settings, open_count, starting, joinable, callVars, worker,
                   epoch_active>>

OpenFirst(c) ==
    /\ Entered(c)
    /\ held_opens[c] < MaxOpens
    /\ open_count = 0
    /\ settings = "configured"
    /\ startup_ready' = FALSE
    /\ startup_success' = FALSE
    /\ starting' = TRUE
    /\ published_input' = Released
    /\ stop_event' = "clear"
    /\ joinable' = TRUE
    /\ worker' = "initializing"
    /\ call' = [call EXCEPT ![c] = "opening"]
    /\ UNCHANGED <<settings, open_count, mutex, held_opens, epoch_active>>

OpenSucceeds(c) ==
    /\ ~Locked
    /\ call[c] = "opening"
    /\ startup_ready /\ startup_success
    /\ open_count' = 1
    /\ starting' = FALSE
    /\ call' = [call EXCEPT ![c] = "none"]
    /\ held_opens' = [held_opens EXCEPT ![c] = @ + 1]
    /\ UNCHANGED <<settings, startup_ready, startup_success, stop_event,
                   joinable, mutex, workerVars>>

(* The worker reported a failure: join it, keeping the mutex.              *)
OpenFails(c) ==
    /\ ~Locked
    /\ call[c] = "opening"
    /\ startup_ready /\ ~startup_success
    /\ mutex' = {c}
    /\ call' = [call EXCEPT ![c] = "failing"]
    /\ UNCHANGED <<settings, stateVars, held_opens, workerVars>>

(* CloseInputPollingRuntime. A close without an open changes nothing.      *)
CloseAgain(c) ==
    /\ Entered(c)
    /\ held_opens[c] > 0
    /\ open_count > 1
    /\ open_count' = open_count - 1
    /\ held_opens' = [held_opens EXCEPT ![c] = @ - 1]
    /\ UNCHANGED <<settings, starting, startup_ready, startup_success,
                   stop_event, joinable, mutex, call, workerVars>>

(* Mutant: the last close joins without signalling.                        *)
CloseLastWithoutSignal(c) ==
    /\ Entered(c)
    /\ held_opens[c] > 0
    /\ open_count = 1
    /\ open_count' = 0
    /\ held_opens' = [held_opens EXCEPT ![c] = @ - 1]
    /\ mutex' = {c}
    /\ call' = [call EXCEPT ![c] = "closing"]
    /\ UNCHANGED <<settings, starting, startup_ready, startup_success,
                   stop_event, joinable, workerVars>>

CloseLast(c) ==
    /\ Entered(c)
    /\ held_opens[c] > 0
    /\ open_count = 1
    /\ open_count' = 0
    /\ held_opens' = [held_opens EXCEPT ![c] = @ - 1]
    /\ stop_event' = "set"
    /\ mutex' = {c}
    /\ call' = [call EXCEPT ![c] = "closing"]
    /\ UNCHANGED <<settings, starting, startup_ready, startup_success, joinable,
                   workerVars>>

(* Mutant: the thread is given up before it has ended.                     *)
JoinedEarly(c) ==
    /\ call[c] \in {"failing", "closing"}
    /\ joinable' = FALSE
    /\ stop_event' = "closed"
    /\ published_input' = Released
    /\ starting' = FALSE
    /\ mutex' = {}
    /\ call' = [call EXCEPT ![c] = "none"]
    /\ UNCHANGED <<settings, open_count, startup_ready, startup_success,
                   held_opens, worker, epoch_active>>

(* The end of a failed open and of a last close: after the join.           *)
Joined(c) ==
    /\ call[c] \in {"failing", "closing"}
    /\ worker = "exited"
    /\ joinable' = FALSE
    /\ stop_event' = "closed"
    /\ published_input' = Released
    /\ starting' = FALSE
    /\ mutex' = {}
    /\ call' = [call EXCEPT ![c] = "none"]
    /\ UNCHANGED <<settings, open_count, startup_ready, startup_success,
                   held_opens, worker, epoch_active>>

-----------------------------------------------------------------------------
(* NativeInputWorker and WorkerMain.                                       *)
InitializeFails ==
    /\ worker = "initializing"
    /\ worker' = "failed"
    /\ published_input' = Released
    /\ UNCHANGED <<settings, stateVars, callVars, epoch_active>>

(* The epoch is begun, and the first snapshot is published after it.       *)
Initialize ==
    /\ worker = "initializing"
    /\ worker' = "begun"
    /\ epoch_active' = TRUE
    /\ published_input' = Released
    /\ UNCHANGED <<settings, stateVars, callVars>>

(* SignalStartup needs the mutex the opener's condition wait has released. *)
SignalStartup ==
    /\ ~Locked
    /\ worker \in {"begun", "failed"}
    /\ startup_ready' = TRUE
    /\ startup_success' = (worker = "begun")
    /\ worker' = IF worker = "begun" THEN "running" ELSE "exited"
    /\ UNCHANGED <<settings, open_count, starting, stop_event, joinable,
                   callVars, published_input, epoch_active>>

(* A raw packet, a poll or a change of the foreground window.              *)
PublishWord(word) ==
    /\ worker = "running"
    /\ word # published_input
    /\ published_input' = word
    /\ UNCHANGED <<settings, stateVars, callVars, worker, epoch_active>>

(* WaitForInputWorkerWake returned Stop, Quit or an error.                 *)
WakeToStop ==
    /\ worker = "running"
    /\ stop_event = "set"
    /\ worker' = "stopping"
    /\ UNCHANGED <<settings, stateVars, callVars, published_input, epoch_active>>

DieUnexpectedly ==
    /\ worker = "running"
    /\ worker' = "stopping"
    /\ UNCHANGED <<settings, stateVars, callVars, published_input, epoch_active>>

(* Mutant: the published word outlives its worker.                         *)
ShutdownWithoutRelease ==
    /\ worker = "stopping"
    /\ epoch_active' = FALSE
    /\ worker' = "exited"
    /\ UNCHANGED <<settings, stateVars, callVars, published_input>>

Shutdown ==
    /\ worker = "stopping"
    /\ published_input' = Released
    /\ epoch_active' = FALSE
    /\ worker' = "exited"
    /\ UNCHANGED <<settings, stateVars, callVars>>

-----------------------------------------------------------------------------
ClientStep(c) ==
    \/ OpenAgain(c) \/ OpenWithoutThread(c) \/ OpenFirst(c)
    \/ OpenSucceeds(c) \/ OpenFails(c)
    \/ CloseAgain(c) \/ CloseLast(c) \/ Joined(c)

WorkerStep ==
    \/ InitializeFails \/ Initialize \/ SignalStartup
    \/ WakeToStop \/ DieUnexpectedly \/ Shutdown
    \/ \E word \in Words : PublishWord(word)

Next ==
    \/ Configure
    \/ \E c \in Clients : ClientStep(c)
    \/ WorkerStep

(* The worker's own steps are not delayed for ever, a set stop event is    *)
(* seen, and a client that can finish its call does.                       *)
Fairness ==
    /\ WF_vars(InitializeFails \/ Initialize)
    /\ WF_vars(SignalStartup)
    /\ WF_vars(WakeToStop)
    /\ WF_vars(Shutdown)
    /\ \A c \in Clients :
          WF_vars(OpenSucceeds(c) \/ OpenFails(c) \/ Joined(c))

Spec     == Init /\ [][Next]_vars
FairSpec == Spec /\ Fairness

-----------------------------------------------------------------------------
(* A worker that has ended, however it ended, leaves no control held and   *)
(* no epoch active: the game never reads a stuck button, and the judgement *)
(* learns that its input is gone.                                          *)
NothingHeldWithoutWorker ==
    ~Alive => published_input = Released /\ ~epoch_active

(* While a thread can still run, its stop event is open, the thread object *)
(* owns it, and no call is free to start another: assigning to a joinable  *)
(* std::thread would end the process.                                      *)
OneOwnedWorker ==
    /\ Alive => joinable /\ stop_event # "closed"
    /\ joinable => open_count > 0 \/ starting \/ Locked

(* The worker is told to stop only when the last open handle is gone, and  *)
(* the count is what the callers hold.                                     *)
Handles == {h \in Clients \X (1 .. MaxOpens) : h[2] <= held_opens[h[1]]}

StopsOnlyWhenUnused ==
    /\ stop_event = "set" => open_count = 0
    /\ open_count = Cardinality(Handles)

(* Every open and close returns, although a close keeps the mutex while it *)
(* waits for a thread whose start-up needed that same mutex.               *)
CallsReturn == \A c \in Clients : call[c] # "none" ~> call[c] = "none"
=============================================================================
