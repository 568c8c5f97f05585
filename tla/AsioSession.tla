----------------------------- MODULE AsioSession -----------------------------
(* The ASIO output (AsioOutputBackend.cpp). An owner thread of its own     *)
(* loads the driver, publishes the live session as the target of the       *)
(* driver's callbacks, and serves until the game closes the output; the    *)
(* driver calls back on a thread of its own. The driver is external: once  *)
(* started it may call at any time, also while it is being stopped, and it *)
(* returns from Stop when no call is left in it. Every failed check ends   *)
(* the process (StartupFatal, CallbackFatal, ShutdownFatal,                *)
(* OwnershipFatal), which Fatal stands for.                                *)
EXTENDS Naturals, FiniteSets

CONSTANT Callbacks         \* the driver's calls that may overlap

ASSUME CallbacksAssumption == IsFiniteSet(Callbacks)

VARIABLES
    owner,            \* where OwnerThreadMain is
    driver,           \* "none", "loaded", "buffers", "started"
    session,          \* the live session exists
    callback_target,  \* the session is published
    callback_active,  \* the flag of the call that fills a buffer
    callback,         \* per call: "idle", "entered", "filling"
    services,         \* what the game uses of the session is published
    startup_complete,
    shutdown_requested,
    fatal             \* a check has failed

driverVars   == <<driver, session>>
callbackVars == <<callback_target, callback_active, callback>>
asioEvents   == <<services, startup_complete, shutdown_requested>>
asioVars     == <<owner, driver, session, callback_target, callback_active,
                  callback, services, startup_complete, shutdown_requested,
                  fatal>>

AsioInit ==
    /\ owner = "none" /\ driver = "none" /\ session = FALSE
    /\ callback_target = FALSE /\ callback_active = FALSE
    /\ callback = [c \in Callbacks |-> "idle"]
    /\ services = FALSE
    /\ startup_complete = FALSE /\ shutdown_requested = FALSE
    /\ fatal = FALSE

Fatal == fatal' = TRUE

-----------------------------------------------------------------------------
(* AsioOutputBackend::Start, on the game thread, up to its wait.           *)
StartOwner ==
    /\ owner = "none"
    /\ \/ owner' = "load" /\ UNCHANGED fatal
       \/ Fatal /\ UNCHANGED owner
    /\ UNCHANGED <<driverVars, callbackVars, asioEvents>>

(* From here on the owner thread. The driver is resolved, created and      *)
(* initialised, its rate, buffer sizes and channels are validated.         *)
LoadDriver ==
    /\ owner = "load"
    /\ \/ /\ session' = TRUE /\ driver' = "loaded" /\ owner' = "buffers"
          /\ UNCHANGED fatal
       \/ Fatal /\ UNCHANGED <<owner, driverVars>>
    /\ UNCHANGED <<callbackVars, asioEvents>>

CreateBuffers ==
    /\ owner = "buffers"
    /\ \/ /\ ~callback_target
          /\ driver' = "buffers" /\ owner' = "publish"
          /\ UNCHANGED fatal
       \/ Fatal /\ UNCHANGED <<owner, driver>>
    /\ UNCHANGED <<session, callbackVars, asioEvents>>

(* Mutant: the driver is started before the session is its target.         *)
StartUnpublished ==
    /\ owner = "publish"
    /\ driver' = "started" /\ owner' = "start"
    /\ UNCHANGED <<session, callbackVars, asioEvents, fatal>>

(* The core, the conversion storage and cleared buffers come first.        *)
PublishTarget ==
    /\ owner = "publish"
    /\ \/ /\ ~callback_target
          /\ callback_target' = TRUE /\ owner' = "start"
          /\ UNCHANGED fatal
       \/ Fatal /\ UNCHANGED <<owner, callback_target>>
    /\ UNCHANGED <<driverVars, callback_active, callback, asioEvents>>

(* The driver calls back before Start returns as well as after.            *)
StartDriver ==
    /\ owner = "start"
    /\ driver' = "started" /\ owner' = "serve"
    /\ UNCHANGED <<session, callbackVars, asioEvents, fatal>>

PublishServices ==
    /\ owner = "serve"
    /\ \/ /\ services' = TRUE /\ startup_complete' = TRUE /\ owner' = "pump"
          /\ UNCHANGED fatal
       \/ Fatal /\ UNCHANGED <<owner, services, startup_complete>>
    /\ UNCHANGED <<driverVars, callbackVars, shutdown_requested>>

(* The message loop leaves when the shutdown is requested.                 *)
LeaveMessageLoop ==
    /\ owner = "pump"
    /\ \/ shutdown_requested /\ owner' = "stop" /\ UNCHANGED fatal
       \/ Fatal /\ UNCHANGED owner
    /\ UNCHANGED <<driverVars, callbackVars, asioEvents>>

(* Stop, DisposeBuffers and Exit.                                          *)
StopDriver ==
    /\ owner = "stop"
    /\ \/ /\ \A c \in Callbacks : callback[c] = "idle"
          /\ driver' = "buffers" /\ owner' = "dispose"
          /\ UNCHANGED fatal
       \/ Fatal /\ UNCHANGED <<owner, driver>>
    /\ UNCHANGED <<session, callbackVars, asioEvents>>

ReleaseSession ==
    /\ owner = "dispose"
    /\ \/ /\ driver' = "none" /\ owner' = "ended"
          /\ callback_target' = FALSE /\ session' = FALSE
          /\ UNCHANGED fatal
       \/ Fatal /\ UNCHANGED <<owner, driverVars, callback_target>>
    /\ UNCHANGED <<callback_active, callback, asioEvents>>

-----------------------------------------------------------------------------
(* BufferSwitch and BufferSwitchTimeInfo: load the target, take the flag,  *)
(* fill the buffer.                                                        *)
OwnerFrame == <<owner, driverVars, asioEvents>>

EnterCallback(c) ==
    /\ driver = "started" /\ callback[c] = "idle"
    /\ IF callback_target
       THEN callback' = [callback EXCEPT ![c] = "entered"] /\ UNCHANGED fatal
       ELSE Fatal /\ UNCHANGED callback
    /\ UNCHANGED <<OwnerFrame, callback_target, callback_active>>

TakeFlag(c) ==
    /\ callback[c] = "entered"
    /\ IF callback_active
       THEN Fatal /\ UNCHANGED <<callback_active, callback>>
       ELSE /\ callback_active' = TRUE
            /\ callback' = [callback EXCEPT ![c] = "filling"]
            /\ UNCHANGED fatal
    /\ UNCHANGED <<OwnerFrame, callback_target>>

(* FillBuffer, with its checks.                                            *)
FillBuffer(c) ==
    /\ callback[c] = "filling"
    /\ \/ /\ callback' = [callback EXCEPT ![c] = "idle"]
          /\ callback_active' = FALSE
          /\ UNCHANGED fatal
       \/ Fatal /\ UNCHANGED <<callback_active, callback>>
    /\ UNCHANGED <<OwnerFrame, callback_target>>

-----------------------------------------------------------------------------
(* ~AsioOutputBackend, on the game thread: request the shutdown, then join *)
(* the owner.                                                              *)
RequestShutdown ==
    /\ ~shutdown_requested
    /\ \/ shutdown_requested' = TRUE /\ UNCHANGED fatal
       \/ Fatal /\ UNCHANGED shutdown_requested
    /\ UNCHANGED <<owner, driverVars, callbackVars, services,
                   startup_complete>>

OwnerThread ==
    \/ LoadDriver \/ CreateBuffers \/ PublishTarget \/ StartDriver
    \/ PublishServices \/ LeaveMessageLoop \/ StopDriver \/ ReleaseSession

DriverThread ==
    \E c \in Callbacks : EnterCallback(c) \/ TakeFlag(c) \/ FillBuffer(c)

AsioTypeOK ==
    /\ owner \in {"none", "load", "buffers", "publish", "start", "serve",
                  "pump", "stop", "dispose", "ended"}
    /\ driver \in {"none", "loaded", "buffers", "started"}
    /\ session \in BOOLEAN /\ callback_target \in BOOLEAN
    /\ callback_active \in BOOLEAN
    /\ callback \in [Callbacks -> {"idle", "entered", "filling"}]
    /\ services \in BOOLEAN /\ startup_complete \in BOOLEAN
    /\ shutdown_requested \in BOOLEAN /\ fatal \in BOOLEAN

(* Whatever the driver does while it is started, a call of its finds the   *)
(* session it renders from, alone, and before and after that no call is    *)
(* under way; `callback_target' is published before Start and cleared      *)
(* after Exit (AsioOutputBackend.cpp:941, 1068).                           *)
CallbackHasSession ==
    ~fatal => /\ \A c \in Callbacks : callback[c] # "idle" =>
                     session /\ callback_target /\ driver = "started"
              /\ Cardinality({c \in Callbacks : callback[c] = "filling"}) <= 1
              /\ (driver = "started" => callback_target)
=============================================================================
