# A TLA+ model of GCLoader

GCLoader is a DLL that is loaded into an arcade rhythm game and replaces parts
of it: the input driver, the audio output, the judgement of notes, the timing of
frames, the card reader and the start-up of its service process. This directory
models the parts whose correctness depends on ordering: threads that race, queues
that overflow, history that is pruned while it is still read, and life cycles
with failures in the middle. Paths below are relative to the repository.

Contents: [inventory](#inventory) · [modules](#modules) ·
[runs](#runs) · [fairness](#fairness) · [proofs](#proofs) ·
[abstractions](#abstractions) · [plan](#plan)

## Inventory

### The path of an input

    devices -> input worker thread -> packed word (atomic) -> game's I/O reads
                      |
                      +-> gameplay transition transport (mutex, ring)
                                   |
    game thread: stage entry --cutoff--> scheduler: drain -> resolve -> history
                 native loop --outer call--> scopes -> native recognition
                 stage exit --cutoff--> cleanup accounting

* **Input polling runtime** (`src/Input/Polling/InputPollingRuntime.cpp`). State:
  settings, open count, start-up flags, stop event, the worker `std::thread`, all
  under one mutex; the worker's window, timer, devices and mapper; the published word.
  Operations: configure, open, close on the game's side; initialise, handle a
  message or a timer tick, publish, die, shut down on the worker's. Hard: close
  joins a thread while it keeps the mutex, open waits for a thread it has started,
  the worker may fail or die at any time, and the word is exchanged before its
  transition is recorded. Correct: one worker, stopped exactly when unused; nothing
  stays held when no worker runs; every call returns; what the transport says is held is
  what the game reads.
* **Input mapping and devices** (`src/Input/Types`, `src/Input/Win32`, `InputMapper.cpp`).
  State: a threshold latch and a state per binding, the XInput slot's connection, packet
  number and reading, the raw HID device's last values, whether the window is in front.
  Hard: the foreground is lost, a device is unplugged, a poll fails or a packet does not
  fit while something is held or rests between its thresholds. Correct: nothing is held
  that its device has not reported.
* **Gameplay transition transport** (`GameplayTransitionJournal.cpp`). State: a ring of
  65536 records, the epoch, the next sequence number, the eviction count, two
  flags. Operations: prepare, begin and end an epoch, publish, capture a cutoff, drain,
  read the status; each is one critical section. Hard: overflow, exhaustion of the
  sequence numbers, a new epoch between two drains. Correct: it holds a window of
  consecutive records, each starting from the controls the previous one left held, and
  every loss shows in the counters.
* **Judgement history** (`src/Patches/AbsoluteJudgement/JudgementHistory.cpp`). State: a
  base state and the retained entries after it. Operations: reset, append, convert to
  state only, prune, and the queries held, pressed, released, released in window, held
  age. Hard: entries older than four quanta (4/60 s) disappear into the base state
  while queries still look back. Correct: no admissible query can tell.
* **Scheduler and stage** (`JudgementScheduler.cpp`, `JudgementStage.cpp`). State: the
  cutoff, the unresolved records, the history, delivery and drain positions, the
  committed frontier, the index of the committed 1/60 s boundary, the counters.
  Operations: begin and end a stage, prepare an outer call (drain, bind the clock,
  resolve, select a horizon), next scope, commit, finish. Hard: the worker reads the
  clock before it takes the transport's lock, so a record can arrive behind what has
  been judged; several events may share the tick of a boundary; one call judges one
  event or at most three boundaries. Correct: every record is delivered once, kept as
  late state, dropped as overload or counted as cleanup; coordinates are judged
  in order; every boundary is judged once; no interleaving reaches one of the scheduler's
  own fatal order checks, and those of the clock's answers fail only for what the clock did.
* **Runtime, scopes, diagnostics, clock resolver** (same directory). They dispatch the
  scopes into native code, answer its input queries from the history, check
  the committed order and map host time to judgement time with exact rationals: from the
  one play of the stage under ASIO, from the anchor of the exact clock that a time falls to under WASAPI.
### Audio

* **Mixer and cursor timeline** (`src/Audio/Mixer`). State: per voice the play and seek
  tokens, the cursor, the recorded end, the count of active voices; a ring of mapped
  spans; a history of playback epochs; the sample data behind a hazard pointer. Operations: play, stop,
  seek, lock and unlock, mixing of a period. Hard: the callback mixes while the game calls,
  atomic by atomic. Correct: a voice is counted once, what is mixed is live, a position
  reported is one that is heard.
* **WASAPI exact clock and render loop** (`ExactWasapiClock.cpp`, `OutputPacingTracker.cpp`,
  `ExclusiveAudioEngine::RenderLoop`). State: a ring of anchors (endpoint position, host
  time, submitted tail) with a version per slot, the published count, the invalidated flag;
  the pacing tracker's tail and recent gaps. Operations: publish, invalidate and resolve a
  host time; plan, commit. Hard: the audio thread overwrites the ring without a
  lock while the game thread searches it; the loop plans in whole output frames, the clock
  compares positions and host times as the endpoint reports them. Correct: an answer is what the
  list of all anchors would give; the loop's own anchors are refused only for an endpoint whose host
  time goes back, or whose position does within one frame; times in order are
  mapped to frames in order (they are not always, see the findings).
* **WASAPI engine** (`ExclusiveAudioEngine.cpp`). A game thread that starts it and waits with a
  time-out, an audio thread that owns the endpoint, a monitor thread that ends the process after
  a failure; events and a claimed failure between them. Hard: a failure while the start is
  reported, two recorders, an exit that releases the clock under a reader. Correct: the start is
  told before the failure, every failure ends the process, every wait ends.
* **ASIO output** (`AsioOutputBackend.cpp`). An owner thread, the published session, driver
  callbacks that overlap each other and the close.
* **ASIO in the configuration tool** (`AsioIsolatedProcess.cpp`, `AsioProbeProtocol.cpp`,
  `AsioCapabilityProbe.cpp`, `src/tools/ConfigGUI`). The window's loop with the document, whether
  it was changed, and the inspection shown; the thread of one operation: an inspection, a control
  panel or a save; the file; and per operation a process that loads the driver, with its pipes, a job
  and a reader thread. Hard: code of another vendor crashes, prints, hangs or answers late, and
  settings change while it does. Correct: a valid inspection is what the driver would answer about
  the settings shown, a saved ASIO setting was accepted by the driver, no process outlives its
  operation, inspections and saves end and the window closes.
* **Backend control** (`AudioBackendController.cpp`, `AudioRuntimeState.cpp`,
  `ExactJudgementTimeline.cpp`). Which engine is active, its start for the game's window, its
  release at the ASIO close; a registered timeline with generations.
* **DirectSound facade** (`src/Audio/DirectSound`). Buffers on top of voices: position and status
  from the presented output, lost buffers, release.

### Everything else

* **Card reader** (`src/Rfid`). An emulated serial port with a JVS device: a decoder fed
  by pieces of writes, one pending reply, the last reply for retransmission, and the scanned
  card that a key worker and a pipe client share with the port. Correct: every undamaged
  request is handled once, replies are not mixed, a scan is consumed by its own transfer.
* **Start-up** (`src/Loader`, `src/Platform/Win32/Hooking`, `src/Win32Hooks`,
  `src/Patches/GameVersion`, `src/Patches/RuntimeImage`): a plan of patches and
  hooks that is validated as a whole and then installed one by one. Hard: failure in
  the middle, several detours behind one exchanged slot. Correct: what can be entered has its
  original, a file that does not fit is not touched, a process that runs is complete.
* **Test-mode timing** (`src/Patches/TestModeTiming`): an edit session and a
  read-rewrite-replace save that must survive a failure or the end of the process at
  each step.
* **Framerate** (`src/Patches/Framerate`): the authored clock and the song clock
  derived from a render clock of another rate.
* **Renderer device loss** (`src/Patches/RendererDeviceLoss`): release and
  re-creation of resources around a device reset.
* **Request tracking** (`src/Nesys/Diagnostics`): messages, log writes and WinHTTP requests are correlated in fixed
  tables from the detours of several threads. Hard: full tables, a handle value that returns before its
  close was observed. Correct: a report is given once and counts its own object's calls.
* Pure I/O, data or geometry, not modelled: widescreen rendering, the service launcher
  and its network and registry answers, the parsing of the configuration file, path routing, logging,
  crash dumps, locale, constant byte patches, the other pages of the configuration tool.

`PROJECT.json` lists every component with its status, and the hazards of the code with
the properties that would catch them.

## Modules

| module | models | how |
| --- | --- | --- |
| `TransitionChannel` | what the transport promises | the queue is a sequence; `Publish`, `CaptureCutoff`, `Drain`, `Prepare`, `Begin`, `End` are the critical sections; `answer` is what the last call returned |
| `GameplayTransitionJournal` | the transport as written | `records`, `read_slot`, `size`: head and wrap-around, eviction, clearing; `ChannelSpec` maps the live slots to the channel's queue |
| `ControllerActivation` | how far a control is moved | pure operators on fractions: axes, triggers, values, hats, sign extension |
| `InputDevices` | the worker between two publications | one action per message or outcome of a timer tick, up to the exchange of the word; `publication` is what the exchange returned, `reading` whether the mapper has the last reading |
| `InputWorker` | the worker and the game over the transport | EXTENDS the journal and the devices; `Transition` is what follows the exchange; a process whose `worker` is "any" has arbitrary callers of the transport instead |
| `JudgementHistory` | `JudgementHistory.cpp` as operators | a history is a record; appending, pruning and every query are operators on it |
| `JudgementScope` | the native queries of a scope | a scope is a record; `IsResolved` is its validation, `Answer` what a hook returns |
| `HistoryReplay` | a stage that appends, converts, commits and prunes in the scheduler's order | `log` keeps every entry ever appended; the properties compare the pruned history's answers with the log's |
| `JudgementScheduler` | worker, stage, scheduler together | EXTENDS the channel and the history; one action per step that another thread can observe; `anchors` is what the WASAPI clock was told, `JudgementTime` what it makes of a host time |
| `ExactWasapiClock` | the anchor ring and its search | every atomic store of `Publish` and load of `ReadStable` is a step; positions are in the endpoint's units, frames are fractions; `anchors` keeps every anchor accepted, and `LogAnswer` is the answer it gives |
| `WasapiRenderLoop` | the running output | EXTENDS the clock; the endpoint is an action of its own that moves on and asks for packets; what it reports of its position and of the host time may lag, more or less each time; `ToOutputFrame` is the conversion the loop plans with |
| `WasapiEngine` | the engine's three threads | events are a set, the claimed failure two words; endpoint calls go well or fail |
| `AsioSession` | the ASIO owner thread and the driver | the driver calls back whenever it is started, and returns from Stop when no call is left in it |
| `AudioBackend` | the game over either engine | EXTENDS both; the runtime's configured backend decides which one runs |
| `AsioProtocol` | requests and answers between the tool and the driver's process | a message is a sequence of fields; encoding, and decoding with every check |
| `AsioHost` | that process and the call that runs it | `host` is where the process is, `run` the call on the tool's side, `reader` its thread, `job` what kills it; `devices` is what the driver would answer |
| `AudioEditor` | the audio page, its operation thread and the save | EXTENDS the host; an action per button, edit and turn of the loop that finds a result |
| `AudioSnapshot` | the hazard pointer of the sample data | every load and store is a step, and an address may be allocated again |
| `AudioCursorTimeline` | mapped spans and playback epochs | operators and actions of the ring and the history |
| `MixerVoice` | one voice | EXTENDS both; a step is a load or store of the shared atomics with what its thread does up to the next |
| `SoundBuffer` | the buffer as the game calls it | EXTENDS the voice; `game` is the call under way, `heard` what the output presents |
| `JvsLine` | the serial line's encoding and decoding | a decoder state per value pushed |
| `JvsDevice` | every command of the emulated reader | an action per command |
| `CardReader` | port, scanning threads and game | EXTENDS the device; requests written and replies read in pieces |
| `RequestTracking` | the diagnostics of pipes, vendor logs and WinHTTP objects | a hooked call is its detour, the system's call, and the observation that enters the tables |
| `VersionedStartup` | planning, validation and installation | the image is a function from cells to contents; each write, exchange and publication is a step |
| `TimingSettings` | the form and the save | one action per call of the file system, each with its failures |
| `InputPollingRuntime` | the worker's life cycle | client calls and the worker's thread under one mutex; the two condition waits are separate steps |
| `LoaderProcess` | a process and the next | start-up, then the input or the test mode, ended at any step |
| `TransitionChannel_proofs` | theorems about the channel | each proof module EXTENDS the module it is named for |
| `InputWorker_proofs` | about the ring, the devices, the worker | uses the channel's theorems by INSTANCE |
| `JudgementScheduler_proofs` | about the scheduler over the channel | |
| `HistoryReplay_proofs` | about the history and the queries of a scope | |
| `LoaderProcess_proofs` | about start-up, polling and settings | |
| `SoundBuffer_proofs` | about the sample data and the buffer | |
| `AudioOutput_proofs` | about the WASAPI clock, loop and engine, the ASIO session, and the configuration tool | EXTENDS `AudioBackend`, `WasapiRenderLoop` and `AudioEditor` |
| `Services_proofs` | about the card reader and the request diagnostics | EXTENDS `CardReader` and `RequestTracking` |
| `MC*` | constants for TLC | small sets and bounds only |

How the steps were cut. A critical section of the transport is one step. The worker's
`Publish` is two: `Sample` reads the clock (`InputPollingRuntime.cpp:647`),
`PublishSampled` takes the lock. Stage entry is two (`CaptureStageEntry`,
`BeginSemanticStage`) and so is the horizon (`StartOuterCall` reads the clock, the drain
follows). Each turn of the drain loop is a step, since the worker can publish between
two turns. Later phases of an outer call touch only the game thread's state; they are
steps of their own because each has its own fatal checks, and the phase variable orders
them as the code does. A fatal check is an action that sets `fatal` and stops the
system, exactly as `Fatal` ends the process; the order of the checks in the code is the
order of the list given to `FirstFault`.

## Runs

| run | shows | bounds |
| --- | --- | --- |
| `input_worker` | the ring implements the channel; the transport's baseline is the word the game reads; nothing is held that was not reported | two slots and numbers up to 3, so that the ring wraps, evicts and exhausts its numbers; one key with two actions; a stick, a button, a signed value that may leave its range, a hat with a null state; thresholds 50 and 40; one start of the worker (any number by arbitrary callers) |
| `history_replay` | no query notices pruning or late records; the age counts from the newest accepted rise | two controls that form a pair, a quantum of two ticks, times to 9, so that more than four quanta pass, three entries |
| `scheduler` | nothing is lost, doubled or judged out of order, also when the worker restarts in a stage; no order check fires, and a check of the clock's answers only when the endpoint fell behind or an anchor was overwritten | one control, transport of 2, unresolved of 2, batches of 1, one protected event, one heartbeat per call, three clock ticks, quantum 2, play origin 1, two epochs (`MCOneThing`: the second with one record, one anchor and no eviction; two anchors with two records and no eviction), WASAPI with two anchors at positions 1 and 2, one of them retained, waiting and failing: late records, overload, eviction, exhaustion, equal ticks, times that cross and lost anchors all occur |
| `progress` | the backlog is judged once the clock stands | one epoch, two heartbeats per call, quantum 1, ASIO |
| `exact_clock` | an answer is the log's, or says it was overtaken; own anchors are refused only for a host time that goes back or a position that does within a frame; three gaps in a second end the loop and only they | ring of 2, two attempts, three ticks, one time asked for, three units to two frames, an endpoint that stalls or moves 8 units a tick and reports positions one unit and host times three ticks too old, packets of 2, a window of 12 frames |
| `clock_order` | **violated**: a later time is mapped to an earlier frame | an endpoint that presents 0 or 4 frames a tick at a nominal rate of 2, of which a unit is one, packets of 4 |
| `audio_backend` | the start is told before the failure, a failure ends the process, a callback has its session, waits end; the configuration tool tells the truth about a driver, and its operations end | two failure stages, two overlapping callbacks; both backends and a disabled one; two drivers, three edits, two operations |
| `sound_buffer` | the voice is counted once, what is mixed is live, positions and status are those heard | a source of three frames, periods of two, ring of two spans, two epochs, two sample addresses, three calls; `SegmentsExact` checks the cutting of spans for all rates up to 5:5 |
| `seek_anchor` | **violated**: a play loses a seek that the render thread applies meanwhile | as `sound_buffer` |
| `services` | card reader: every undamaged request is handled once, replies stay whole, scans are consumed by their own transfer; request tracking: no report is given twice, counts another object's calls or loses a record | 14 requests that reach every command, two frames per opening, two scans, writes of three bytes or whole, reads of 6 or whole; two threads, four calls of files, five of WinHTTP, tables of two (files) and one (WinHTTP), two handle values of each sort |
| `game_process` | live detours have their originals, a running process is complete, an unfit file is untouched; opens and closes; the settings file | nine cells, two plans, three images (a known file with one of two patches, an unknown one with the other, one that differs); two clients with two nested opens; offsets 0 to 1, files with good, out-of-range and no offsets, two temporary names; two processes |
| `failed_save` | **violated**: a refused save leaves no settings file | as `game_process` |

Why small is enough. The ring's arithmetic is uniform in its capacity, and the proofs
cover every capacity. The history compares times with `t - 4Q` and sequence
numbers with each other, so one entry beyond the look-back, one on it and one inside it
make every case. The scheduler distinguishes a record before, at and after the frontier
and the next boundary; four ticks hold two boundaries with a tick before and between
them. Records beyond the capacities end the process in the code and in the model.

The anchor ring distinguishes a slot that is older, current, being written and newer; with
two slots and three publications each of these meets each load of a search. With three units to two frames,
going back by one unit is going back by a frame from some positions and staying in it from others. Two anchors
are the least whose extrapolations cross, and a ring of one the least that loses one of them. Fields
that never change while a clock lives (generation, mapping, rate) are left out of the
anchor, and the sequence number is the publication's, so three fields of nine are stored
one by one.

The input worker's steps meet the transport only in `Transition` and in the mask, so one
start of it, four pads and one key reach every pair of a held word and an event; the ring's
own bounds are met by the arbitrary callers. A latch distinguishes below, between and above its
thresholds, and the pads place a control in each. The voice distinguishes a period before, over
and after the end of the source, and a run token one older or newer. A request survives an
opening of the port only as the last and the pending reply, so two frames show every
combination of the two.

The findings. The authoritative audit (line 789) counts a regressing event coordinate among the
internal invariants, from a single producer of times and a "monotonic exact output
mapping". `ResolveQpc` extrapolates at the nominal rate from the newest anchor at or
before the time, up to the submitted tail; when the endpoint then turns out to have
presented less, the next anchor lies below the extrapolation, and a time after it is
mapped to an earlier frame than a time before it already was. Nothing between
`Publish` and the scheduler's check (`JudgementScheduler.cpp:755`) prevents that, unlike
the presented cursor clock, which remembers what it has returned. `clock_order` shows
the two times, and `scheduler` contains the stage that ends this way: `NoOrderFault` allows the check to
fail exactly when the endpoint has fallen behind between two anchors. How often it happens depends on how the endpoint reports its position;
two inputs must fall on the two sides of an anchor closer together than the error.

The plan of the cursor's generations wants a seek that is not yet applied to survive a play.
`Play` loads the cursor first and the sequence of the last applied seek afterwards; when the
render thread applies the seek between the two, the play takes the old cursor and believes
that no seek is pending. `seek_anchor` shows it.

The design of the test-mode settings says that a failed save leaves the disk unchanged. The store
calls `ReplaceFileW` without a backup name; its documented failure
`ERROR_UNABLE_TO_MOVE_REPLACEMENT` leaves the old file gone and the new one under its
temporary name, which the store deletes. `failed_save` shows it.

Observations without a run, because they need a caller or a configuration that the repository
does not show to occur, or because no document decides them:

* `JudgementHistory.h:82` says that `PruneBefore` is given the oldest time any pending or future scope
  can ask for, "including relative-frame translation"; `CommitScope` passes the
  committed scope's own time (`JudgementScheduler.cpp:1222`). A release of both controls of a pair
  that is asked for an earlier frame looks four frames back from there and can miss a
  companion that is pruned by then. `EarlierReleases` speaks of single controls and of
  either of a pair; no call site shows that native code asks for both.
* A poll that fails with another error than "not connected", or a raw packet that does not fit, forgets
  the reading without telling the mapper, and the next "not connected" reports no change: held
  controls stay published until the controller is back or the foreground is lost. The design of the
  native input (2026-07-19, lines 297 and 480) asks for a release. `HeldIsReported` leaves a
  reading that was given up out.
* Controls that are held while the worker starts are not applied until the packet number changes.
* A release threshold of 0 is accepted; a latch that was once pressed then never releases,
  a button's neither, although the same design says (line 308) that buttons are pressed when
  their bit is active. `HeldIsReported` speaks of the release threshold.
* The searches of `RequestTracking.cpp` take a null handle for a free slot, so closing a null WinHTTP handle, which
  fails, would report a request with sequence 0 while a slot is free. The model's callers pass no null handle.
* A card request that is handled while a reply is pending is executed although its answer is discarded; the plan of
  the card reader (2026-07-16, lines 30 and 908) speaks of rejecting it.
* After the driver's process has exited by itself, the tool waits for its reader without a time-out
  (`AsioIsolatedProcess.cpp:508`). A helper process that a driver starts and that inherits the output
  pipe would keep that wait, and so the closing of the window, although the probe has one of five seconds.
* A channel name of a driver has up to 31 bytes in the system's code page and is sent as UTF-8 with at most 32
  bytes: a longer one ends the process without an answer, and the tool reports a driver that failed.
* A binding that is captured while a save is under way is on the page but not in the saved document,
  and the page is loaded from the file when the save is done.
* The save of the configuration replaces its file as the test-mode settings do, without a backup name.

## Fairness

`FairSchedulerSpec`: the native loop calls again and again and a call that has
started goes on (weak fairness of an outer call's steps), a stage entry that has read
its clock takes the lock, a worker that has read its clock publishes. The worker is not
assumed to sample, the clock not to advance, a stage not to end. `CatchesUp` is
conditional on the stage staying active.

`Fairness` of the polling runtime (part of `ProcessSpec`): each step of an open or close that has begun, each
step of the worker's start-up and shutdown, and its wake-up once the stop event is set.
The worker waits for the event and for messages together; `WaitForInputWorkerWake` looks at
the event once before the messages and drains them then, so the last assumption says that its
message queue is drained eventually. Clients are not assumed to call, and a client that only waits to enter is not promised to.
The process may end at any step, which ends every call.

`FairSpec` of the audio output: a thread that is not blocked takes its next step, separately for
the game's waits, the monitor, the two recorders of a failure, the exit of the audio thread once it has left
its loop, the ASIO owner's start and close, and a driver callback that has begun.
The driver's return from Stop is strongly fair: it returns when no callback is left in it, which recurs. Nothing is
assumed of the endpoint's calls, so the start's own time-out is what ends the game's wait.

`ToolFairness` of the configuration tool: the operation's thread and the reader go on, a wait with a
time-out ends, and a window that closes joins its thread. Nothing is assumed of the driver's process,
of the driver or of the user, so a panel may stay open until the window closes.

## Proofs

All proofs are checked by TLAPS for every value of the constants that satisfies the
modules' assumptions. Most of these only give the constants their sorts (`Capacity` and
`MaxU64` positive, a non-empty set of times, finite controls, callbacks and clients,
`Released` one of the words, positive limits, windows and packets). Those that say more
are what the code checks or declares:

* `ControlsAssumption` (and `DevicesAssumption`): a binding names a kind of control its
  backend has, with a direction of that kind, and a neutral inside the range the control reports;
  release is below press. `InputValidation.cpp:95-129` and
  `RawHidController::ValidateBinding` (`RawHidController.cpp:447-478`) refuse anything else.
* `PlanAssumption`, `StartupAssumption`, `ExportAssumption`: requests have the shapes that
  `ValidateContext` (`VersionedPlan.cpp:134-178`) demands, the service's plan has no feature with
  a runtime to prepare, and two hooked exports are the same function or lie apart.
* `RequestsAssumption`, `DeviceAssumption`: payloads fit a frame (`kMaxPayloadSize` in
  `Jvs/Types.h`; the encoder refuses a longer one).
* `ReplayAssumption`: native code asks at most four frames back. A query does not check it; pruning
  rests on it by keeping 4/60 s before the committed time (`JudgementHistory.cpp:262-286`), and a
  query further back is answered with `PromisedEntryMissing`, which is fatal.
* `InstalledAssumption`: a driver has a list of outputs, each with the length of its name and one of the three classes of
  sample types, which is what `ProbeAsioCapability` collects (`AsioCapabilityProbe.cpp:272-286`).
* `LostIsNoPair`: no file at all is not a pair of offsets.

### The transport and the input worker

* `ChannelInvariant` (`TransitionChannel_proofs`): the channel's typing, the consecutive
  window and the chain of held controls. Neither is inductive alone: the chain at the end of
  the queue needs the published controls, and the window needs that the queue is empty
  unless the epoch is the current one, so `Inv` is their conjunction.
* `ImplementsChannel` (`InputWorker_proofs`): every step of the ring is a step of the channel.
  `IInv` says that the live slots, and only those need it, hold records;
  the slot lemmas (`ModOnce`, `SlotValue`, `SlotsDiffer`, `SlotShift`) reduce
  the modulus to one subtraction, and one lemma per operation shows what it does to the
  mapped queue. `RingTypeOK` and `RingWindow` carry the channel's invariant over.
* `WorkerImplementsChannel`, `WorkerKeepsWindow`: the worker that exchanges the word and
  then records the transition drives the ring only as it allows, so the window carries over again.
* `BaselineIsWhatTheGameReads`: while nothing is between the exchange and its record, the
  held controls the transport hands out are those of the word the game reads. `FollowsInv` adds
  what holds in between: the word is already the new one and the transport still has the one before.
* `HeldAsReported`: nothing is held that its device has not reported. `HeldInv` is typing
  (`Shape`), what the readers keep of an opened controller (`Opened`: the state kept is the pad's as of the
  last packet read), and `Held`: the latches fit the last reading (`Sound`) and never hold both
  directions of a control (`Apart`, for a release threshold above 0 and equal neutrals).

### The scheduler

`SchedulerInvariant` is the inductive invariant of the composition of the transport, the worker
and the game thread, for every capacity, batch, quantum, limit and backend. Its parts: what is the
same since stage entry (`StageInv`); the drain cursor and the held mask continue into the
transport's queue when nothing was lost (`LinkInv`), and likewise the unresolved records and the history
(`UnresolvedInv`, which holds after a loss, too, because a drained record stays good); all times along history, unresolved records,
queue and the sample about to be published are in order (`ClockInv`), and unless the WASAPI endpoint has fallen behind
between two anchors the clock will answer no later time with less than what it has answered (`Reached`, from
`AnchorsInv`); the history is consecutive,
sorted and counted (`AccountInv`); what each phase of an outer call may find
(`PhaseInv`); committed coordinates lie behind everything pending, strictly and past the whole tick after a boundary
(`FrontierInv`); what the history has folded away lies behind them (`FloorInv`); a scope
that is out fits between (`ScopeInv`).

From it: `NoOrderFaults` (whatever the clock answers, no interleaving reaches one of the checks of sequences, masks,
deliveries, queries and commits that end the process; a resolved time or a horizon goes back only when the endpoint
fell behind, and a time is refused only then or when its anchor was overwritten),
`RecordsInFlightChain`, `RecordsConserved` (each record is delivered, late, dropped or counted as
cleanup, exactly once), `JudgedOnlyForward`, and the action properties `CleanupDropsCounted` and
`LateRecordsRaced`. `NoOrderFaults` is for an eviction count below `MaxU64`: it saturates there and
cannot tell a further loss, which the code has no other way to see.

### The history and its queries

`HistoryReplay_proofs`, for every set of controls and pairs, every quantum, every time at which a transition may
happen and every number of transitions:

* `ReplayInvariant`: the log is numbered, in time order and chained by what is held (`LogInv`). What
  is retained is its end, and the causal base is the state its beginning leads to (`HistoryInv`), where `LogState(n)`
  says without any replay what is held after the first n entries and which of them is the newest rise of each
  logical control. `ReplayOne` shows that applying an entry leads from one such state to the next; `ReplayLog` does any
  number of them, by the least position at which a replay would differ (`Segment`), since
  induction cannot be instantiated. What is pruned lies more than the look-back of 4/60 s behind the
  frontier, and no pending event lies before the frontier (`FrontierInv`), so that a scope (`ScopeInv`)
  never asks for what is gone.
* `QueriesAreTransparent`: one lemma per kind of query (`ScopeResolved`, `HeldAnswer`, `EdgesAnswer`, `EarlierAnswer`,
  `EventStart`). `StateAtLog` turns a replay into `LogState`, and `RetainedOrOld` says that
  an entry of the log is retained or too old to be combined with.
* `AgesSinceAcceptedRise`: `AgeAnswer`, from `LogState` and from what an event and a heartbeat know of
  their own place in the log (`EventAt`, `HeartbeatFacts`).

### Start-up, polling, settings

`LoaderProcess_proofs` proves the three about the composed process, any number of processes one after the other,
ended at any step:

* `WorkerLeavesNothing`, `WorkerIsOwned`, `WorkerStopsUnused`: `RuntimeInv` ties the
  worker's phase to the epoch flag and the thread object, the open count to the number of handles, and says
  what a call that starts or stops the worker may find between its steps (`CallsInv`).
* `SettingsAreKept`: `SettingsInv`. A process that is between two saves is `AtRest`; as long as no save has failed to
  apply, live settings, file and the form's original agree except where a step of the save has yet to make them.
* `DetoursReachOriginals`, `RunningIsInstalled`, `OnlyProvenImagesTouched`: `StartupInv` relates the
  approved plan to the image as it was loaded (`ApprovedInv`), each changed cell to an approved
  site whose original is out already (`TouchInv`), and what has been passed to what is live
  (`ProgressInv`). `RefusedInv` says that the two failures a half-installed process would die of are not reached.

### Audio

* `ClockAnswersFromLog` (`AudioOutput_proofs`): the answers of the exact clock, for every
  ring capacity and number of attempts. `ClockInv` says that a slot's version names a
  publication exactly when it is finished and not overtaken (`SlotInv`, which rests on
  `SlotsOfOneTurn`: publications that share a slot are whole turns apart); that while the
  version has not moved, the fields loaded so far are the anchor's (`LoadInv`); that
  once one publication was overtaken so is every older one, so a search never selects
  after a failed read (`OvertakenInv`); and that what it passed over is later than the time
  (`PassedInv`). `VerdictFromLog` then gives the answer.
* `LoopImplementsClock`, `LoopAnswersFromLog`: the render loop's steps are steps of the clock,
  so its theorem carries over. `LoopPublicationsAccepted`: the loop's anchors are refused only for an endpoint whose
  host time goes back, or its position within one output frame. `Plan` stops at a frame that goes back, and rounding
  down keeps the order of positions (`FramesInOrder`); a packet after a gap is aligned upwards (`AlignUpBounds`), so its
  end never goes back. The two exceptions are real: nothing in the loop looks at the host time or at the
  part of a frame, so such an endpoint ends the stage (`RefusedWithinFrame`).
* `ChronicGapsMeanThree`: the loop gives up for gaps exactly when three of them lie in one window. `GapsInv`: the
  tracker keeps the last gaps, those within the window of the newest and no others. The pruning is a selection from a
  sequence, unfolded for the at most two positions that are kept before a third ends the loop.
* `SnapshotViewIsLive`, `SnapshotRetiredBounded` (`SoundBuffer_proofs`): the protocol of the sample data. The invariant
  follows the ownership of an address: published, retired, being written or free; a
  render thread that has confirmed its hazard names one that is published or retired, and a
  reclamation that could free that one has loaded the hazard after it was set.
  `BufferImplementsSnapshot`, `BufferViewIsLive`: each step of the buffer is one of that protocol or
  leaves it alone.
* `BufferVoicesCounted`: from `CountInv`: the shape of the voice's words (`Shape`), the call under way belonging to its
  phase (`CallUnderWay`), what a phase of the callback has already claimed (`PhasesHeld`), and the count.
* `SegmentLengthExact`, `BufferSegmentsExact`: the cutting of spans. The first is arithmetic, for every begin, remaining
  length and pair of rates: a cut of one whole denominator is exact because the numerator divides through, a shorter one
  because its length was checked. The second carries it to the running buffer, for the rates of `MCSoundBuffer`.
* `BufferHistoryTruthful`, `BufferReportsHeard`: the exact history and what the game is told, for any source length,
  period, gaps of the endpoint, capacities of history and ring, and number of calls. `BufferInv` has three layers.
  `VoiceInv` holds in every state: the epoch a call asks for is the next one (`Called`), a search in the ring keeps to its
  indices (`Searching`), and each seek in the mailbox is newer than the mapping until it is applied
  (`Mailed`). The other two hold until a play has met the render thread inside the voice (`overlapped`; see the abstractions, and
  `OverlappedStays`, which makes it a fact about the earlier state). `Held` says which run the render thread
  works for. `Truth` is about the history: the epochs kept are in order, the earlier ones closed, and give what is heard
  (`HistoryOK`), what is heard belongs to an epoch that is kept or was evicted (`HeardOK`), the epoch being mapped is the
  newest of them (`MappingKept`), and a voice that plays on resumes where its mapping has come to (`Steady`).
  `Told` is about the game's calls: a slot of the ring holds one of the last spans and the span says what is heard
  (`RingOK`), what a search has looked at does not cover the frame asked for (`SearchOK`), after the end that the render
  thread published nothing is heard (`DrainOK`), and a query that may answer "stopped" stays right until it returns
  (`StatusOK`).
  `VoiceAssumption` says that a source and a period have frames and that silence is no sound. Without the first the code
  has nothing to divide positions by.
* `ObserverToldInOrder`, `ReleasedClockAfterFailure`: from `EngineInv`, which
  says who has claimed the failure and what it still has to do (`RecordInv`), that the success was told before the
  monitor can look (`SuccessInv`), what the observer has heard at each step (`ReportInv`), and when a voice may find
  the clock released (`VoiceInv`).
* `CallbacksFindSession`: what there is of the session at each step of its owner
  (`OwnerInv`), and that the flag belongs to the one call that fills a buffer (`CallsInv`).

### The configuration tool

* `ToolIsTruthful` (`AudioOutput_proofs`): for any drivers, any names and sizes that are entered and any number of
  edits and operations, a page shown as valid is what the configured driver would answer now, a saved ASIO document
  was accepted by its driver, and no process outlives its operation. `ToolInv` adds to these what they rest on.
  The first half is about the process. `RunInv` and `HostInv` tie the step of `Run` to where the process is, and what the
  process has been asked to what `Run` was; `ResultInv` says that a report it holds is the one the driver gives for that
  request, since no process that answers a question shows a panel, and that a validation has been accepted once the
  driver is released. `StreamInv` carries the report to the tool: until the process has answered there is only
  noise in the pipe and in the reader (`OnlyNoise`), and afterwards what is decoded as a report is that report, or nothing is
  (`Honest`); a crash inside the answer or an overflow leaves nothing to decode.
  The second half is about the page: who is busy with what (`WorkerInv`), that an inspection under way or
  finished is one of the present settings, of which only a binding can change meanwhile (`InspectionInv`), that nothing
  is shown as valid while a panel may change the driver (`PanelInv`), and that what is about to be written was
  accepted (`SaveInv`).
* The lemmas about the messages are the bulk of it: `RequestRead` and `ReportRead` (a request, and a report with any
  number of channels, are read as they were written), `FailureRead` (a failure is not read as a report), `CutMessage` and
  `NoisyMessage` (neither is a message that was cut or comes after noise). A report's channels are flattened by a recursive function; `FlattenedTriples`
  gives its value by position, again by the least position at which it would fail.
* The theorem is stated for `ToolSpec`, the tool by itself; in the run it shares a behaviour with the game's output,
  with which it has no state in common.

### The card reader

* `EncodedFrameDecodes` (`Services_proofs`): for every address, payload and decoder state, decoding the encoded frame gives
  the packet back and takes the last byte. Encoder and decoder fold over values of any length: the
  argument is by the least position at which the claim would fail (`Segment`, `Recursion`), since the library's
  induction cannot be instantiated.
* `IntactFramesHandled`, `RepliesWhole`, `ScansAccounted`: from `PortInv`. A frame under way is what the decoder has taken
  and what the write and the game have yet to give, in order (`FrameInv`), so cutting the writes does not matter; a reply
  is encoded whole and the game has read its beginning (`ReplyInv`); the scan that is handed over is
  the newest that was armed (`DeviceInv`).

### Request diagnostics

* `RequestsAreTold` (`Services_proofs`): the four parts of `RequestsTold`, for any number of threads, calls, handles and
  slots. `TrackingInv` has three parts. `CallsInv` is about the system and the calls under way: an object is open under
  one handle, one thread at a time uses it, and what a call was entered or answered with is still so. `NumbersInv` and
  `LogsInv` hold in every state: a number is outstanding in one slot or reported once, and the sums of the records
  agree. `TrackedInv` holds until a handle comes back before its close was observed: an entry is of the object that is
  open under its handle, or whose close the one thread that made it still has to observe (`EntriesOwned`, `ClosedFree`);
  an object has one slot, and none while its opening is unobserved (`OneSlot`, `NotYet`); what is
  open is entered, unobserved or untracked (`AllEntered`); an entry counts its object's calls (`CallsCounted`); what is
  found under a connection's handles is its session (`SessionsKnown`); what is reported is over (`ReportsDone`).
  `ObserveLedger` shows first that each of the observations sets at most one slot, gives out at most one number and
  adds at most one report (`Ledger`), so that the invariant is proved once for that and not for each observation.
  `TrackingAssumption` says that handles are numbers and not null and that a pipe's or log's is no WinHTTP handle. The
  code looks each up in tables of its own (`RequestTracking.cpp:329`), so that a common value would be two handles.

### Only model-checked

Every invariant and action property that a run shows to hold is stated by a theorem. What is left to the checker is all
liveness (`CatchesUp`, `CallsReturn`, `WaitsEnd`, `FailureEndsProcess`, `ToolAnswers`), which is out of the prover's
reach, as is ENABLED.

## Abstractions

* Judgement time counts in the units of the host clock and of the endpoint's nominal rate; the rational arithmetic
  is left out. Under ASIO it is the host time since the song began. Under WASAPI it is an extrapolation from the
  newest retained anchor that is not later than the time, so it is monotonic along one anchor and not across two; the
  endpoint publishes any positions and host times that `Publish` accepts. Which of the code's answers is "not yet" depends on the
  submitted tail and on races in the ring, which `WasapiRenderLoop` has; in the scheduler's model any time may be
  answered so, and any clock may fail by its invalidation or its arithmetic (`ClockFails`). The failures that need a
  play to bind to (`BindFailures`) may occur until it is bound. Left out are the identity checks of the timeline
  afterwards and the contradiction of the native probe (`JudgementScheduler.cpp:380-416`), the ranges of the rational
  numbers, and a clock that gives a position before output frame 0.
* `MaxU64` stands for 2^64 - 1. The eviction count saturates there; a saturated
  count could not tell two losses apart, which takes 2^64 evictions, and
  `TransportIntact` leaves it out.
* Identity checks of the native stage and timeline, raw-queue-age statistics, and log
  texts are left out. The heartbeat index the diagnostics check is the committed boundary
  index itself.
* A sample that leaves the gameplay controls as they are, or that meets an inactive
  transport, changes nothing the scheduler's model keeps, and is no step there.
* Input worker: key messages are handled as they happen, without delay in the message queue; a key message whose
  packet cannot be read is left out, as are packets with several reports of one id. The catalogue of
  controls is given. A start that fails is part of `InputPollingRuntime` only.
* Audio output: counters and the negotiation of the format are left out, a running WASAPI engine is never shut
  down (the code only ends it with the process), and the game has one sound thread, as
  `docs/superpowers/plans/2026-08-31-asio-transport-and-absolute-judgement-simplification.md:439` says.
* Sound buffer: one voice, source and output at one rate, the publication of a span, an epoch or a drain as one step. A play
  that is published while the render thread is still in an earlier run may be mixed by
  it; `overlapped` marks such a run, and the three properties about positions leave it out. The eviction of epochs,
  the logical cursor of ASIO, streaming, the write cursor and gain are left out.
* Configuration tool: the catalogue of drivers is available and the file needs no migration; a setting off the
  audio page stands for all of them; closing the job ends the process and drops its unread output in one
  step; a driver's answers are fixed by its entry in `devices`, and any of its calls may fail instead.
* Card reader: the line settings are stored and returned unchanged; key edges and the outcomes of the pipe are "a scan";
  a card of the file is any card.
* Request tracking: only what concerns card requests is entered; messages about anything else, the durations of WinHTTP
  calls and the wording are left out; an object is used from one thread at a time, as Win32 asks.
* Start-up: requests have the shapes their builders give them; vtable slots are not yet exchanged when the process starts; hooked exports are
  cells; one dispatcher is shared. Settings: reading the game's memory fails only when applying; `ReplaceFileW` is
  atomic but for its documented failures; a process identifier may recur. The input and the test mode share nothing,
  so a process of the model uses one of the two.
* The exact clock's positions count the endpoint's units from the mapping's origin, and host times the ticks in which
  the endpoint is meant to move `UnitsPerTick` units. Its output frames are fractions, as in the code, of which the model
  keeps the numerator; the frames of the render loop are rounded down. Overflow checks are left out; a position before the
  origin ends the loop (`NoOutputFrame`). After a refused anchor the loop goes on with a clock that stays
  invalid, as the code does, and the scheduler ends the process when it next asks (`ClockFails`). The last
  two loads of the invalidated flag and the verdict are one step, since what is between them is local.
* Deadlock is not checked: a fatal check, a failed start or a failure of the output ends the
  process, and clocks, logs, calls and starts are bounded. That nobody waits for ever is stated
  as liveness (`CallsReturn`, `WaitsEnd`, `CatchesUp`).
* Bounds: `MaxQpc` (clocks), `MaxAnchors`, `Positions` and `MCOneThing` (the scheduler's clock, and what is combined with a second anchor or epoch),
  `DeviceSteps`, `ClockLags` and `TimeLags` (the endpoint), `MaxEpochs` and `MaxStarts` (starts of the worker, processes), `MaxTime` and
  `MaxEntries` (history), `MaxOpens` (nested opens of one client), `QueryTimes` (the times the scheduler may
  ask for), `MaxGeneration`, `MaxOutput` and `MaxCalls` (sound buffer), `MaxFrames` and `MaxScans` (card reader), `MaxCalls`,
  `MaxHttpCalls` and `MaxNow` (request tracking),
  `MaxAttempts` (temporary names), `MaxEdits` and `MaxOperations` (the configuration tool).

## Plan

What is left, in this order:

1. `FrameClocks`: authored and song clock under a render rate; `RendererLifecycle`.
2. The logical cursor of the ASIO backend.
3. The handler chains of hooked Win32 calls.

## Not modelled

Pure I/O, data, geometry or user interface: the widescreen renderer, the service launcher with its network
and registry answers, the parsing of the configuration file, path routing, logging, crash dumps, locale,
constant byte patches, the other pages of the configuration tool and its advisor.
