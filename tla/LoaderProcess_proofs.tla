--------------------------- MODULE LoaderProcess_proofs ---------------------------
(***************************************************************************)
(* For any number of processes one after the other, of sites, images, game *)
(* threads, opens and saves, and wherever a process ends: the startup      *)
(* patches proven images only and leaves no detour without its original,   *)
(* the input worker is owned, used and stopped as its callers hold it, and *)
(* the timing settings on the disk are those of the last accepted save.    *)
(***************************************************************************)
EXTENDS LoaderProcess, WellFoundedInduction, FiniteSetTheorems, TLAPS

-----------------------------------------------------------------------------
(* InputPollingRuntime.                                                    *)
(* Between the calls: who is starting, who keeps the mutex, and what a     *)
(* thread that starts or stops the worker has left of it.                  *)
CallsInv ==
    /\ call \in [Clients -> {"none", "opening", "failing", "closing"}]
    /\ held_opens \in [Clients -> 0 .. MaxOpens]
    /\ \A c \in Clients :
          /\ call[c] = "opening" => stop_event = "clear"
          /\ call[c] \in {"opening", "failing"} => starting
          /\ call[c] = "closing" => ~starting
          /\ call[c] # "none" => open_count = 0
          /\ call[c] \in {"failing", "closing"} => mutex = {c}
    /\ \A c, d \in Clients :
          call[c] \in {"opening", "failing"} /\ call[d] \in {"opening", "failing"}
             => c = d

(* The start-up steps happen before an epoch begins, a failed start-up has *)
(* published nothing, and the count is the number of handles.              *)
RuntimeInv ==
    /\ open_count \in Nat
    /\ worker \in {"initializing", "failed"} => ~epoch_active
    /\ worker = "failed" => published_input = Released
    /\ IsFiniteSet(Handles)
    /\ CallsInv
    /\ NothingHeldWithoutWorker
    /\ OneOwnedWorker
    /\ StopsOnlyWhenUnused

LEMMA NoHandles ==
    ASSUME \A c \in Clients : held_opens[c] = 0
    PROVE  Handles = {}
  BY RuntimeAssumption DEF Handles

LEMMA OneHandleMore ==
    ASSUME CallsInv, NEW c \in Clients, held_opens[c] < MaxOpens, IsFiniteSet(Handles),
           held_opens' = [held_opens EXCEPT ![c] = @ + 1]
    PROVE  /\ IsFiniteSet(Handles') /\ Cardinality(Handles') = Cardinality(Handles) + 1
           /\ held_opens' \in [Clients -> 0 .. MaxOpens]
  <1> DEFINE h == <<c, held_opens[c] + 1>>
  <1>1. /\ held_opens \in [Clients -> 0 .. MaxOpens] /\ MaxOpens \in Nat
        /\ held_opens[c] \in Nat
    BY RuntimeAssumption DEF CallsInv
  <1>2. held_opens' \in [Clients -> 0 .. MaxOpens]
    BY <1>1
  <1>3. ASSUME NEW d \in Clients, NEW k \in 1 .. MaxOpens
        PROVE  k <= held_opens'[d] <=> k <= held_opens[d] \/ <<d, k>> = h
    <2>1. CASE d = c
      BY <1>1, <2>1
    <2>2. CASE d # c
      BY <1>1, <2>2
    <2>3. QED  BY <2>1, <2>2
  <1>4. h \in Clients \X (1 .. MaxOpens) /\ h \notin Handles
    BY <1>1 DEF Handles
  <1> HIDE DEF h
  <1>5. Handles' = Handles \cup {h}
    <2>1. \A x \in Clients \X (1 .. MaxOpens) : x \in Handles' <=> x \in Handles \/ x = h
      <3>1. \A x \in Clients \X (1 .. MaxOpens) :
               x[1] \in Clients /\ x[2] \in 1 .. MaxOpens /\ x = <<x[1], x[2]>>
        OBVIOUS
      <3>2. QED  BY <1>3, <3>1 DEF Handles
    <2>2. Handles \subseteq Clients \X (1 .. MaxOpens)
          /\ Handles' \subseteq Clients \X (1 .. MaxOpens)
      BY DEF Handles
    <2>3. QED  BY <1>4, <2>1, <2>2
  <1>6. QED  BY <1>2, <1>4, <1>5, FS_AddElement

LEMMA OneHandleLess ==
    ASSUME CallsInv, NEW c \in Clients, held_opens[c] > 0, IsFiniteSet(Handles),
           held_opens' = [held_opens EXCEPT ![c] = @ - 1]
    PROVE  /\ IsFiniteSet(Handles') /\ Cardinality(Handles') = Cardinality(Handles) - 1
           /\ held_opens' \in [Clients -> 0 .. MaxOpens]
  <1> DEFINE h == <<c, held_opens[c]>>
  <1>1. /\ held_opens \in [Clients -> 0 .. MaxOpens] /\ MaxOpens \in Nat
        /\ held_opens[c] \in 1 .. MaxOpens
    BY RuntimeAssumption DEF CallsInv
  <1>2. held_opens' \in [Clients -> 0 .. MaxOpens]
    BY <1>1
  <1>3. ASSUME NEW d \in Clients, NEW k \in 1 .. MaxOpens
        PROVE  k <= held_opens'[d] <=> k <= held_opens[d] /\ <<d, k>> # h
    <2>1. CASE d = c
      BY <1>1, <2>1
    <2>2. CASE d # c
      BY <1>1, <2>2
    <2>3. QED  BY <2>1, <2>2
  <1>4. h \in Clients \X (1 .. MaxOpens) /\ h \in Handles
    BY <1>1 DEF Handles
  <1> HIDE DEF h
  <1>5. Handles' = Handles \ {h}
    <2>1. \A x \in Clients \X (1 .. MaxOpens) : x \in Handles' <=> x \in Handles /\ x # h
      <3>1. \A x \in Clients \X (1 .. MaxOpens) :
               x[1] \in Clients /\ x[2] \in 1 .. MaxOpens /\ x = <<x[1], x[2]>>
        OBVIOUS
      <3>2. QED  BY <1>3, <3>1 DEF Handles
    <2>2. Handles \subseteq Clients \X (1 .. MaxOpens)
          /\ Handles' \subseteq Clients \X (1 .. MaxOpens)
      BY DEF Handles
    <2>3. QED  BY <2>1, <2>2
  <1>6. QED  BY <1>2, <1>4, <1>5, FS_RemoveElement

(* A runtime nobody has used yet, or one that is gone with its process.    *)
Unused ==
    /\ open_count = 0 /\ starting = FALSE
    /\ stop_event = "closed" /\ joinable = FALSE
    /\ call = [c \in Clients |-> "none"] /\ held_opens = [c \in Clients |-> 0]
    /\ worker = "none" /\ published_input = Released /\ epoch_active = FALSE

LEMMA UnusedRuntime == Unused => RuntimeInv
  <1> SUFFICES ASSUME Unused PROVE RuntimeInv
    OBVIOUS
  <1>1. Handles = {}
    BY NoHandles DEF Unused
  <1>2. CallsInv
    BY RuntimeAssumption DEF CallsInv, Unused
  <1>3. StopsOnlyWhenUnused /\ IsFiniteSet(Handles)
    BY <1>1, FS_EmptySet DEF StopsOnlyWhenUnused, Unused
  <1>4. QED
    BY <1>2, <1>3 DEF Unused, RuntimeInv, NothingHeldWithoutWorker,
                      OneOwnedWorker, Alive

(* A step that leaves the handles and the calls as they are.               *)
LEMMA SameHandles ==
    ASSUME RuntimeInv, UNCHANGED <<held_opens, open_count>>,
           stop_event' = "set" => stop_event = "set"
    PROVE  IsFiniteSet(Handles') /\ StopsOnlyWhenUnused'
  <1>1. Handles' = Handles
    BY DEF Handles
  <1>2. QED  BY <1>1 DEF RuntimeInv, StopsOnlyWhenUnused

(* A step of a game thread. Only a thread that owns no worker starts one,  *)
(* and only an exited worker is given up.                                  *)
LEMMA ClientRuntimeInv ==
    ASSUME RuntimeInv, NEW c \in Clients, ClientStep(c)
    PROVE  RuntimeInv'
  <1> USE DEF NothingHeldWithoutWorker, OneOwnedWorker, Alive, Entered, Locked
  <1>0. /\ CallsInv /\ NothingHeldWithoutWorker /\ OneOwnedWorker
        /\ StopsOnlyWhenUnused /\ IsFiniteSet(Handles)
        /\ open_count \in Nat
        /\ worker \in {"initializing", "failed"} => ~epoch_active
        /\ worker = "failed" => published_input = Released
    BY DEF RuntimeInv
  <1>1. CASE OpenAgain(c)
    <2>1. /\ held_opens[c] < MaxOpens /\ ~starting /\ mutex = {} /\ open_count # 0
          /\ open_count' = open_count + 1
          /\ held_opens' = [held_opens EXCEPT ![c] = @ + 1]
          /\ UNCHANGED <<starting, stop_event, joinable, mutex, call, worker,
                         published_input, epoch_active>>
      BY <1>1 DEF OpenAgain, workerVars
    <2>2. /\ IsFiniteSet(Handles') /\ Cardinality(Handles') = Cardinality(Handles) + 1
          /\ held_opens' \in [Clients -> 0 .. MaxOpens]
      BY <1>0, <2>1, OneHandleMore
    <2>3. \A d \in Clients : call[d] = "none"
      BY <1>0, <2>1 DEF CallsInv
    <2>4. CallsInv'
      BY <1>0, <2>1, <2>2, <2>3 DEF CallsInv
    <2>5. StopsOnlyWhenUnused'
      BY <1>0, <2>1, <2>2 DEF StopsOnlyWhenUnused
    <2>6. NothingHeldWithoutWorker' /\ OneOwnedWorker'
      BY <1>0, <2>1
    <2>7. QED  BY <1>0, <2>1, <2>2, <2>4, <2>5, <2>6 DEF RuntimeInv
  <1>2. CASE OpenWithoutThread(c)
    <2>1. /\ ~starting /\ mutex = {} /\ open_count = 0
          /\ published_input' = Released /\ stop_event' = "closed"
          /\ UNCHANGED <<open_count, starting, joinable, mutex, call, held_opens,
                         worker, epoch_active>>
      BY <1>2 DEF OpenWithoutThread, callVars
    <2>2. IsFiniteSet(Handles') /\ StopsOnlyWhenUnused'
      BY <2>1, SameHandles
    <2>3. CallsInv'
      BY <1>0, <2>1 DEF CallsInv
    <2>4. QED  BY <1>0, <2>1, <2>2, <2>3 DEF RuntimeInv
  <1>3. CASE OpenFirst(c)
    <2>1. /\ ~starting /\ mutex = {} /\ open_count = 0 /\ call[c] = "none"
          /\ published_input' = Released /\ stop_event' = "clear"
          /\ starting' = TRUE /\ joinable' = TRUE /\ worker' = "initializing"
          /\ call' = [call EXCEPT ![c] = "opening"]
          /\ UNCHANGED <<open_count, mutex, held_opens, epoch_active>>
      BY <1>3 DEF OpenFirst
    <2>2. IsFiniteSet(Handles') /\ StopsOnlyWhenUnused'
      BY <2>1, SameHandles
    <2>3. \A d \in Clients : call[d] = "none"
      BY <1>0, <2>1 DEF CallsInv
    <2>4. CallsInv'
      BY <1>0, <2>1, <2>3 DEF CallsInv
    <2>5. QED  BY <1>0, <2>1, <2>2, <2>4 DEF RuntimeInv
  <1>4. CASE OpenSucceeds(c)
    <2>1. /\ mutex = {} /\ call[c] = "opening"
          /\ open_count' = 1 /\ starting' = FALSE
          /\ call' = [call EXCEPT ![c] = "none"]
          /\ held_opens' = [held_opens EXCEPT ![c] = @ + 1]
          /\ UNCHANGED <<stop_event, joinable, mutex, worker, published_input,
                         epoch_active>>
      BY <1>4 DEF OpenSucceeds, workerVars
    <2>2. open_count = 0 /\ stop_event = "clear"
          /\ \A d \in Clients : d # c => call[d] = "none"
      BY <1>0, <2>1 DEF CallsInv
    <2>3. Handles = {}
      BY <1>0, <2>2, FS_EmptySet DEF StopsOnlyWhenUnused
    <2>4. held_opens[c] < MaxOpens
      <3>1. /\ held_opens[c] \in 0 .. MaxOpens /\ MaxOpens \in Nat \ {0}
        BY <1>0, RuntimeAssumption DEF CallsInv
      <3>2. ~(1 <= held_opens[c])
        <4>1. <<c, 1>> \notin Handles /\ <<c, 1>> \in Clients \X (1 .. MaxOpens)
          BY <2>3, <3>1
        <4>2. QED  BY <4>1 DEF Handles
      <3>3. QED  BY <3>1, <3>2
    <2>5. /\ IsFiniteSet(Handles') /\ Cardinality(Handles') = Cardinality(Handles) + 1
          /\ held_opens' \in [Clients -> 0 .. MaxOpens]
      BY <1>0, <2>1, <2>4, OneHandleMore
    <2>6. Cardinality(Handles') = 1
      BY <2>3, <2>5, FS_EmptySet
    <2>7. CallsInv'
      BY <1>0, <2>1, <2>2, <2>5 DEF CallsInv
    <2>8. StopsOnlyWhenUnused'
      BY <2>1, <2>2, <2>6 DEF StopsOnlyWhenUnused
    <2>9. QED  BY <1>0, <2>1, <2>5, <2>7, <2>8 DEF RuntimeInv
  <1>5. CASE OpenFails(c)
    <2>1. /\ mutex = {} /\ call[c] = "opening"
          /\ mutex' = {c} /\ call' = [call EXCEPT ![c] = "failing"]
          /\ UNCHANGED <<open_count, starting, stop_event, joinable, held_opens,
                         worker, published_input, epoch_active>>
      BY <1>5 DEF OpenFails, stateVars, workerVars
    <2>2. IsFiniteSet(Handles') /\ StopsOnlyWhenUnused'
      BY <2>1, SameHandles
    <2>3. \A d \in Clients : d # c => call[d] = "none"
      BY <1>0, <2>1 DEF CallsInv
    <2>4. CallsInv'
      BY <1>0, <2>1, <2>3 DEF CallsInv
    <2>5. QED  BY <1>0, <2>1, <2>2, <2>4 DEF RuntimeInv
  <1>6. CASE CloseAgain(c)
    <2>1. /\ held_opens[c] > 0 /\ ~starting /\ mutex = {} /\ open_count > 1
          /\ open_count' = open_count - 1
          /\ held_opens' = [held_opens EXCEPT ![c] = @ - 1]
          /\ UNCHANGED <<starting, stop_event, joinable, mutex, call, worker,
                         published_input, epoch_active>>
      BY <1>6 DEF CloseAgain, workerVars
    <2>2. /\ IsFiniteSet(Handles') /\ Cardinality(Handles') = Cardinality(Handles) - 1
          /\ held_opens' \in [Clients -> 0 .. MaxOpens]
      BY <1>0, <2>1, OneHandleLess
    <2>3. open_count' \in Nat /\ open_count' # 0 /\ open_count # 0
      BY <1>0, <2>1
    <2>4. CallsInv'
      BY <1>0, <2>1, <2>2, <2>3 DEF CallsInv
    <2>5. StopsOnlyWhenUnused'
      BY <1>0, <2>1, <2>2, <2>3 DEF StopsOnlyWhenUnused
    <2>6. NothingHeldWithoutWorker' /\ OneOwnedWorker'
      BY <1>0, <2>1, <2>3
    <2>7. QED  BY <1>0, <2>1, <2>2, <2>3, <2>4, <2>5, <2>6 DEF RuntimeInv
  <1>7. CASE CloseLast(c)
    <2>1. /\ held_opens[c] > 0 /\ ~starting /\ mutex = {} /\ open_count = 1
          /\ open_count' = 0 /\ stop_event' = "set"
          /\ held_opens' = [held_opens EXCEPT ![c] = @ - 1]
          /\ mutex' = {c} /\ call' = [call EXCEPT ![c] = "closing"]
          /\ UNCHANGED <<starting, joinable, worker, published_input, epoch_active>>
      BY <1>7 DEF CloseLast, workerVars
    <2>2. /\ IsFiniteSet(Handles') /\ Cardinality(Handles') = Cardinality(Handles) - 1
          /\ held_opens' \in [Clients -> 0 .. MaxOpens]
      BY <1>0, <2>1, OneHandleLess
    <2>3. \A d \in Clients : call[d] = "none"
      BY <1>0, <2>1 DEF CallsInv
    <2>4. CallsInv'
      BY <1>0, <2>1, <2>2, <2>3 DEF CallsInv
    <2>5. StopsOnlyWhenUnused'
      <3>1. Cardinality(Handles) = 1
        BY <1>0, <2>1 DEF StopsOnlyWhenUnused
      <3>2. Cardinality(Handles') = 0
        BY <2>2, <3>1
      <3>3. QED  BY <2>1, <3>2 DEF StopsOnlyWhenUnused
    <2>6. QED  BY <1>0, <2>1, <2>2, <2>4, <2>5 DEF RuntimeInv
  <1>8. CASE Joined(c)
    <2>1. /\ call[c] \in {"failing", "closing"} /\ worker = "exited"
          /\ joinable' = FALSE /\ stop_event' = "closed"
          /\ published_input' = Released /\ starting' = FALSE /\ mutex' = {}
          /\ call' = [call EXCEPT ![c] = "none"]
          /\ UNCHANGED <<open_count, held_opens, worker, epoch_active>>
      BY <1>8 DEF Joined
    <2>2. IsFiniteSet(Handles') /\ StopsOnlyWhenUnused'
      BY <2>1, SameHandles
    <2>3. \A d \in Clients : d # c => call[d] = "none"
      BY <1>0, <2>1 DEF CallsInv
    <2>4. CallsInv'
      BY <1>0, <2>1, <2>3 DEF CallsInv
    <2>5. QED  BY <1>0, <2>1, <2>2, <2>4 DEF RuntimeInv
  <1>9. QED
    BY <1>1, <1>2, <1>3, <1>4, <1>5, <1>6, <1>7, <1>8 DEF ClientStep

(* A step of the worker thread changes no call.                            *)
LEMMA WorkerRuntimeInv ==
    ASSUME RuntimeInv, WorkerStep
    PROVE  RuntimeInv'
  <1> USE DEF NothingHeldWithoutWorker, OneOwnedWorker, Alive, Locked,
              stateVars, callVars
  <1>1. UNCHANGED <<open_count, starting, stop_event, joinable, mutex, call, held_opens>>
    BY DEF WorkerStep, InitializeFails, Initialize, SignalStartup, WakeToStop,
           DieUnexpectedly, Shutdown, PublishWord
  <1>2. IsFiniteSet(Handles') /\ StopsOnlyWhenUnused'
    BY <1>1, SameHandles
  <1>3. CallsInv' /\ open_count' \in Nat
    BY <1>1 DEF RuntimeInv, CallsInv
  <1>4. /\ NothingHeldWithoutWorker /\ OneOwnedWorker
        /\ worker \in {"initializing", "failed"} => ~epoch_active
        /\ worker = "failed" => published_input = Released
    BY DEF RuntimeInv
  <1>5. /\ worker' \in {"initializing", "failed"} => ~epoch_active'
        /\ worker' = "failed" => published_input' = Released
        /\ NothingHeldWithoutWorker' /\ OneOwnedWorker'
    <2>1. CASE InitializeFails \/ Initialize
      BY <1>1, <1>4, <2>1 DEF InitializeFails, Initialize
    <2>2. CASE SignalStartup
      BY <1>1, <1>4, <2>2 DEF SignalStartup
    <2>3. CASE WakeToStop \/ DieUnexpectedly \/ Shutdown
      BY <1>1, <1>4, <2>3 DEF WakeToStop, DieUnexpectedly, Shutdown
    <2>4. ASSUME NEW word \in Words, PublishWord(word)
          PROVE  /\ worker' \in {"initializing", "failed"} => ~epoch_active'
                 /\ worker' = "failed" => published_input' = Released
                 /\ NothingHeldWithoutWorker' /\ OneOwnedWorker'
      BY <1>1, <1>4, <2>4 DEF PublishWord
    <2>5. QED  BY <2>1, <2>2, <2>3, <2>4 DEF WorkerStep
  <1>6. QED  BY <1>2, <1>3, <1>5 DEF RuntimeInv

LEMMA SameRuntime ==
    ASSUME RuntimeInv,
           UNCHANGED <<open_count, starting, stop_event, joinable, callVars, workerVars>>
    PROVE  RuntimeInv'
  <1>1. UNCHANGED <<open_count, starting, stop_event, joinable, mutex, call,
                    held_opens, worker, published_input, epoch_active>>
    BY DEF callVars, workerVars
  <1>2. IsFiniteSet(Handles') /\ StopsOnlyWhenUnused'
    BY <1>1, SameHandles
  <1>3. QED
    BY <1>1, <1>2 DEF RuntimeInv, CallsInv, NothingHeldWithoutWorker,
                      OneOwnedWorker, Alive, Locked

-----------------------------------------------------------------------------
(* TimingSettings.                                                         *)
Offsets == [game_ms : Int, judge_ms : Int]

AtRest == form = "none" /\ status = "idle" /\ saving = "idle" /\ ~apply_failed

(* What a save has confirmed is in the file. Until an application faults,  *)
(* the game's offsets are those of the file, and of an open form before it *)
(* was edited.                                                             *)
SettingsInv ==
    /\ live \in Offsets /\ manager \in Offsets
    /\ original \in Offsets /\ staged \in Offsets
    /\ FileIsLastSaved
    /\ form = "open" => status # "succeeded"
    /\ saving # "idle" => form = "open"
    /\ saving = "replace" => temporary = staged
    /\ saving = "apply" => file = staged
    /\ phase # "running" => AtRest
    /\ ~apply_failed =>
          /\ live = manager
          /\ form = "open" => original = live
          /\ phase # "ended" /\ saving # "apply" => (file \in Pairs => file = live)
          /\ status = "succeeded" => live = staged

LEMMA PairsAreOffsets ==
    /\ \A pair \in Pairs : pair \in Offsets
    /\ NoOffsets \in Offsets
    /\ \A offsets \in Offsets : Clamped(offsets) \in Offsets
    /\ \A offsets \in Offsets, row \in Rows, delta \in {-1, 1} :
          [offsets EXCEPT ![row] = Clamp(@ + delta)] \in Offsets
  <1>1. \A value \in Int : Clamp(value) \in Int
    BY SettingsAssumption DEF Clamp
  <1>2. \A pair \in Pairs : pair \in Offsets
    BY SettingsAssumption DEF Pairs, Offsets, InRange
  <1>3. NoOffsets \in Offsets
    BY DEF NoOffsets, Offsets
  <1>4. ASSUME NEW offsets \in Offsets
        PROVE  Clamped(offsets) \in Offsets
    <2> DEFINE g == Clamp(offsets.game_ms)
               j == Clamp(offsets.judge_ms)
    <2>1. g \in Int /\ j \in Int
      BY <1>1, <1>4 DEF Offsets
    <2>2. Clamped(offsets) = [game_ms |-> g, judge_ms |-> j]
      BY DEF Clamped, Rows
    <2> HIDE DEF g, j
    <2>3. QED  BY <2>1, <2>2 DEF Offsets
  <1>5. ASSUME NEW offsets \in Offsets, NEW row \in Rows, NEW delta \in {-1, 1}
        PROVE  [offsets EXCEPT ![row] = Clamp(@ + delta)] \in Offsets
    <2>1. offsets[row] + delta \in Int
      BY <1>5 DEF Offsets, Rows
    <2> DEFINE value == Clamp(offsets[row] + delta)
    <2>2. value \in Int
      BY <1>1, <2>1
    <2> HIDE DEF value
    <2>3. [offsets EXCEPT ![row] = value] \in Offsets
      BY <1>5, <2>2 DEF Offsets, Rows
    <2>4. QED  BY <2>3 DEF value
  <1>6. QED  BY <1>2, <1>3, <1>4, <1>5

LEMMA SettingsKeptHolds ==
    ASSUME SettingsInv
    PROVE  SettingsKept
  <1>1. status = "succeeded" => phase = "running" /\ saving # "apply"
    BY DEF SettingsInv, AtRest
  <1>2. QED
    BY <1>1 DEF SettingsInv, SettingsKept, SuccessIsEverywhere

(* Both halves assigned, whatever they were, are the whole pair.           *)
LEMMA BothHalves ==
    ASSUME NEW pair \in Offsets, NEW offsets \in Offsets
    PROVE  [pair EXCEPT !.game_ms = offsets.game_ms, !.judge_ms = offsets.judge_ms]
              = offsets
  <1> DEFINE both == [pair EXCEPT !.game_ms = offsets.game_ms,
                                  !.judge_ms = offsets.judge_ms]
  <1>1. DOMAIN pair = Rows /\ DOMAIN both = DOMAIN pair /\ DOMAIN offsets = Rows
    BY DEF Offsets, Rows
  <1>2. both.game_ms = offsets.game_ms /\ both.judge_ms = offsets.judge_ms
    BY DEF Offsets
  <1>3. both \in Offsets
    BY DEF Offsets
  <1>4. offsets = [game_ms |-> offsets.game_ms, judge_ms |-> offsets.judge_ms]
    BY DEF Offsets
  <1> HIDE DEF both
  <1>5. both = [game_ms |-> both.game_ms, judge_ms |-> both.judge_ms]
    BY <1>3 DEF Offsets
  <1>6. both = offsets
    BY ONLY <1>2, <1>4, <1>5
  <1>7. QED  BY <1>6 DEF both

(* Nothing but the settings of a running process moves.                    *)
LEMMA SettingsStepInv ==
    ASSUME SettingsInv, phase = "running", UNCHANGED phase, SettingsStep
    PROVE  SettingsInv'
  <1> USE DEF SettingsInv, AtRest, FileIsLastSaved, diskVars, gameVars, modelVars,
              saveVars
  <1>1. CASE BuildMenu
    BY <1>1 DEF BuildMenu
  <1>2. CASE ActivateForm
    BY <1>2, PairsAreOffsets DEF ActivateForm
  <1>3. CASE CancelEdit
    BY <1>3, PairsAreOffsets DEF CancelEdit, Editing
  <1>4. ASSUME NEW row \in Rows, NEW delta \in {-1, 1}, Adjust(row, delta)
        PROVE  SettingsInv'
    <2>1. staged' \in Offsets /\ form = "open" /\ saving = "idle"
      BY <1>4, PairsAreOffsets DEF Adjust, Editing
    <2>2. /\ status' \in {"idle", status}
          /\ UNCHANGED <<file, taken, temporary, saved, live, manager, apply_failed,
                         form, original, store_error, saving, attempt>>
      BY <1>4 DEF Adjust
    <2>3. QED  BY <2>1, <2>2
  <1>5. CASE CommitUnchanged
    BY <1>5 DEF CommitUnchanged, Editing
  <1>6. CASE CommitChanged
    BY <1>6 DEF CommitChanged, Editing
  <1>7. ASSUME NEW stage, Refuse(stage), file' \in {file, Lost}, saved' = saved,
               saving # "idle", saving # "apply"
        PROVE  SettingsInv'
    BY <1>7, LostIsNoPair DEF Refuse
  <1>8. ASSUME Accept, file' = staged, saving # "idle"
        PROVE  SettingsInv'
    BY <1>8 DEF Accept
  <1>9. CASE ReadTarget
    <2>1. CASE ReadAllBytesFails
      BY <1>7, <1>9, <2>1 DEF ReadTarget, ReadAllBytesFails
    <2>2. CASE Refuse("assignment") /\ UNCHANGED diskVars
      BY <1>7, <1>9, <2>2 DEF ReadTarget
    <2>3. CASE /\ RewriteTimingAssignments(file, staged) = "unchanged"
               /\ Accept /\ UNCHANGED file
      <3>1. file = staged
        BY <2>3 DEF RewriteTimingAssignments
      <3>2. QED  BY <1>8, <1>9, <2>3, <3>1 DEF ReadTarget
    <2>4. CASE /\ saving' = "create"
               /\ UNCHANGED <<diskVars, gameVars, form, modelVars, store_error>>
      BY <1>9, <2>4 DEF ReadTarget
    <2>5. QED  BY <1>9, <2>1, <2>2, <2>3, <2>4 DEF ReadTarget
  <1>10. CASE CreateTemporary
    <2>1. CASE \E stage : Refuse(stage) /\ UNCHANGED diskVars
      BY <1>7, <1>10, <2>1 DEF CreateTemporary
    <2>2. CASE /\ saving' \in {"create", "write"}
               /\ UNCHANGED <<file, saved, gameVars, form, modelVars>>
      BY <1>10, <2>2 DEF CreateTemporary
    <2>3. QED  BY <1>10, <2>1, <2>2 DEF CreateTemporary
  <1>11. CASE WriteTemporary
    BY <1>11 DEF WriteTemporary, WrittenWhole
  <1>12. CASE DiscardTemporary
    BY <1>7, <1>12 DEF DiscardTemporary
  <1>13. CASE ReplaceFile
    <2>1. CASE file' = temporary /\ Accept
      BY <1>8, <1>13, <2>1 DEF ReplaceFile
    <2>2. CASE /\ file' \in {file, Lost} /\ saving' = "discard"
               /\ UNCHANGED <<taken, temporary, saved, gameVars, form, modelVars, attempt>>
      BY <1>13, <2>2, LostIsNoPair DEF ReplaceFile
    <2>3. QED  BY <1>13, <2>1, <2>2 DEF ReplaceFile
  <1>14. CASE ApplySave
    <2>1. PICK assigned \in 0 .. 4 :
             /\ Apply(assigned)
             /\ IF assigned = 4
                THEN status' = "succeeded" /\ form' = "ready" /\ UNCHANGED apply_failed
                ELSE status' = "failed" /\ apply_failed' = TRUE /\ UNCHANGED form
      BY <1>14 DEF ApplySave
    <2>2. /\ saving = "apply" /\ saving' = "idle"
          /\ UNCHANGED <<file, taken, temporary, saved, original, staged>>
      BY <1>14 DEF ApplySave
    <2>3. live' \in Offsets /\ manager' \in Offsets
      BY <2>1 DEF Apply, Offsets
    <2>4. CASE assigned = 4
      <3>1. live' = staged /\ manager' = staged
        <4>1. /\ live' = [live EXCEPT !.game_ms = staged.game_ms,
                                       !.judge_ms = staged.judge_ms]
              /\ manager' = [manager EXCEPT !.game_ms = staged.game_ms,
                                             !.judge_ms = staged.judge_ms]
          BY <2>1, <2>4 DEF Apply
        <4>2. QED  BY <4>1, BothHalves
      <3>2. QED  BY <2>1, <2>2, <2>3, <2>4, <3>1
    <2>5. CASE assigned # 4
      BY <2>1, <2>2, <2>3, <2>5
    <2>6. QED  BY <2>4, <2>5
  <1>15. QED
    BY <1>1, <1>2, <1>3, <1>4, <1>5, <1>6, <1>9, <1>10, <1>11, <1>12, <1>13,
       <1>14 DEF SettingsStep


-----------------------------------------------------------------------------
(* VersionedStartup.                                                       *)
Dispositions == {"install", "already_installed", "verify_only"}
Planned(i)   == approved[i].site
Export(i)    == Exports[role][i]

(* The sites that the installing loops have passed.                        *)
PassedSites ==
    {i \in DOMAIN approved : \/ phase \in {"export_hooks", "running"}
                             \/ phase = "sites" /\ i < position}
PassedExports ==
    IF phase \in {"export_hooks", "running"}
    THEN {i \in DOMAIN Exports[role] : phase = "running" \/ i < position}
    ELSE {}

ShapeInv ==
    /\ approved \in Seq([site : PlanSites, disposition : Dispositions])
    /\ records \in Seq([hook : AllSites, enabled : BOOLEAN])
    /\ position \in Nat \ {0}
    /\ phase \in {"validate", "exports", "input", "runtime", "originals", "sites",
                  "export_hooks", "running", "ended"}
    /\ phase # "ended" =>
          role \in DOMAIN Plans /\ plan \in Plans[role] /\ failure = "none"
    /\ approved # <<>> => plan \in Seq(DOMAIN Operations)
    /\ DOMAIN image = DOMAIN initial_image
    /\ phase # "ended" \/ approved # <<>> => DOMAIN image = Cells
    /\ phase = "validate" /\ Exact(variant) =>
          \A site \in AllSites : \A cell \in site.cells \cup site.signature :
              initial_image[cell] = IF variant \in site.installed_in
                                    THEN site.installed ELSE "original"

(* What was approved belongs to a chosen feature, does not overlap, fits   *)
(* the image as it was loaded, and is installed once.                      *)
ApprovedInv ==
    /\ \A i \in DOMAIN approved :
          /\ \E j \in DOMAIN plan : Planned(i).feature = plan[j]
          /\ \A j \in DOMAIN approved : i # j => ~Overlaps(Planned(i), Planned(j))
          /\ Diverting(Planned(i)) =>
                Holds(initial_image, Planned(i).signature, "original")
          /\ approved[i].disposition = "install" =>
                /\ ~ReadOnly(Planned(i))
                /\ IsSlot(Planned(i)) =>
                      \A j \in 1 .. i - 1 :
                          ~(IsSlot(Planned(j)) /\ Planned(j).cells = Planned(i).cells)
          /\ approved[i].disposition = "already_installed" =>
                /\ IsPatch(Planned(i))
                /\ Holds(initial_image, Planned(i).cells, Planned(i).installed)
          /\ approved[i].disposition = "verify_only" =>
                \/ ReadOnly(Planned(i))
                \/ \E j \in 1 .. i - 1 : SameSlot(Planned(j), Planned(i))
    /\ \/ Exact(variant)
       \/ \A i \in DOMAIN approved : ContractHolds(initial_image, Planned(i))

(* A cell that has changed belongs to an installed site, whose original is *)
(* out already, or to an exported function.                                *)
Changed(cell) ==
    \/ \E export \in ExportSites : cell \in export.cells
    \/ \E i \in DOMAIN approved :
          /\ approved[i].disposition = "install"
          /\ cell \in Planned(i).cells
          /\ Planned(i).kind \in {"inline_hook", "global_vtable_slot"} =>
                Planned(i).site \in published

TouchInv ==
    /\ \A cell \in DOMAIN image : image[cell] # initial_image[cell] => Changed(cell)
    /\ phase \in {"validate", "exports", "input", "runtime", "originals"} =>
          image = initial_image /\ records = <<>> /\ slots = {}
    /\ phase = "validate" => approved = <<>>
    /\ phase = "runtime" =>
          \A i \in DOMAIN plan :
              i < position /\ plan[i] \in RuntimeFeatures => plan[i] \in prepared
    /\ phase \in {"originals", "sites", "export_hooks", "running"}
          \/ image # initial_image =>
          \A i \in DOMAIN plan : plan[i] \in RuntimeFeatures => plan[i] \in prepared
    /\ phase = "originals" =>
          \A i \in DOMAIN approved :
              i < position /\ IsSlot(Planned(i)) => Planned(i).site \in published
    /\ phase \in {"sites", "export_hooks", "running"} \/ image # initial_image =>
          \A i \in DOMAIN approved :
              IsSlot(Planned(i)) => Planned(i).site \in published

(* The records are those of passed hooks, which are enabled, or that of    *)
(* the hook that is being installed.                                       *)
RecordInv(record) ==
    \/ \E i \in PassedSites :
          record.hook = Planned(i) /\ IsHook(record.hook) /\ record.enabled
    \/ \E i \in PassedExports : record.hook = Export(i) /\ record.enabled
    \/ /\ phase = "sites" /\ position <= Len(approved)
       /\ approved[position].disposition = "install"
       /\ record.hook = Planned(position) /\ ~record.enabled
       /\ IsHook(record.hook)
       /\ record.hook.kind = "inline_hook" => record.hook.site \in published
    \/ /\ phase = "export_hooks" /\ position <= Len(Exports[role])
       /\ record.hook = Export(position) /\ ~record.enabled

ProgressInv ==
    /\ \A i \in PassedSites :
          ~ReadOnly(Planned(i)) =>
             /\ Live(Planned(i))
             /\ Planned(i).kind = "inline_hook" => Planned(i).site \in published
    /\ \A i \in PassedExports : Live(Export(i))
    /\ phase \in {"sites", "export_hooks", "running"} =>
          /\ \A i \in DOMAIN records : RecordInv(records[i])
          /\ \A cells \in slots :
                \E i \in PassedSites : IsSlot(Planned(i)) /\ Planned(i).cells = cells
    /\ phase \in {"input", "runtime", "originals", "sites", "export_hooks", "running"}
          => ~Collides(Exports[role])

RefusedInv ==
    /\ failure \notin {"already_exists", "original_missing"}
    /\ failure = "collision" => image = initial_image

StartupInv ==
    ShapeInv /\ ApprovedInv /\ TouchInv /\ ProgressInv /\ RefusedInv

-----------------------------------------------------------------------------
(* A nonempty set of naturals has a least element: what the proofs by      *)
(* induction on a sequence use.                                            *)
LEMMA LeastExists ==
    ASSUME NEW S, \A i \in S : i \in Nat, S # {}
    PROVE  \E x \in S : \A y \in S : x <= y
  <1> DEFINE R == {pair \in Nat \X Nat : pair[1] < pair[2]}
  <1>1. \A x, y \in Nat : <<x, y>> \in R <=> x < y
    OBVIOUS
  <1>2. IsWellFoundedOn(R, Nat)
    <2>1. OpToRel(<, Nat) = R
      BY Zenon DEF OpToRel
    <2>2. QED  BY <2>1, NatLessThanWellFounded
  <1> HIDE DEF R
  <1>3. \E x \in S : \A y \in S : ~ (<<y, x>> \in R)
    <2>1. S \subseteq Nat
      OBVIOUS
    <2>2. QED  BY <1>2, <2>1, WFMin
  <1>4. PICK x \in S : \A y \in S : ~ (<<y, x>> \in R)
    BY <1>3
  <1>5. \A y \in S : ~(y < x) /\ x \in Nat /\ y \in Nat
    BY <1>1, <1>4
  <1>6. QED  BY <1>5

(* The recursion of InstallOrder has a solution, and what it collects are  *)
(* sites of the features.                                                  *)
LEMMA OrderSites ==
    ASSUME NEW features \in Seq(DOMAIN Operations)
    PROVE  /\ InstallOrder(features) \in Seq(PlanSites)
           /\ \A i \in DOMAIN InstallOrder(features) : \E j \in DOMAIN features :
                 InstallOrder(features)[i].feature = features[j]
  <1> DEFINE sites(i) == Operations[features[i]]
             Solves(g, n) ==
                g = [i \in 0 .. n |-> IF i = 0 THEN <<>> ELSE g[i - 1] \o sites(i)]
             upTo == CHOOSE g : Solves(g, Len(features))
             Collected(s) ==
                /\ s \in Seq(PlanSites)
                /\ \A i \in DOMAIN s : \E j \in DOMAIN features :
                      s[i].feature = features[j]
  <1>1. /\ Len(features) \in Nat /\ DOMAIN features = 1 .. Len(features)
        /\ \A i \in 1 .. Len(features) : Collected(sites(i))
    <2>1. /\ Len(features) \in Nat /\ DOMAIN features = 1 .. Len(features)
          /\ \A i \in 1 .. Len(features) : features[i] \in DOMAIN Operations
      OBVIOUS
    <2>2. QED  BY <2>1, PlanAssumption
  <1>2. InstallOrder(features) = upTo[Len(features)]
    BY Zenon DEF InstallOrder
  <1> HIDE DEF sites
  <1>3. \A n \in 0 .. Len(features) : \E g : Solves(g, n)
    <2> DEFINE bad == {n \in 0 .. Len(features) : ~\E g : Solves(g, n)}
    <2>1. SUFFICES ASSUME bad # {} PROVE FALSE
      OBVIOUS
    <2>2. \A i \in bad : i \in Nat
      BY <1>1
    <2> HIDE DEF bad
    <2>3. PICK n \in bad : \A m \in bad : n <= m
      BY <2>1, <2>2, LeastExists
    <2> USE DEF bad
    <2>4. n \in 0 .. Len(features) /\ ~\E g : Solves(g, n)
      OBVIOUS
    <2>5. CASE n = 0
      <3> DEFINE g == [i \in 0 .. 0 |-> <<>>]
      <3>1. g = [i \in 0 .. 0 |-> IF i = 0 THEN <<>> ELSE g[i - 1] \o sites(i)]
        OBVIOUS
      <3>2. QED  BY <2>4, <2>5, <3>1
    <2>6. CASE n # 0
      <3>1. n - 1 \in 0 .. Len(features) /\ n - 1 \notin bad /\ n \in Nat
        <4> HIDE DEF bad
        <4>1. n - 1 \in 0 .. Len(features) /\ n \in Nat /\ ~(n <= n - 1)
          BY <1>1, <2>4, <2>6
        <4>2. QED  BY <2>3, <4>1
      <3>2. PICK h : Solves(h, n - 1)
        BY <3>1
      <3> DEFINE g == [i \in 0 .. n |-> IF i = n THEN h[n - 1] \o sites(n) ELSE h[i]]
      <3>3. \A i \in 0 .. n :
               g[i] = IF i = 0 THEN <<>> ELSE g[i - 1] \o sites(i)
        <4>1. \A i \in 0 .. n - 1 :
                 h[i] = IF i = 0 THEN <<>> ELSE h[i - 1] \o sites(i)
          BY <3>2
        <4>2. ASSUME NEW i \in 0 .. n
              PROVE  g[i] = IF i = 0 THEN <<>> ELSE g[i - 1] \o sites(i)
          <5>1. CASE i = n
            <6>1. g[n] = h[n - 1] \o sites(n)
              BY <3>1
            <6>2. n - 1 \in 0 .. n /\ n - 1 # n
              BY <3>1, <2>6
            <6>3. g[n - 1] = h[n - 1]
              BY <6>2
            <6> HIDE DEF g
            <6>4. QED  BY <2>6, <5>1, <6>1, <6>3
          <5>2. CASE i # n
            <6>1. g[i] = h[i] /\ i \in 0 .. n - 1
              BY <3>1, <5>2
            <6>2. i # 0 => g[i - 1] = h[i - 1]
              BY <3>1, <5>2
            <6> HIDE DEF g
            <6>3. QED  BY <4>1, <6>1, <6>2
          <5>3. QED  BY <5>1, <5>2
        <4>3. QED  BY <4>2
      <3>4. g = [i \in 0 .. n |-> g[i]]
        OBVIOUS
      <3> HIDE DEF g
      <3>5. Solves(g, n)
        BY <3>3, <3>4
      <3>6. QED  BY <2>4, <3>5
    <2>7. QED  BY <2>5, <2>6
  <1>4. Solves(upTo, Len(features))
    <2>1. \E g : Solves(g, Len(features))
      <3>1. Len(features) \in 0 .. Len(features)
        BY <1>1
      <3> HIDE DEF Solves
      <3>2. QED  BY <1>3, <3>1
    <2>2. QED  BY <2>1, Zenon
  <1>5. \A i \in 0 .. Len(features) :
           upTo[i] = IF i = 0 THEN <<>> ELSE upTo[i - 1] \o sites(i)
    BY <1>4
  <1> HIDE DEF upTo
  <1>6. \A n \in 0 .. Len(features) : Collected(upTo[n])
    <2> DEFINE bad == {n \in 0 .. Len(features) : ~Collected(upTo[n])}
    <2>1. SUFFICES ASSUME bad # {} PROVE FALSE
      OBVIOUS
    <2>2. \A i \in bad : i \in Nat
      BY <1>1
    <2> HIDE DEF bad
    <2>3. PICK n \in bad : \A m \in bad : n <= m
      BY <2>1, <2>2, LeastExists
    <2>4. n \in 0 .. Len(features) /\ ~Collected(upTo[n])
      BY DEF bad
    <2>5. CASE n = 0
      <3>1. upTo[n] = <<>>
        BY <1>5, <2>4, <2>5
      <3>2. Collected(<<>>)
        OBVIOUS
      <3>3. QED  BY <2>4, <3>1, <3>2
    <2>6. CASE n # 0
      <3>1. n - 1 \in 0 .. Len(features) /\ n - 1 \notin bad /\ n \in 1 .. Len(features)
        BY <1>1, <2>3, <2>4, <2>6
      <3>2. Collected(upTo[n - 1])
        BY <3>1 DEF bad
      <3>3. Collected(sites(n))
        BY <1>1, <3>1
      <3>4. upTo[n] = upTo[n - 1] \o sites(n)
        BY <1>5, <2>4, <2>6
      <3> DEFINE p == upTo[n - 1]
                 q == sites(n)
      <3> HIDE DEF p, q
      <3>5. Collected(p) /\ Collected(q)
        BY <3>2, <3>3 DEF p, q
      <3>6. /\ p \o q \in Seq(PlanSites)
            /\ Len(p) \in Nat /\ Len(q) \in Nat
            /\ DOMAIN p = 1 .. Len(p) /\ DOMAIN q = 1 .. Len(q)
            /\ DOMAIN (p \o q) = 1 .. Len(p) + Len(q)
        BY <3>5
      <3>7. ASSUME NEW i \in 1 .. Len(p) + Len(q)
            PROVE  \E j \in DOMAIN features : (p \o q)[i].feature = features[j]
        <4>1. CASE i <= Len(p)
          <5>1. (p \o q)[i] = p[i] /\ i \in DOMAIN p
            BY <3>5, <3>6, <4>1
          <5>2. QED  BY <3>5, <5>1
        <4>2. CASE ~(i <= Len(p))
          <5>1. (p \o q)[i] = q[i - Len(p)] /\ i - Len(p) \in DOMAIN q
            BY <3>5, <3>6, <4>2
          <5>2. QED  BY <3>5, <5>1
        <4>3. QED  BY <4>1, <4>2
      <3>8. Collected(p \o q)
        BY <3>6, <3>7
      <3>9. QED  BY <2>4, <3>4, <3>8 DEF p, q
    <2>7. QED  BY <2>5, <2>6
  <1>7. QED  BY <1>1, <1>2, <1>6

LEMMA SiteShape ==
    ASSUME NEW site \in AllSites
    PROVE  /\ site.cells \subseteq Cells /\ site.cells # {}
           /\ ReadOnly(site) \/ Diverting(site) \/ IsPatch(site)
           /\ IsPatch(site) \/ IsSlot(site) => site.signature = site.cells
           /\ ~IsPatch(site) => site.installed_in = {}
           /\ \A v \in site.installed_in : Exact(v)
           /\ Diverting(site) => /\ site.cells \cap site.signature # {}
                                 /\ site.installed # "original"
  BY StartupAssumption

LEMMA OverlapsSymmetric ==
    ASSUME NEW left, NEW right, Overlaps(left, right)
    PROVE  Overlaps(right, left)
  BY DEF Overlaps, SameSlot

(* Two sites of one plan that share a cell are one slot.                   *)
LEMMA SharedCell ==
    ASSUME ApprovedInv, NEW i \in DOMAIN approved, NEW j \in DOMAIN approved, i # j,
           ~ReadOnly(Planned(i)), ~ReadOnly(Planned(j)),
           NEW cell, cell \in Planned(i).cells, cell \in Planned(j).cells
    PROVE  SameSlot(Planned(i), Planned(j))
  <1>1. ~Overlaps(Planned(i), Planned(j))
    BY DEF ApprovedInv
  <1>2. QED  BY <1>1 DEF Overlaps

(* What Disposition decides while the image is as it was loaded.           *)
LEMMA DispositionFacts ==
    ASSUME NEW sites \in Seq(PlanSites), NEW i \in DOMAIN sites, ~HasOverlap(sites),
           image = initial_image,
           \/ ~Exact(variant) /\ ContractHolds(image, sites[i])
           \/ /\ Exact(variant)
              /\ \A cell \in sites[i].cells \cup sites[i].signature :
                    image[cell] = IF variant \in sites[i].installed_in
                                  THEN sites[i].installed ELSE "original"
    PROVE  /\ Disposition(sites, i) \in Dispositions
           /\ Diverting(sites[i]) => Holds(image, sites[i].signature, "original")
           /\ Disposition(sites, i) = "install" =>
                /\ ~ReadOnly(sites[i])
                /\ IsSlot(sites[i]) =>
                      \A j \in 1 .. i - 1 :
                          ~(IsSlot(sites[j]) /\ sites[j].cells = sites[i].cells)
           /\ Disposition(sites, i) = "already_installed" =>
                /\ IsPatch(sites[i])
                /\ Holds(image, sites[i].cells, sites[i].installed)
           /\ Disposition(sites, i) = "verify_only" =>
                \/ ReadOnly(sites[i])
                \/ \E j \in 1 .. i - 1 : SameSlot(sites[j], sites[i])
  <1> DEFINE site == sites[i]
  <1>1. site \in AllSites /\ i \in 1 .. Len(sites) /\ Len(sites) \in Nat
    BY DEF AllSites
  <1>2. /\ site.cells # {}
        /\ ReadOnly(site) \/ Diverting(site) \/ IsPatch(site)
        /\ IsPatch(site) \/ IsSlot(site) => site.signature = site.cells
        /\ ~IsPatch(site) => site.installed_in = {}
        /\ \A v \in site.installed_in : Exact(v)
    BY <1>1, SiteShape
  <1>3. Diverting(site) => ~IsPatch(site) /\ ~ReadOnly(site)
    BY DEF Diverting, IsHook, IsSlot, IsPatch, ReadOnly
  <1>4. Diverting(site) => Holds(image, site.signature, "original")
    BY <1>2, <1>3 DEF ContractHolds, Holds
  <1>5. variant \in site.installed_in =>
           IsPatch(site) /\ Holds(image, site.cells, site.installed)
    BY <1>2 DEF Holds
  <1>6. ~Exact(variant) /\ IsPatch(site) /\ ~Holds(image, site.signature, "original") =>
           Holds(image, site.cells, site.installed)
    BY <1>2 DEF ContractHolds
  <1>7. IsSlot(site) /\ ~FirstOfSlot(sites, i) =>
           \E j \in 1 .. i - 1 : SameSlot(sites[j], site)
    <2> SUFFICES ASSUME IsSlot(site), ~FirstOfSlot(sites, i)
                 PROVE  \E j \in 1 .. i - 1 : SameSlot(sites[j], site)
      OBVIOUS
    <2>1. PICK j \in 1 .. i - 1 : IsSlot(sites[j]) /\ sites[j].cells = site.cells
      BY DEF FirstOfSlot
    <2>2. j \in DOMAIN sites /\ j < i
      BY <1>1
    <2>3. ~Overlaps(sites[j], site)
      BY <2>2 DEF HasOverlap
    <2>4. ~ReadOnly(sites[j]) /\ ~ReadOnly(site)
      BY <2>1 DEF IsSlot, ReadOnly
    <2>5. SameSlot(sites[j], site)
      BY <1>2, <2>1, <2>3, <2>4 DEF Overlaps
    <2>6. QED  BY <2>5
  <1>8. FirstOfSlot(sites, i) =>
           \A j \in 1 .. i - 1 : ~(IsSlot(sites[j]) /\ sites[j].cells = site.cells)
    BY DEF FirstOfSlot
  <1>9. \/ Disposition(sites, i) = "verify_only" /\ ReadOnly(site)
        \/ Disposition(sites, i) = "verify_only" /\ IsSlot(site) /\ ~FirstOfSlot(sites, i)
        \/ Disposition(sites, i) = "already_installed" /\ variant \in site.installed_in
        \/ /\ Disposition(sites, i) = "already_installed"
           /\ ~Exact(variant) /\ IsPatch(site) /\ ~Holds(image, site.signature, "original")
        \/ /\ Disposition(sites, i) = "install"
           /\ ~ReadOnly(site) /\ (IsSlot(site) => FirstOfSlot(sites, i))
    BY DEF Disposition
  <1> HIDE DEF site
  <1>10. /\ Disposition(sites, i) \in Dispositions
         /\ Diverting(site) => Holds(image, site.signature, "original")
         /\ Disposition(sites, i) = "install" =>
              /\ ~ReadOnly(site)
              /\ IsSlot(site) =>
                    \A j \in 1 .. i - 1 : ~(IsSlot(sites[j]) /\ sites[j].cells = site.cells)
         /\ Disposition(sites, i) = "already_installed" =>
              IsPatch(site) /\ Holds(image, site.cells, site.installed)
         /\ Disposition(sites, i) = "verify_only" =>
              \/ ReadOnly(site)
              \/ \E j \in 1 .. i - 1 : SameSlot(sites[j], site)
    BY <1>4, <1>5, <1>6, <1>7, <1>8, <1>9 DEF Dispositions
  <1>11. QED  BY <1>10 DEF site

(* A failure that leaves changes only where they may be.                   *)
LEMMA GivenUp ==
    ASSUME StartupInv, NEW reason, GiveUp(reason),
           reason \notin {"already_exists", "original_missing"},
           DOMAIN image' = DOMAIN image,
           \A cell \in DOMAIN image : image'[cell] # image[cell] => Changed(cell),
           image' # image => phase = "sites" \/ phase = "export_hooks",
           reason = "collision" => image' = initial_image
    PROVE  StartupInv'
  <1> USE DEF StartupInv, GiveUp, chosenVars
  <1>1. ShapeInv'
    BY DEF ShapeInv
  <1>2. ApprovedInv'
    BY DEF ApprovedInv, Planned
  <1>3. TouchInv'
    <2>1. \A cell \in DOMAIN image' : image'[cell] # initial_image'[cell] => Changed(cell)'
      BY DEF TouchInv, Changed, Planned
    <2>2. phase' = "ended"
      OBVIOUS
    <2>3. image' # initial_image' =>
             phase \in {"originals", "sites", "export_hooks", "running"}
                \/ image # initial_image
      OBVIOUS
    <2>4. image' # initial_image' =>
             phase \in {"sites", "export_hooks", "running"} \/ image # initial_image
      OBVIOUS
    <2>5. image' # initial_image' =>
             /\ \A i \in DOMAIN plan : plan[i] \in RuntimeFeatures => plan[i] \in prepared
             /\ \A i \in DOMAIN approved :
                   IsSlot(Planned(i)) => Planned(i).site \in published
      BY <2>3, <2>4 DEF TouchInv
    <2>6. QED  BY <2>1, <2>2, <2>5 DEF TouchInv, Planned
  <1>4. ProgressInv'
    <2>1. PassedSites' = {} /\ PassedExports' = {}
      BY DEF PassedSites, PassedExports
    <2>2. QED  BY <2>1 DEF ProgressInv
  <1>5. RefusedInv'
    BY DEF RefusedInv
  <1>6. QED  BY <1>1, <1>2, <1>3, <1>4, <1>5

LEMMA GivenUpUntouched ==
    ASSUME StartupInv, NEW reason, GiveUp(reason), UNCHANGED image,
           reason \notin {"already_exists", "original_missing"},
           reason = "collision" => image = initial_image
    PROVE  StartupInv'
  BY GivenUp

(* No process, and one that has just been attached.                        *)
LEMMA NoProcess ==
    /\ image = <<>> /\ initial_image = <<>> /\ phase = "ended" /\ position = 1
    /\ approved = <<>> /\ slots = {} /\ records = <<>> /\ failure = "none"
    => StartupInv
  <1> SUFFICES ASSUME image = <<>>, initial_image = <<>>, phase = "ended", position = 1,
                      approved = <<>>, slots = {}, records = <<>>, failure = "none"
               PROVE  StartupInv
    OBVIOUS
  <1>1. DOMAIN approved = {} /\ Len(approved) = 0
    OBVIOUS
  <1>2. ShapeInv
    BY DEF ShapeInv
  <1>3. ApprovedInv
    BY <1>1 DEF ApprovedInv
  <1>4. TouchInv
    BY <1>1 DEF TouchInv
  <1>5. ProgressInv
    BY <1>1 DEF ProgressInv, PassedSites, PassedExports
  <1>6. QED  BY <1>2, <1>3, <1>4, <1>5 DEF StartupInv, RefusedInv

LEMMA AttachInv ==
    ASSUME Attach
    PROVE  StartupInv'
  <1>1. PICK r \in DOMAIN Plans, loaded \in Images :
           /\ role' = r /\ plan' \in Plans[r]
           /\ variant' = loaded.variant
           /\ initial_image' = loaded.contents /\ image' = loaded.contents
    BY DEF Attach
  <1>2. /\ phase' = "validate" /\ position' = 1 /\ approved' = <<>> /\ slots' = {}
        /\ records' = <<>> /\ failure' = "none" /\ DOMAIN approved' = {}
    BY DEF Attach
  <1>3. /\ DOMAIN loaded.contents = Cells
        /\ Exact(loaded.variant) =>
              \A site \in AllSites : \A cell \in site.cells \cup site.signature :
                  loaded.contents[cell] = IF loaded.variant \in site.installed_in
                                          THEN site.installed ELSE "original"
    BY StartupAssumption
  <1>4. ShapeInv'
    <2>1. plan' \in Seq(DOMAIN Operations)
      BY <1>1, PlanAssumption
    <2>2. QED  BY <1>1, <1>2, <1>3, <2>1 DEF ShapeInv
  <1>5. ApprovedInv'
    BY <1>2 DEF ApprovedInv
  <1>6. TouchInv'
    BY <1>1, <1>2 DEF TouchInv
  <1>7. ProgressInv'
    BY <1>2 DEF ProgressInv, PassedSites, PassedExports
  <1>8. QED  BY <1>2, <1>4, <1>5, <1>6, <1>7 DEF StartupInv, RefusedInv

(* Before anything is installed.                                           *)
LEMMA ValidateInv ==
    ASSUME StartupInv, Validate
    PROVE  StartupInv'
  <1> DEFINE sites == InstallOrder(plan)
  <1>1. phase = "validate"
    BY DEF Validate
  <1>2. /\ image = initial_image /\ records = <<>> /\ slots = {}
        /\ DOMAIN image = Cells
        /\ role \in DOMAIN Plans /\ plan \in Plans[role]
        /\ Exact(variant) =>
              \A site \in AllSites : \A cell \in site.cells \cup site.signature :
                  image[cell] = IF variant \in site.installed_in
                                THEN site.installed ELSE "original"
    BY <1>1 DEF StartupInv, ShapeInv, TouchInv
  <1>3. /\ plan \in Seq(DOMAIN Operations)
        /\ sites \in Seq(PlanSites)
        /\ \A i \in DOMAIN sites : \E j \in DOMAIN plan : sites[i].feature = plan[j]
    BY <1>2, PlanAssumption, OrderSites
  <1>4. \/ /\ UNCHANGED image
           /\ GiveUp("address_range") \/ GiveUp("overlap") \/ GiveUp("contract_mismatch")
        \/ /\ ~HasOverlap(sites)
           /\ \/ Exact(variant)
              \/ \A i \in DOMAIN sites : ContractHolds(image, sites[i])
           /\ approved' = Approve(sites)
           /\ Enter("exports")
           /\ UNCHANGED <<chosenVars, image, prepared, published, slots, records,
                          failure>>
    BY DEF Validate
  <1> HIDE DEF sites
  <1>5. CASE /\ UNCHANGED image
             /\ GiveUp("address_range") \/ GiveUp("overlap") \/ GiveUp("contract_mismatch")
    BY <1>5, GivenUpUntouched
  <1>6. CASE /\ ~HasOverlap(sites)
             /\ \/ Exact(variant)
                \/ \A i \in DOMAIN sites : ContractHolds(image, sites[i])
             /\ approved' = Approve(sites)
             /\ Enter("exports")
             /\ UNCHANGED <<chosenVars, image, prepared, published, slots, records,
                            failure>>
    <2> USE <1>6 DEF Enter, chosenVars
    <2>1. /\ DOMAIN approved' = DOMAIN sites /\ Len(sites) \in Nat
          /\ DOMAIN sites = 1 .. Len(sites)
          /\ \A i \in DOMAIN sites :
                /\ Planned(i)' = sites[i]
                /\ approved'[i].disposition = Disposition(sites, i)
                /\ sites[i] \in PlanSites
      BY <1>3 DEF Approve, Planned
    <2>2. \A i \in DOMAIN sites :
             /\ Disposition(sites, i) \in Dispositions
             /\ Diverting(sites[i]) => Holds(image, sites[i].signature, "original")
             /\ Disposition(sites, i) = "install" =>
                  /\ ~ReadOnly(sites[i])
                  /\ IsSlot(sites[i]) =>
                        \A j \in 1 .. i - 1 :
                            ~(IsSlot(sites[j]) /\ sites[j].cells = sites[i].cells)
             /\ Disposition(sites, i) = "already_installed" =>
                  /\ IsPatch(sites[i])
                  /\ Holds(image, sites[i].cells, sites[i].installed)
             /\ Disposition(sites, i) = "verify_only" =>
                  \/ ReadOnly(sites[i])
                  \/ \E j \in 1 .. i - 1 : SameSlot(sites[j], sites[i])
      <3> SUFFICES ASSUME NEW i \in DOMAIN sites
                   PROVE  /\ Disposition(sites, i) \in Dispositions
                          /\ Diverting(sites[i]) => Holds(image, sites[i].signature, "original")
                          /\ Disposition(sites, i) = "install" =>
                               /\ ~ReadOnly(sites[i])
                               /\ IsSlot(sites[i]) =>
                                     \A j \in 1 .. i - 1 :
                                         ~(IsSlot(sites[j]) /\ sites[j].cells = sites[i].cells)
                          /\ Disposition(sites, i) = "already_installed" =>
                               /\ IsPatch(sites[i])
                               /\ Holds(image, sites[i].cells, sites[i].installed)
                          /\ Disposition(sites, i) = "verify_only" =>
                               \/ ReadOnly(sites[i])
                               \/ \E j \in 1 .. i - 1 : SameSlot(sites[j], sites[i])
        OBVIOUS
      <3>1. \/ ~Exact(variant) /\ ContractHolds(image, sites[i])
            \/ /\ Exact(variant)
               /\ \A cell \in sites[i].cells \cup sites[i].signature :
                     image[cell] = IF variant \in sites[i].installed_in
                                   THEN sites[i].installed ELSE "original"
        BY <1>2, <2>1 DEF AllSites
      <3>2. QED  BY <1>2, <1>3, <3>1, DispositionFacts
    <2>3. ShapeInv'
      <3>1. approved' \in Seq([site : PlanSites, disposition : Dispositions])
        <4>1. \A i \in 1 .. Len(sites) :
                 [site |-> sites[i], disposition |-> Disposition(sites, i)]
                    \in [site : PlanSites, disposition : Dispositions]
          BY <2>1, <2>2
        <4>2. approved' = [i \in 1 .. Len(sites) |->
                             [site |-> sites[i], disposition |-> Disposition(sites, i)]]
          BY <2>1 DEF Approve
        <4>3. QED  BY <2>1, <4>1, <4>2
      <3>2. QED  BY <1>1, <1>2, <1>3, <3>1 DEF StartupInv, ShapeInv
    <2>4. ApprovedInv'
      <3>1. \A i, j \in DOMAIN sites : i # j => ~Overlaps(sites[i], sites[j])
        <4>1. \A i, j \in DOMAIN sites : i < j => ~Overlaps(sites[i], sites[j])
          BY DEF HasOverlap
        <4>2. \A i, j \in DOMAIN sites : i # j => i < j \/ j < i
          BY <2>1
        <4>3. QED  BY <4>1, <4>2, OverlapsSymmetric
      <3>2. \A i \in DOMAIN sites : \A j \in 1 .. i - 1 : Planned(j)' = sites[j]
        BY <2>1
      <3>3. initial_image' = image /\ variant' = variant /\ plan' = plan
        BY <1>2
      <3>4. ASSUME NEW i \in DOMAIN sites
            PROVE  /\ \E j \in DOMAIN plan' : Planned(i)'.feature = plan'[j]
                   /\ \A j \in DOMAIN sites : i # j => ~Overlaps(Planned(i)', Planned(j)')
                   /\ Diverting(Planned(i)') =>
                         Holds(initial_image', Planned(i)'.signature, "original")
                   /\ approved'[i].disposition = "install" =>
                         /\ ~ReadOnly(Planned(i)')
                         /\ IsSlot(Planned(i)') =>
                               \A j \in 1 .. i - 1 :
                                   ~(IsSlot(Planned(j)') /\ Planned(j)'.cells = Planned(i)'.cells)
                   /\ approved'[i].disposition = "already_installed" =>
                         /\ IsPatch(Planned(i)')
                         /\ Holds(initial_image', Planned(i)'.cells, Planned(i)'.installed)
                   /\ approved'[i].disposition = "verify_only" =>
                         \/ ReadOnly(Planned(i)')
                         \/ \E j \in 1 .. i - 1 : SameSlot(Planned(j)', Planned(i)')
        <4>1. Planned(i)' = sites[i] /\ approved'[i].disposition = Disposition(sites, i)
          BY <2>1
        <4>2. \E j \in DOMAIN plan' : Planned(i)'.feature = plan'[j]
          BY <1>3, <3>3, <4>1
        <4>3. \A j \in DOMAIN sites : i # j => ~Overlaps(Planned(i)', Planned(j)')
          BY <2>1, <3>1, <4>1
        <4>4. Diverting(Planned(i)') =>
                 Holds(initial_image', Planned(i)'.signature, "original")
          BY <2>2, <3>3, <4>1
        <4>5. approved'[i].disposition = "install" =>
                 /\ ~ReadOnly(Planned(i)')
                 /\ IsSlot(Planned(i)') =>
                       \A j \in 1 .. i - 1 :
                           ~(IsSlot(Planned(j)') /\ Planned(j)'.cells = Planned(i)'.cells)
          BY <2>2, <3>2, <4>1
        <4>6. approved'[i].disposition = "already_installed" =>
                 /\ IsPatch(Planned(i)')
                 /\ Holds(initial_image', Planned(i)'.cells, Planned(i)'.installed)
          BY <2>2, <3>3, <4>1
        <4>7. approved'[i].disposition = "verify_only" =>
                 \/ ReadOnly(Planned(i)')
                 \/ \E j \in 1 .. i - 1 : SameSlot(Planned(j)', Planned(i)')
          BY <2>2, <3>2, <4>1
        <4>8. QED  BY <4>2, <4>3, <4>4, <4>5, <4>6, <4>7
      <3>5. Exact(variant') \/ \A i \in DOMAIN sites : ContractHolds(initial_image', Planned(i)')
        BY <2>1, <3>3
      <3>6. QED  BY <2>1, <3>4, <3>5 DEF ApprovedInv
    <2>5. TouchInv'
      BY <1>1, <1>2 DEF TouchInv
    <2>6. ProgressInv'
      BY DEF ProgressInv, PassedSites, PassedExports
    <2>7. RefusedInv'
      BY DEF StartupInv, RefusedInv
    <2>8. QED  BY <2>3, <2>4, <2>5, <2>6, <2>7 DEF StartupInv
  <1>7. QED  BY <1>4, <1>5, <1>6

LEMMA ResolveExportsInv ==
    ASSUME StartupInv, ResolveExports
    PROVE  StartupInv'
  <1>1. /\ phase = "exports" /\ image = initial_image
        /\ role \in DOMAIN Plans /\ plan \in Plans[role]
    BY DEF ResolveExports, StartupInv, ShapeInv, TouchInv
  <1>2. CASE \E reason \in {"resolve", "collision"} : GiveUp(reason) /\ UNCHANGED image
    BY <1>1, <1>2, GivenUpUntouched
  <1>3. CASE /\ ~Collides(Exports[role])
             /\ Enter(IF role = "game" THEN "input" ELSE "originals")
             /\ UNCHANGED <<chosenVars, image, approved, prepared, published, slots,
                            records, failure>>
    <2> USE <1>1, <1>3 DEF Enter, chosenVars, StartupInv
    <2>1. role # "game" => \A i \in DOMAIN plan : plan[i] \notin RuntimeFeatures
      BY PlanAssumption
    <2>2. phase' = "input" \/ (phase' = "originals" /\ role # "game")
      OBVIOUS
    <2>3. ShapeInv'
      BY <2>2 DEF ShapeInv
    <2>4. ApprovedInv'
      BY DEF ApprovedInv, Planned
    <2>5. TouchInv'
      <3>1. \A i \in DOMAIN approved : ~(i < 1)
        BY DEF ShapeInv
      <3>2. QED  BY <2>1, <2>2, <3>1 DEF TouchInv, Changed, Planned
    <2>6. ProgressInv'
      BY <2>2 DEF ProgressInv, PassedSites, PassedExports
    <2>7. QED  BY <2>3, <2>4, <2>5, <2>6 DEF RefusedInv
  <1>4. QED  BY <1>2, <1>3 DEF ResolveExports

LEMMA PrepareInputInv ==
    ASSUME StartupInv, PrepareInput \/ InputRefused
    PROVE  StartupInv'
  <1>1. CASE InputRefused
    BY <1>1, GivenUpUntouched DEF InputRefused
  <1>2. CASE PrepareInput
    <2> USE <1>2 DEF PrepareInput, Enter, chosenVars, StartupInv
    <2>1. ShapeInv' /\ RefusedInv'
      BY DEF ShapeInv, RefusedInv
    <2>2. ApprovedInv'
      BY DEF ApprovedInv, Planned
    <2>3. TouchInv'
      <3>1. \A i \in DOMAIN plan' : ~(i < 1)
        BY PlanAssumption DEF ShapeInv
      <3>2. QED  BY <3>1 DEF TouchInv, Changed, Planned
    <2>4. ProgressInv'
      BY DEF ProgressInv, PassedSites, PassedExports
    <2>5. QED  BY <2>1, <2>2, <2>3, <2>4
  <1>3. QED  BY <1>1, <1>2

LEMMA PrepareRuntimeInv ==
    ASSUME StartupInv, PrepareRuntime
    PROVE  StartupInv'
  <1> USE DEF StartupInv
  <1>1. /\ phase = "runtime" /\ position \in Nat \ {0}
        /\ plan \in Seq(DOMAIN Operations)
        /\ Len(plan) \in Nat /\ DOMAIN plan = 1 .. Len(plan)
    BY PlanAssumption DEF PrepareRuntime, ShapeInv
  <1>2. CASE GiveUp("runtime") /\ UNCHANGED image
    BY <1>2, GivenUpUntouched
  <1>3. CASE /\ position > Len(plan) /\ Enter("originals")
             /\ UNCHANGED <<chosenVars, image, approved, prepared, published, slots,
                            records, failure>>
    <2> USE <1>3 DEF Enter, chosenVars
    <2>1. ShapeInv' /\ RefusedInv'
      BY <1>1 DEF ShapeInv, RefusedInv
    <2>2. ApprovedInv'
      BY DEF ApprovedInv, Planned
    <2>3. TouchInv'
      <3>1. \A i \in DOMAIN approved : ~(i < 1)
        BY DEF ShapeInv
      <3>2. \A i \in DOMAIN plan : i < position
        BY <1>1
      <3>3. QED  BY <1>1, <3>1, <3>2 DEF TouchInv, Changed, Planned
    <2>4. ProgressInv'
      BY <1>1 DEF ProgressInv, PassedSites, PassedExports
    <2>5. QED  BY <2>1, <2>2, <2>3, <2>4
  <1>4. CASE /\ position <= Len(plan)
             /\ prepared' = prepared \cup ({plan[position]} \cap RuntimeFeatures)
             /\ position' = position + 1
             /\ UNCHANGED <<chosenVars, image, phase, approved, published, slots,
                            records, failure>>
    <2> USE <1>4 DEF chosenVars
    <2>1. ShapeInv' /\ RefusedInv'
      BY <1>1 DEF ShapeInv, RefusedInv
    <2>2. ApprovedInv'
      BY DEF ApprovedInv, Planned
    <2>3. TouchInv'
      <3>1. \A i \in DOMAIN plan : i < position' => i < position \/ i = position
        BY <1>1
      <3>2. \A i \in DOMAIN plan :
               i < position' /\ plan[i] \in RuntimeFeatures => plan[i] \in prepared'
        BY <1>1, <3>1 DEF TouchInv
      <3>3. QED  BY <1>1, <3>2 DEF TouchInv, Changed, Planned
    <2>4. ProgressInv'
      BY <1>1 DEF ProgressInv, PassedSites, PassedExports
    <2>5. QED  BY <2>1, <2>2, <2>3, <2>4
  <1>5. QED  BY <1>1, <1>2, <1>3, <1>4 DEF PrepareRuntime

LEMMA PublishSlotOriginalsInv ==
    ASSUME StartupInv, PublishSlotOriginals
    PROVE  StartupInv'
  <1> USE DEF StartupInv, PublishSlotOriginals, chosenVars
  <1>1. /\ phase = "originals" /\ position \in Nat \ {0}
        /\ Len(approved) \in Nat /\ DOMAIN approved = 1 .. Len(approved)
        /\ image = initial_image /\ records = <<>> /\ slots = {}
    BY DEF ShapeInv, TouchInv
  <1>2. ApprovedInv' /\ RefusedInv'
    BY DEF ApprovedInv, Planned, RefusedInv
  <1>3. CASE position > Len(approved)
    <2> USE <1>3 DEF Enter
    <2>1. ShapeInv'
      BY <1>1 DEF ShapeInv
    <2>2. TouchInv'
      <3>1. \A i \in DOMAIN approved : i < position
        BY <1>1
      <3>2. QED  BY <1>1, <3>1 DEF TouchInv, Changed, Planned
    <2>3. ProgressInv'
      <3>1. PassedSites' = {} /\ PassedExports' = {}
        BY <1>1 DEF PassedSites, PassedExports
      <3>2. QED  BY <1>1, <3>1 DEF ProgressInv
    <2>4. QED  BY <1>2, <2>1, <2>2, <2>3
  <1>4. CASE ~(position > Len(approved))
    <2>1. ShapeInv'
      BY <1>1, <1>4 DEF ShapeInv
    <2>2. TouchInv'
      <3>1. \A i \in DOMAIN approved : i < position' => i < position \/ i = position
        BY <1>1, <1>4
      <3>2. \A i \in DOMAIN approved :
               i < position' /\ IsSlot(Planned(i)) => Planned(i).site \in published'
        BY <1>1, <1>4, <3>1 DEF TouchInv, TakesOriginal, Planned
      <3>3. QED  BY <1>1, <1>4, <3>2 DEF TouchInv, Changed, Planned
    <2>3. ProgressInv'
      BY <1>1, <1>4 DEF ProgressInv, PassedSites, PassedExports
    <2>4. QED  BY <1>2, <2>1, <2>2, <2>3
  <1>5. QED  BY <1>3, <1>4

-----------------------------------------------------------------------------
(* The installing loops.                                                   *)
LEMMA ChangedStays ==
    ASSUME UNCHANGED approved, published \subseteq published', NEW cell, Changed(cell)
    PROVE  Changed(cell)'
  BY DEF Changed, Planned

LEMMA ElementOf ==
    ASSUME NEW S, NEW q \in Seq(S), NEW i \in DOMAIN q
    PROVE  q[i] \in S /\ i \in 1 .. Len(q) /\ Len(q) \in Nat
  OBVIOUS

LEMMA PlannedSite ==
    ASSUME ShapeInv, NEW i \in DOMAIN approved
    PROVE  /\ Planned(i) \in PlanSites /\ Planned(i) \in AllSites
           /\ i \in 1 .. Len(approved) /\ Len(approved) \in Nat
           /\ approved[i].disposition \in Dispositions
           /\ Planned(i).cells \subseteq Cells /\ Planned(i).cells # {}
           /\ DOMAIN image = Cells
  <1>1. /\ approved \in Seq([site : PlanSites, disposition : Dispositions])
        /\ approved # <<>>
    BY DEF ShapeInv
  <1>7. i \in 1 .. Len(approved) /\ Len(approved) \in Nat
    BY <1>1, ElementOf
  <1>2. approved[i] \in [site : PlanSites, disposition : Dispositions]
    BY <1>1, ElementOf
  <1>3. /\ Planned(i) \in PlanSites /\ approved[i].disposition \in Dispositions
        /\ Planned(i) \in AllSites
    BY <1>2 DEF Planned, AllSites
  <1>4. Planned(i).cells \subseteq Cells /\ Planned(i).cells # {}
    BY <1>3, SiteShape
  <1>5. i \in 1 .. Len(approved) /\ Len(approved) \in Nat /\ DOMAIN image = Cells
    BY <1>1, <1>7 DEF ShapeInv
  <1>6. QED  BY <1>3, <1>4, <1>5

(* Overwriting one site leaves another as it was, or is what it needs.     *)
LEMMA OverwriteKeepsLive ==
    ASSUME ShapeInv, ApprovedInv, NEW p \in DOMAIN approved, ~ReadOnly(Planned(p)),
           image' = Overwrite(Planned(p).cells, Planned(p).installed),
           NEW i \in DOMAIN approved, ~ReadOnly(Planned(i)), i # p => Live(Planned(i))
    PROVE  Holds(image', Planned(i).cells, Planned(i).installed)
  <1>1. /\ DOMAIN image = Cells
        /\ Planned(p).cells \subseteq Cells /\ Planned(i).cells \subseteq Cells
    BY PlannedSite
  <1> SUFFICES ASSUME NEW cell \in Planned(i).cells
               PROVE  image'[cell] = Planned(i).installed
    BY DEF Holds
  <1>2. image'[cell] = IF cell \in Planned(p).cells THEN Planned(p).installed
                       ELSE image[cell]
    BY <1>1 DEF Overwrite
  <1>3. CASE i = p
    BY <1>2, <1>3
  <1>4. CASE i # p /\ cell \in Planned(p).cells
    <2>1. SameSlot(Planned(i), Planned(p))
      BY <1>4, SharedCell
    <2>2. QED  BY <1>2, <1>4, <2>1 DEF SameSlot
  <1>5. CASE i # p /\ cell \notin Planned(p).cells
    BY <1>2, <1>5 DEF Live, Holds
  <1>6. QED  BY <1>3, <1>4, <1>5

(* The site at the position is in its installed form, and the loop goes on.*)
LEMMA SitePassed ==
    ASSUME StartupInv, phase = "sites", position <= Len(approved),
           \/ /\ image' = image
              /\ ~ReadOnly(Site) => Live(Site)
           \/ /\ approved[position].disposition = "install"
              /\ image' = Overwrite(Site.cells, Site.installed),
           Site.kind = "inline_hook" => Site.site \in published',
           position' = position + 1, published \subseteq published',
           UNCHANGED <<chosenVars, phase, approved, prepared, failure>>,
           records' \in Seq([hook : AllSites, enabled : BOOLEAN]),
           (\A i \in DOMAIN records : RecordInv(records[i]))',
           (\A cells \in slots :
              \E i \in PassedSites : IsSlot(Planned(i)) /\ Planned(i).cells = cells)'
    PROVE  StartupInv'
  <1> DEFINE p == position
  <1>1. /\ ShapeInv /\ ApprovedInv /\ TouchInv /\ ProgressInv /\ RefusedInv
        /\ p \in Nat \ {0} /\ Len(approved) \in Nat /\ DOMAIN approved = 1 .. Len(approved)
        /\ p \in DOMAIN approved /\ Site = Planned(p)
    BY DEF StartupInv, ShapeInv, Site, Planned
  <1>2. UNCHANGED <<role, plan, variant, initial_image>>
    BY DEF chosenVars
  <1>3. /\ DOMAIN image = Cells /\ DOMAIN image' = Cells
        /\ Planned(p).cells \subseteq Cells
    BY <1>1, PlannedSite DEF Overwrite
  <1>4. approved[p].disposition = "install" => ~ReadOnly(Planned(p))
    BY <1>1 DEF ApprovedInv
  <1>5. PassedSites' = PassedSites \cup {p} /\ PassedExports' = {}
    BY <1>1 DEF PassedSites, PassedExports
  <1>6. ShapeInv'
    BY <1>1, <1>2, <1>3 DEF ShapeInv
  <1>7. ApprovedInv'
    BY <1>1, <1>2 DEF ApprovedInv, Planned
  <1>8. TouchInv'
    <2>1. \A i \in DOMAIN approved : IsSlot(Planned(i)) => Planned(i).site \in published'
      BY <1>1 DEF TouchInv
    <2>2. ASSUME NEW cell \in Cells, image'[cell] # initial_image[cell]
          PROVE  Changed(cell)'
      <3>1. CASE image'[cell] = image[cell]
        <4>1. Changed(cell)
          BY <1>1, <1>3, <2>2, <3>1 DEF TouchInv
        <4>2. QED  BY <4>1, ChangedStays
      <3>2. CASE image'[cell] # image[cell]
        <4>1. /\ approved[p].disposition = "install" /\ cell \in Planned(p).cells
          BY <1>1, <1>3, <3>2 DEF Overwrite
        <4>2. Planned(p).kind \in {"inline_hook", "global_vtable_slot"} =>
                 Planned(p).site \in published'
          BY <1>1, <2>1 DEF IsSlot
        <4>3. QED  BY <1>1, <4>1, <4>2 DEF Changed, Planned
      <3>3. QED  BY <3>1, <3>2
    <2>3. \A i \in DOMAIN plan : plan[i] \in RuntimeFeatures => plan[i] \in prepared
      BY <1>1 DEF TouchInv
    <2>4. QED  BY <1>2, <1>3, <2>1, <2>2, <2>3 DEF TouchInv, Planned
  <1>9. ProgressInv'
    <2>1. ASSUME NEW i \in PassedSites', ~ReadOnly(Planned(i))
          PROVE  /\ Holds(image', Planned(i).cells, Planned(i).installed)
                 /\ Planned(i).kind = "inline_hook" => Planned(i).site \in published'
      <3>1. i \in DOMAIN approved /\ (i \in PassedSites \/ i = p)
        BY <1>1, <1>5 DEF PassedSites
      <3>2. Planned(i).kind = "inline_hook" => Planned(i).site \in published'
        BY <1>1, <2>1, <3>1 DEF ProgressInv
      <3>3. i # p => Live(Planned(i))
        BY <1>1, <2>1, <3>1 DEF ProgressInv
      <3>4. Holds(image', Planned(i).cells, Planned(i).installed)
        <4>1. CASE image' = image /\ (~ReadOnly(Site) => Live(Site))
          BY <1>1, <2>1, <3>3, <4>1 DEF Live
        <4>2. CASE /\ approved[p].disposition = "install"
                   /\ image' = Overwrite(Site.cells, Site.installed)
          BY <1>1, <1>4, <2>1, <3>1, <3>3, <4>2, OverwriteKeepsLive
        <4>3. QED  BY <4>1, <4>2
      <3>5. QED  BY <3>2, <3>4
    <2>2. \A i \in DOMAIN approved : Planned(i)' = Planned(i)
      BY DEF Planned
    <2>3. PassedSites' \subseteq DOMAIN approved
      BY <1>1, <1>5 DEF PassedSites
    <2>4. \A i \in PassedSites' :
             ~ReadOnly(Planned(i)') =>
                /\ Live(Planned(i))'
                /\ Planned(i)'.kind = "inline_hook" => Planned(i)'.site \in published'
      BY <2>1, <2>2, <2>3 DEF Live
    <2>6. ~Collides(Exports[role])
      BY <1>1 DEF ProgressInv
    <2>7. QED  BY <1>2, <1>5, <2>4, <2>6 DEF ProgressInv
  <1>10. RefusedInv'
    <2>1. failure = "none"
      BY <1>1 DEF ShapeInv
    <2>2. QED  BY <2>1 DEF RefusedInv
  <1>11. QED  BY <1>6, <1>7, <1>8, <1>9, <1>10 DEF StartupInv

(* A record of a site that the loop has passed stays one.                  *)
LEMMA SkipSiteInv ==
    ASSUME StartupInv, SkipSite
    PROVE  StartupInv'
  <1> DEFINE p == position
  <1>1. /\ ShapeInv /\ ApprovedInv /\ TouchInv /\ ProgressInv
        /\ phase = "sites" /\ p <= Len(approved) /\ p \in Nat \ {0}
        /\ p \in DOMAIN approved /\ Site = Planned(p)
        /\ approved[p].disposition \in {"already_installed", "verify_only"}
        /\ position' = p + 1
        /\ UNCHANGED <<chosenVars, image, phase, approved, prepared, published, slots,
                       records, failure>>
    BY DEF StartupInv, SkipSite, AtSite, ShapeInv, Site, Planned
  <1>2. ~IsHook(Planned(p)) \/ ~ReadOnly(Planned(p))
    BY DEF IsHook, ReadOnly
  <1>3. ~ReadOnly(Planned(p)) => Live(Planned(p)) /\ Planned(p).kind # "inline_hook"
    <2> SUFFICES ASSUME ~ReadOnly(Planned(p))
                 PROVE  Live(Planned(p)) /\ Planned(p).kind # "inline_hook"
      OBVIOUS
    <2>1. CASE approved[p].disposition = "already_installed"
      <3>1. /\ IsPatch(Planned(p))
            /\ Holds(initial_image, Planned(p).cells, Planned(p).installed)
        BY <1>1, <2>1 DEF ApprovedInv
      <3>2. ASSUME NEW cell \in Planned(p).cells
            PROVE  image[cell] = initial_image[cell]
        <4> SUFFICES ASSUME image[cell] # initial_image[cell] PROVE FALSE
          OBVIOUS
        <4>1. Changed(cell)
          BY <1>1, PlannedSite DEF TouchInv
        <4>2. \A export \in ExportSites : cell \notin export.cells
          BY <1>1, PlannedSite, ExportAssumption
        <4>3. PICK j \in DOMAIN approved :
                 approved[j].disposition = "install" /\ cell \in Planned(j).cells
          BY <4>1, <4>2 DEF Changed
        <4>4. j # p /\ ~ReadOnly(Planned(j))
          BY <1>1, <2>1, <4>3 DEF ApprovedInv
        <4>5. SameSlot(Planned(j), Planned(p))
          BY <1>1, <4>3, <4>4, SharedCell
        <4>6. QED  BY <3>1, <4>5 DEF SameSlot, IsSlot, IsPatch
      <3>3. QED  BY <3>1, <3>2 DEF Live, Holds, IsPatch
    <2>2. CASE approved[p].disposition = "verify_only"
      <3>1. PICK j \in 1 .. p - 1 : SameSlot(Planned(j), Planned(p))
        BY <1>1, <2>2 DEF ApprovedInv
      <3>2. j \in PassedSites
        BY <1>1, PlannedSite DEF PassedSites
      <3>3. Live(Planned(j))
        BY <1>1, <3>1, <3>2 DEF ProgressInv, SameSlot, IsSlot, ReadOnly
      <3>4. QED  BY <3>1, <3>3 DEF Live, SameSlot, IsSlot
    <2>3. QED  BY <1>1, <2>1, <2>2
  <1>4. Site.kind = "inline_hook" => Site.site \in published'
    BY <1>1, <1>3 DEF ReadOnly
  <1>5. records' \in Seq([hook : AllSites, enabled : BOOLEAN])
    BY <1>1 DEF ShapeInv
  <1>6. PassedSites \subseteq PassedSites' /\ PassedExports = {}
    BY <1>1, PlannedSite DEF PassedSites, PassedExports
  <1>7. (\A i \in DOMAIN records : RecordInv(records[i]))'
    <2>1. \A i \in DOMAIN records : RecordInv(records[i])
      BY <1>1 DEF ProgressInv
    <2>2. \A i \in DOMAIN records : \E j \in PassedSites :
             records[i].hook = Planned(j) /\ IsHook(records[i].hook) /\ records[i].enabled
      BY <1>1, <1>6, <2>1 DEF RecordInv
    <2>3. QED  BY <1>1, <1>6, <2>2 DEF RecordInv, Planned
  <1>8. (\A cells \in slots :
           \E i \in PassedSites : IsSlot(Planned(i)) /\ Planned(i).cells = cells)'
    BY <1>1, <1>6 DEF ProgressInv, Planned
  <1>9. QED  BY <1>1, <1>3, <1>4, <1>5, <1>7, <1>8, SitePassed

(* What is recorded when a site that is no hook is passed.                 *)
LEMMA RecordsPassed ==
    ASSUME StartupInv, phase = "sites", position <= Len(approved), ~IsHook(Site),
           position' = position + 1, UNCHANGED <<phase, approved, records>>
    PROVE  /\ (\A i \in DOMAIN records : RecordInv(records[i]))'
           /\ records' \in Seq([hook : AllSites, enabled : BOOLEAN])
           /\ PassedSites' = PassedSites \cup {position}
  <1>1. /\ ShapeInv /\ ProgressInv /\ position \in Nat \ {0}
        /\ Len(approved) \in Nat /\ DOMAIN approved = 1 .. Len(approved)
        /\ Site = Planned(position)
    BY DEF StartupInv, ShapeInv, Site, Planned
  <1>2. PassedSites' = PassedSites \cup {position} /\ PassedExports = {}
    BY <1>1 DEF PassedSites, PassedExports
  <1>3. \A i \in DOMAIN records : RecordInv(records[i])
    BY <1>1 DEF ProgressInv
  <1>4. \A i \in DOMAIN records : \E j \in PassedSites :
           records[i].hook = Planned(j) /\ IsHook(records[i].hook) /\ records[i].enabled
    BY <1>1, <1>2, <1>3 DEF RecordInv
  <1>5. (\A i \in DOMAIN records : RecordInv(records[i]))'
    BY <1>2, <1>4 DEF RecordInv, Planned
  <1>6. QED  BY <1>1, <1>2, <1>5 DEF ShapeInv

(* The cells of the site that is being overwritten may change.             *)
LEMMA SiteMayChange ==
    ASSUME StartupInv, phase = "sites", position <= Len(approved),
           approved[position].disposition = "install",
           Site.kind = "inline_hook" => Site.site \in published,
           NEW written, written \subseteq Site.cells,
           image' = Overwrite(written, Site.installed)
    PROVE  /\ DOMAIN image' = DOMAIN image
           /\ \A cell \in DOMAIN image : image'[cell] # image[cell] => Changed(cell)
  <1>1. /\ ShapeInv /\ TouchInv /\ position \in DOMAIN approved /\ Site = Planned(position)
    BY DEF StartupInv, ShapeInv, Site, Planned
  <1>2. IsSlot(Site) => Site.site \in published
    BY <1>1 DEF TouchInv
  <1>3. \A cell \in DOMAIN image : image'[cell] # image[cell] => cell \in Site.cells
    BY DEF Overwrite
  <1>4. QED  BY <1>1, <1>2, <1>3 DEF Changed, Overwrite, IsSlot

LEMMA WritePatchInv ==
    ASSUME StartupInv, WritePatch
    PROVE  StartupInv'
  <1>1. /\ ShapeInv /\ ProgressInv
        /\ phase = "sites" /\ position <= Len(approved)
        /\ approved[position].disposition = "install" /\ IsPatch(Site)
    BY DEF StartupInv, WritePatch, AtSite
  <1>2. ~IsHook(Site) /\ Site.kind # "inline_hook"
    BY <1>1 DEF IsHook, IsPatch
  <1>3. CASE /\ image' = Overwrite(Site.cells, Site.installed)
             /\ position' = position + 1
             /\ UNCHANGED <<chosenVars, phase, approved, prepared, published, slots,
                            records, failure>>
    <2>1. /\ (\A i \in DOMAIN records : RecordInv(records[i]))'
          /\ records' \in Seq([hook : AllSites, enabled : BOOLEAN])
          /\ PassedSites' = PassedSites \cup {position}
      BY <1>1, <1>2, <1>3, RecordsPassed
    <2>2. (\A cells \in slots :
             \E i \in PassedSites : IsSlot(Planned(i)) /\ Planned(i).cells = cells)'
      BY <1>1, <1>3, <2>1 DEF ProgressInv, Planned
    <2>3. QED  BY <1>1, <1>2, <1>3, <2>1, <2>2, SitePassed
  <1>4. CASE /\ \E written \in SUBSET Site.cells :
                   image' = Overwrite(written, Site.installed)
             /\ GiveUp("memory")
    <2>1. PICK written \in SUBSET Site.cells : image' = Overwrite(written, Site.installed)
      BY <1>4
    <2>2. /\ DOMAIN image' = DOMAIN image
          /\ \A cell \in DOMAIN image : image'[cell] # image[cell] => Changed(cell)
      BY <1>1, <1>2, <2>1, SiteMayChange
    <2>3. QED  BY <1>1, <1>4, <2>2, GivenUp
  <1>5. QED  BY <1>3, <1>4 DEF WritePatch

LEMMA ExchangeSlotInv ==
    ASSUME StartupInv, ExchangeSlot
    PROVE  StartupInv'
  <1>1. /\ ShapeInv /\ ApprovedInv /\ ProgressInv
        /\ phase = "sites" /\ position <= Len(approved) /\ position \in Nat \ {0}
        /\ Len(approved) \in Nat /\ DOMAIN approved = 1 .. Len(approved)
        /\ approved[position].disposition = "install" /\ IsSlot(Site)
        /\ Site = Planned(position)
    BY DEF StartupInv, ExchangeSlot, AtSite, ShapeInv, Site, Planned
  <1>2. ~IsHook(Site) /\ Site.kind # "inline_hook"
    BY <1>1 DEF IsHook, IsSlot
  <1>3. Site.cells \notin slots
    <2> SUFFICES ASSUME Site.cells \in slots PROVE FALSE
      OBVIOUS
    <2>1. PICK j \in PassedSites : IsSlot(Planned(j)) /\ Planned(j).cells = Site.cells
      BY <1>1 DEF ProgressInv
    <2>2. j \in 1 .. position - 1
      BY <1>1, <2>1 DEF PassedSites
    <2>3. QED  BY <1>1, <2>1, <2>2 DEF ApprovedInv
  <1>4. CASE GiveUp("exchange") /\ UNCHANGED image
    BY <1>4, GivenUpUntouched
  <1>5. CASE GiveUp("memory") /\ UNCHANGED image
    BY <1>5, GivenUpUntouched
  <1>6. CASE GiveUp("memory") /\ image' = Overwrite(Site.cells, Site.installed)
    <2>1. /\ DOMAIN image' = DOMAIN image
          /\ \A cell \in DOMAIN image : image'[cell] # image[cell] => Changed(cell)
      BY <1>1, <1>2, <1>6, SiteMayChange
    <2>2. QED  BY <1>1, <1>6, <2>1, GivenUp
  <1>7. CASE /\ image' = Overwrite(Site.cells, Site.installed)
             /\ slots' = slots \cup {Site.cells}
             /\ published' = published \cup {Site.site}
             /\ position' = position + 1
             /\ UNCHANGED <<chosenVars, phase, approved, prepared, records, failure>>
    <2>1. /\ (\A i \in DOMAIN records : RecordInv(records[i]))'
          /\ records' \in Seq([hook : AllSites, enabled : BOOLEAN])
          /\ PassedSites' = PassedSites \cup {position}
      BY <1>1, <1>2, <1>7, RecordsPassed
    <2>2. (\A cells \in slots :
             \E i \in PassedSites : IsSlot(Planned(i)) /\ Planned(i).cells = cells)'
      BY <1>1, <1>7, <2>1 DEF ProgressInv, Planned
    <2>3. QED  BY <1>1, <1>2, <1>7, <2>1, <2>2, SitePassed
  <1>8. QED  BY <1>3, <1>4, <1>5, <1>6, <1>7 DEF ExchangeSlot

LEMMA RecordOf ==
    ASSUME ShapeInv, NEW i \in DOMAIN records
    PROVE  /\ records[i] \in [hook : AllSites, enabled : BOOLEAN]
           /\ records[i].hook \in AllSites /\ records[i].hook.cells # {}
  <1>1. records[i] \in [hook : AllSites, enabled : BOOLEAN]
    BY ElementOf DEF ShapeInv
  <1>2. records[i].hook \in AllSites
    BY <1>1
  <1>3. QED  BY <1>1, <1>2, SiteShape

(* The only record at the address of the hook that is being installed is   *)
(* its own: what was approved does not overlap.                            *)
LEMMA OnlyOwnRecord ==
    ASSUME StartupInv, phase = "sites", position <= Len(approved),
           approved[position].disposition = "install", IsHook(Site),
           NEW i \in DOMAIN records, records[i].hook.cells = Site.cells
    PROVE  /\ records[i].hook = Site /\ ~records[i].enabled
           /\ Site.kind = "inline_hook" => Site.site \in published
  <1>1. /\ ShapeInv /\ ApprovedInv /\ ProgressInv
        /\ position \in DOMAIN approved /\ Site = Planned(position)
        /\ PassedExports = {}
    BY DEF StartupInv, ShapeInv, Site, Planned, PassedExports
  <1>2. RecordInv(records[i])
    BY <1>1 DEF ProgressInv
  <1>3. ~\E j \in PassedSites : records[i].hook = Planned(j) /\ IsHook(records[i].hook)
    <2> SUFFICES ASSUME NEW j \in PassedSites, records[i].hook = Planned(j),
                        IsHook(records[i].hook)
                 PROVE  FALSE
      OBVIOUS
    <2>1. j \in DOMAIN approved /\ j # position
      <3>1. j \in DOMAIN approved /\ j < position
        BY DEF PassedSites
      <3>2. QED  BY <3>1, <1>1, PlannedSite
    <2>2. PICK cell : cell \in Planned(j).cells
      BY <1>1, <2>1, PlannedSite
    <2>3. ~ReadOnly(Planned(j)) /\ ~ReadOnly(Planned(position))
      BY <1>1 DEF IsHook, ReadOnly
    <2>4. SameSlot(Planned(j), Planned(position))
      BY <1>1, <2>1, <2>2, <2>3, SharedCell
    <2>5. QED  BY <1>1, <2>4 DEF SameSlot, IsSlot, IsHook
  <1>4. QED  BY <1>1, <1>2, <1>3 DEF RecordInv

(* A new record, disabled, whose original is out.                          *)
LEMMA RecordCreated ==
    ASSUME StartupInv, NEW hook \in AllSites,
           \/ /\ phase = "sites" /\ position <= Len(approved)
              /\ approved[position].disposition = "install"
              /\ hook = Site /\ IsHook(hook)
           \/ /\ phase = "export_hooks" /\ position <= Len(Exports[role])
              /\ hook = Export(position),
           records' = Append(records, [hook |-> hook, enabled |-> FALSE]),
           published' = Publish(hook),
           UNCHANGED <<chosenVars, image, phase, position, approved, prepared, slots,
                       failure>>
    PROVE  StartupInv'
  <1> DEFINE new == [hook |-> hook, enabled |-> FALSE]
  <1>1. /\ ShapeInv /\ ApprovedInv /\ TouchInv /\ ProgressInv /\ RefusedInv
        /\ records \in Seq([hook : AllSites, enabled : BOOLEAN])
        /\ new \in [hook : AllSites, enabled : BOOLEAN]
        /\ new.hook = hook /\ new.enabled = FALSE
    BY DEF StartupInv, ShapeInv
  <1>2. /\ published \subseteq published'
        /\ hook.kind = "inline_hook" => hook.site \in published'
    BY DEF Publish
  <1>3. UNCHANGED <<role, plan, variant, initial_image>>
    BY DEF chosenVars
  <1> HIDE DEF new
  <1>4. /\ records' \in Seq([hook : AllSites, enabled : BOOLEAN])
        /\ \A i \in DOMAIN records' : \/ i \in DOMAIN records /\ records'[i] = records[i]
                                      \/ records'[i] = new
    BY <1>1 DEF new
  <1>5. ShapeInv' /\ ApprovedInv' /\ RefusedInv'
    BY <1>1, <1>3, <1>4 DEF ShapeInv, ApprovedInv, RefusedInv, Planned
  <1>6. TouchInv'
    <2>1. \A cell : Changed(cell) => Changed(cell)'
      BY <1>2, ChangedStays
    <2>2. QED  BY <1>1, <1>2, <1>3, <2>1 DEF TouchInv, Planned
  <1>7. PassedSites' = PassedSites /\ PassedExports' = PassedExports
    BY <1>3 DEF PassedSites, PassedExports
  <1>8. ProgressInv'
    <2>1. ASSUME NEW record, RecordInv(record)
          PROVE  RecordInv(record)'
      BY <1>2, <1>3, <1>7, <2>1 DEF RecordInv, Planned, Export
    <2>2. RecordInv(new)'
      BY <1>1, <1>2, <1>3 DEF RecordInv, Planned, Export, Site
    <2>3. (\A i \in DOMAIN records : RecordInv(records[i]))'
      <3>1. \A i \in DOMAIN records : RecordInv(records[i])
        BY <1>1 DEF ProgressInv
      <3>2. QED  BY <1>4, <2>1, <2>2, <3>1
    <2>4. QED  BY <1>1, <1>2, <1>3, <1>7, <2>3 DEF ProgressInv, Planned, Export, Live
  <1>9. QED  BY <1>5, <1>6, <1>8 DEF StartupInv

LEMMA SequenceOf ==
    ASSUME NEW S, NEW n \in Nat, NEW q, q = [i \in 1 .. n |-> q[i]],
           \A i \in 1 .. n : q[i] \in S
    PROVE  q \in Seq(S)
  OBVIOUS

Enabled(hook) ==
    [i \in DOMAIN records |->
        IF records[i].hook = hook
        THEN [records[i] EXCEPT !.enabled = TRUE] ELSE records[i]]

LEMMA RecordEnabled ==
    ASSUME ShapeInv, NEW hook, records' = Enabled(hook)
    PROVE  /\ records' \in Seq([hook : AllSites, enabled : BOOLEAN])
           /\ DOMAIN records' = DOMAIN records
           /\ \A i \in DOMAIN records :
                 /\ records'[i].hook = records[i].hook
                 /\ records'[i].enabled = (records[i].hook = hook \/ records[i].enabled)
  <1>1. /\ DOMAIN records' = DOMAIN records
        /\ \A i \in DOMAIN records :
              /\ records'[i] \in [hook : AllSites, enabled : BOOLEAN]
              /\ records'[i].hook = records[i].hook
              /\ records'[i].enabled = (records[i].hook = hook \/ records[i].enabled)
    BY RecordOf DEF Enabled
  <1>2. Len(records) \in Nat /\ DOMAIN records = 1 .. Len(records)
    BY DEF ShapeInv
  <1>3. records' = [i \in 1 .. Len(records) |-> records'[i]]
    BY <1>2 DEF Enabled
  <1>4. records' \in Seq([hook : AllSites, enabled : BOOLEAN])
    BY <1>1, <1>2, <1>3, SequenceOf
  <1>5. QED  BY <1>1, <1>4

LEMMA InstallSiteHookInv ==
    ASSUME StartupInv, InstallSiteHook
    PROVE  StartupInv'
  <1>1. /\ ShapeInv /\ ApprovedInv /\ ProgressInv
        /\ phase = "sites" /\ position <= Len(approved)
        /\ position \in DOMAIN approved /\ position \in Nat \ {0}
        /\ approved[position].disposition = "install" /\ IsHook(Site)
        /\ Site = Planned(position)
    BY DEF StartupInv, InstallSiteHook, AtSite, ShapeInv, Site, Planned
  <1>2. Site \in AllSites /\ Site.cells \subseteq Cells
    BY <1>1, PlannedSite
  <1>3. Recorded(Site) => PendingHook(Site)
    BY <1>1, OnlyOwnRecord DEF Recorded, PendingHook
  <1>4. Refuses(Site) => PendingHook(Site)
    BY <1>1, OnlyOwnRecord DEF Refuses, PendingHook
  <1>5. CASE CreateHook(Site)
    <2>1. CASE GiveUp("create") /\ UNCHANGED image
      BY <2>1, GivenUpUntouched
    <2>2. CASE ~(GiveUp("create") /\ UNCHANGED image)
      BY <1>1, <1>2, <1>5, <2>2, RecordCreated DEF CreateHook
    <2>3. QED  BY <2>1, <2>2
  <1>6. CASE EnableHook(Site)
    <2>1. CASE GiveUp("enable") /\ UNCHANGED image
      BY <2>1, GivenUpUntouched
    <2>2. CASE /\ image' = Overwrite(Site.cells, Site.installed)
               /\ records' = [i \in DOMAIN records |->
                     IF records[i].hook = Site
                     THEN [records[i] EXCEPT !.enabled = TRUE] ELSE records[i]]
               /\ position' = position + 1
               /\ UNCHANGED <<chosenVars, phase, approved, prepared, published, slots,
                              failure>>
      <3>1. Site.kind = "inline_hook" => Site.site \in published
        <4>1. PICK i \in DOMAIN records : records[i].hook = Site
          BY <1>6 DEF EnableHook, PendingHook
        <4>2. QED  BY <1>1, <4>1, OnlyOwnRecord
      <3>2. /\ records' \in Seq([hook : AllSites, enabled : BOOLEAN])
            /\ DOMAIN records' = DOMAIN records
            /\ \A i \in DOMAIN records :
                  /\ records'[i].hook = records[i].hook
                  /\ records'[i].enabled = (records[i].hook = Site \/ records[i].enabled)
        <4>1. records' = Enabled(Site)
          BY <2>2 DEF Enabled
        <4>2. QED  BY <1>1, <4>1, RecordEnabled
      <3>4. PassedSites' = PassedSites \cup {position} /\ PassedExports = {}
        BY <1>1, <2>2, PlannedSite DEF PassedSites, PassedExports
      <3>5. (\A i \in DOMAIN records : RecordInv(records[i]))'
        <4> SUFFICES ASSUME NEW i \in DOMAIN records
                     PROVE  RecordInv(records[i])'
          BY <3>2
        <4>1. RecordInv(records[i])
          BY <1>1 DEF ProgressInv
        <4>2. \E j \in PassedSites' : /\ records[i].hook = Planned(j)
                                      /\ IsHook(records[i].hook)
                                      /\ records[i].hook = Site \/ records[i].enabled
          BY <1>1, <3>4, <4>1 DEF RecordInv
        <4>3. QED  BY <2>2, <3>2, <4>2 DEF RecordInv, Planned
      <3>6. (\A cells \in slots :
               \E i \in PassedSites : IsSlot(Planned(i)) /\ Planned(i).cells = cells)'
        BY <1>1, <2>2, <3>4 DEF ProgressInv, Planned
      <3>7. QED  BY <1>1, <2>2, <3>1, <3>2, <3>5, <3>6, SitePassed
    <2>3. QED  BY <1>6, <2>1, <2>2 DEF EnableHook
  <1>7. QED  BY <1>3, <1>4, <1>5, <1>6 DEF InstallSiteHook, JoinHook

(* The hooks of exported functions.                                        *)
LEMMA ExportOf ==
    ASSUME StartupInv, phase \in {"sites", "export_hooks", "running"},
           NEW i \in DOMAIN Exports[role]
    PROVE  /\ Export(i) \in ExportSites /\ Export(i) \in AllSites /\ IsHook(Export(i))
           /\ Export(i).cells # {} /\ Export(i).cells \subseteq Cells
           /\ i \in 1 .. Len(Exports[role]) /\ Len(Exports[role]) \in Nat
           /\ \A j \in DOMAIN approved : Planned(j).cells \cap Export(i).cells = {}
  <1>1. ShapeInv /\ role \in DOMAIN Exports
    BY ExportAssumption DEF StartupInv, ShapeInv
  <1>2. Exports[role] \in Seq(ExportSites)
    BY <1>1, ExportAssumption
  <1>3. /\ Export(i) \in ExportSites
        /\ i \in 1 .. Len(Exports[role]) /\ Len(Exports[role]) \in Nat
    BY <1>2, ElementOf DEF Export
  <1>4. Export(i) \in AllSites
    BY <1>3 DEF AllSites
  <1>5. IsHook(Export(i)) /\ \A j \in DOMAIN approved : Planned(j).cells \cap Export(i).cells = {}
    BY <1>1, <1>3, PlannedSite, ExportAssumption
  <1>6. Export(i).cells # {} /\ Export(i).cells \subseteq Cells
    BY <1>4, SiteShape
  <1>7. QED  BY <1>3, <1>4, <1>5, <1>6

(* Two of them that share a cell share all, and are installed alike.       *)
LEMMA SharedExport ==
    ASSUME StartupInv, phase \in {"export_hooks", "running"},
           NEW i \in DOMAIN Exports[role], NEW j \in DOMAIN Exports[role],
           Export(i).cells \cap Export(j).cells # {}
    PROVE  Export(i).cells = Export(j).cells /\ Export(i).installed = Export(j).installed
  <1>1. /\ Export(i) \in ExportSites /\ Export(j) \in ExportSites
        /\ i \in 1 .. Len(Exports[role]) /\ j \in 1 .. Len(Exports[role])
        /\ Len(Exports[role]) \in Nat
    BY ExportOf
  <1>2. Export(i).cells = Export(j).cells
    BY <1>1, ExportAssumption
  <1>3. ~Collides(Exports[role])
    BY DEF StartupInv, ProgressInv
  <1>4. CASE i = j
    BY <1>4
  <1>5. CASE i < j
    BY <1>2, <1>3, <1>5 DEF Collides, CanShare, Export
  <1>6. CASE j < i
    BY <1>2, <1>3, <1>6 DEF Collides, CanShare, Export
  <1>7. i = j \/ i < j \/ j < i
    BY <1>1
  <1>8. QED  BY <1>2, <1>4, <1>5, <1>6, <1>7

LEMMA CheckExportHooksInv ==
    ASSUME StartupInv, CheckExportHooks
    PROVE  StartupInv'
  <1>1. /\ ShapeInv /\ ApprovedInv /\ TouchInv /\ ProgressInv /\ RefusedInv
        /\ phase = "sites" /\ position > Len(approved) /\ position \in Nat \ {0}
        /\ Len(approved) \in Nat /\ DOMAIN approved = 1 .. Len(approved)
    BY DEF StartupInv, CheckExportHooks, ShapeInv
  <1>2. PassedSites = DOMAIN approved /\ PassedExports = {}
    BY <1>1 DEF PassedSites, PassedExports
  <1>3. \A i \in DOMAIN records : \E j \in DOMAIN approved :
           records[i].hook = Planned(j) /\ IsHook(records[i].hook) /\ records[i].enabled
    <2>1. \A i \in DOMAIN records : RecordInv(records[i])
      BY <1>1 DEF ProgressInv
    <2>2. QED  BY <1>1, <1>2, <2>1 DEF RecordInv
  <1>4. \A i \in DOMAIN Exports[role] : ~Refuses(Exports[role][i])
    <2> SUFFICES ASSUME NEW i \in DOMAIN Exports[role], Refuses(Export(i)) PROVE FALSE
      BY DEF Export
    <2>1. PICK k \in DOMAIN records : records[k].hook.cells = Export(i).cells
      BY DEF Refuses
    <2>2. PICK j \in DOMAIN approved : records[k].hook = Planned(j)
      BY <1>3
    <2>3. Planned(j).cells \cap Export(i).cells = {} /\ Export(i).cells # {}
      BY <1>1, ExportOf
    <2>4. QED  BY <2>1, <2>2, <2>3
  <1>5. CASE /\ Enter("export_hooks")
             /\ UNCHANGED <<chosenVars, image, approved, prepared, published, slots,
                            records, failure>>
    <2> USE <1>5 DEF Enter, chosenVars
    <2>1. PassedSites' = DOMAIN approved
      BY DEF PassedSites
    <2>2. PassedExports' = {}
      <3>1. Exports[role] \in Seq(ExportSites)
        BY <1>1, ExportAssumption DEF ShapeInv
      <3>2. \A i \in DOMAIN Exports[role] : ~(i < 1)
        BY <3>1, ElementOf
      <3>3. QED  BY <3>2 DEF PassedExports
    <2>3. ShapeInv' /\ RefusedInv' /\ ApprovedInv'
      BY <1>1 DEF ShapeInv, RefusedInv, ApprovedInv, Planned
    <2>4. TouchInv'
      BY <1>1 DEF TouchInv, Changed, Planned
    <2>5. (\A i \in DOMAIN records : RecordInv(records[i]))'
      BY <1>3, <2>1 DEF RecordInv, Planned
    <2>6. ProgressInv'
      BY <1>1, <1>2, <2>1, <2>2, <2>5 DEF ProgressInv, Planned, Live
    <2>7. QED  BY <2>3, <2>4, <2>6 DEF StartupInv
  <1>6. QED  BY <1>4, <1>5 DEF CheckExportHooks

(* The hook at the position is in its installed form, and the loop goes on.*)
LEMMA ExportPassed ==
    ASSUME StartupInv, phase = "export_hooks", position <= Len(Exports[role]),
           \/ image' = image /\ Live(Export(position))
           \/ image' = Overwrite(Export(position).cells, Export(position).installed),
           position' = position + 1, published \subseteq published',
           UNCHANGED <<chosenVars, phase, approved, prepared, slots, failure>>,
           records' \in Seq([hook : AllSites, enabled : BOOLEAN]),
           (\A i \in DOMAIN records : RecordInv(records[i]))'
    PROVE  StartupInv'
  <1> DEFINE p == position
  <1>0. /\ ShapeInv /\ ApprovedInv /\ TouchInv /\ ProgressInv /\ RefusedInv
        /\ p \in Nat \ {0}
    BY DEF StartupInv, ShapeInv
  <1>1. p \in DOMAIN Exports[role] /\ DOMAIN Exports[role] = 1 .. Len(Exports[role])
    <2>1. Exports[role] \in Seq(ExportSites)
      BY <1>0, ExportAssumption DEF ShapeInv
    <2>2. QED  BY <1>0, <2>1
  <1>2. UNCHANGED <<role, plan, variant, initial_image>>
    BY DEF chosenVars
  <1>3. DOMAIN image = Cells /\ DOMAIN image' = Cells
    BY <1>0 DEF ShapeInv, Overwrite
  <1>4. PassedSites' = PassedSites /\ PassedSites \subseteq DOMAIN approved
    BY <1>2 DEF PassedSites
  <1>5. PassedExports' = PassedExports \cup {p}
    BY <1>0, <1>1, <1>2 DEF PassedExports
  <1>6. ASSUME NEW cell \in Cells, image'[cell] # image[cell]
        PROVE  cell \in Export(p).cells
    BY <1>3, <1>6 DEF Overwrite
  <1>7. ShapeInv' /\ ApprovedInv' /\ RefusedInv'
    <2>1. failure = "none"
      BY <1>0 DEF ShapeInv
    <2>2. QED  BY <1>0, <1>2, <1>3, <2>1 DEF ShapeInv, ApprovedInv, RefusedInv, Planned
  <1>8. TouchInv'
    <2>1. ASSUME NEW cell \in Cells, image'[cell] # initial_image[cell]
          PROVE  Changed(cell)'
      <3>1. CASE image'[cell] = image[cell]
        <4>1. Changed(cell)
          BY <1>0, <1>3, <2>1, <3>1 DEF TouchInv
        <4>2. QED  BY <4>1, ChangedStays
      <3>2. CASE image'[cell] # image[cell]
        BY <1>1, <1>6, <3>2, ExportOf DEF Changed
      <3>3. QED  BY <3>1, <3>2
    <2>2. /\ \A i \in DOMAIN plan : plan[i] \in RuntimeFeatures => plan[i] \in prepared
          /\ \A i \in DOMAIN approved : IsSlot(Planned(i)) => Planned(i).site \in published'
      BY <1>0 DEF TouchInv
    <2>3. QED  BY <1>2, <1>3, <2>1, <2>2 DEF TouchInv, Planned
  <1>9. ProgressInv'
    <2>1. ASSUME NEW i \in PassedSites, ~ReadOnly(Planned(i))
          PROVE  /\ Holds(image', Planned(i).cells, Planned(i).installed)
                 /\ Planned(i).kind = "inline_hook" => Planned(i).site \in published'
      <3>1. /\ Live(Planned(i))
            /\ Planned(i).kind = "inline_hook" => Planned(i).site \in published
        BY <1>0, <2>1 DEF ProgressInv
      <3>2. Planned(i).cells \cap Export(p).cells = {} /\ Planned(i).cells \subseteq Cells
        BY <1>0, <1>1, <1>4, ExportOf, PlannedSite
      <3>3. QED  BY <1>6, <3>1, <3>2 DEF Live, Holds
    <2>2. ASSUME NEW i \in PassedExports'
          PROVE  Holds(image', Export(i).cells, Export(i).installed)
      <3>1. i \in DOMAIN Exports[role] /\ (i # p => Live(Export(i)))
        BY <1>0, <1>1, <1>5, <2>2 DEF ProgressInv, PassedExports
      <3>2. CASE image' = image /\ Live(Export(position))
        BY <3>1, <3>2 DEF Live
      <3>3. CASE image' = Overwrite(Export(p).cells, Export(p).installed)
        <4>1. ASSUME NEW cell \in Export(i).cells
              PROVE  image'[cell] = Export(i).installed
          <5>1. cell \in Cells
            BY <3>1, ExportOf
          <5>2. CASE cell \in Export(p).cells
            <6>1. Export(i).installed = Export(p).installed
              BY <1>1, <3>1, <4>1, <5>2, SharedExport
            <6>2. QED  BY <1>3, <3>3, <5>1, <5>2, <6>1 DEF Overwrite
          <5>3. CASE cell \notin Export(p).cells
            <6>1. Live(Export(i))
              BY <3>1, <4>1, <5>3
            <6>2. QED  BY <1>6, <4>1, <5>1, <5>3, <6>1 DEF Live, Holds
          <5>4. QED  BY <5>2, <5>3
        <4>2. QED  BY <4>1 DEF Holds
      <3>4. QED  BY <3>2, <3>3
    <2>3. \A i \in PassedSites' :
             ~ReadOnly(Planned(i)') =>
                /\ Live(Planned(i))'
                /\ Planned(i)'.kind = "inline_hook" => Planned(i)'.site \in published'
      BY <1>4, <2>1 DEF Live, Planned
    <2>4. \A i \in PassedExports' : Live(Export(i))'
      BY <1>2, <2>2 DEF Live, Export
    <2>5. (\A cells \in slots :
             \E i \in PassedSites : IsSlot(Planned(i)) /\ Planned(i).cells = cells)'
      BY <1>0, <1>4 DEF ProgressInv, Planned
    <2>6. ~Collides(Exports[role])
      BY <1>0 DEF ProgressInv
    <2>7. QED  BY <1>2, <2>3, <2>4, <2>5, <2>6 DEF ProgressInv
  <1>10. QED  BY <1>7, <1>8, <1>9 DEF StartupInv

LEMMA InstallExportHookInv ==
    ASSUME StartupInv, InstallExportHook
    PROVE  StartupInv'
  <1> DEFINE p == position
             hook == Exports[role][position]
  <1>1. /\ ShapeInv /\ ProgressInv /\ phase = "export_hooks"
        /\ p <= Len(Exports[role]) /\ p \in Nat \ {0} /\ hook = Export(p)
        /\ Exports[role] \in Seq(ExportSites)
    BY ExportAssumption DEF StartupInv, InstallExportHook, ShapeInv, Export
  <1>2. p \in DOMAIN Exports[role]
    BY <1>1
  <1>3. /\ hook \in AllSites /\ hook.cells # {}
        /\ \A j \in DOMAIN approved : Planned(j).cells \cap hook.cells = {}
    BY <1>1, <1>2, ExportOf
  <1>4. \A i \in DOMAIN records : RecordInv(records[i])
    BY <1>1 DEF ProgressInv
  <1> HIDE DEF hook
  <1>5. CASE CreateHook(hook)
    <2>1. CASE GiveUp("create") /\ UNCHANGED image
      BY <2>1, GivenUpUntouched
    <2>2. CASE ~(GiveUp("create") /\ UNCHANGED image)
      BY <1>1, <1>3, <1>5, <2>2, RecordCreated DEF CreateHook
    <2>3. QED  BY <2>1, <2>2
  <1>6. CASE JoinHook(hook)
    <2>1. CASE GiveUp("publish") /\ UNCHANGED image
      BY <2>1, GivenUpUntouched
    <2>2. CASE /\ published' = Publish(hook)
               /\ position' = position + 1
               /\ UNCHANGED <<chosenVars, image, phase, approved, prepared, slots,
                              records, failure>>
      <3>1. PassedSites' = PassedSites /\ PassedExports \subseteq PassedExports'
        BY <1>1, <2>2, ElementOf DEF PassedSites, PassedExports, chosenVars
      <3>2. \A i \in DOMAIN records : ~(records[i].hook = hook /\ ~records[i].enabled)
        BY <1>6 DEF JoinHook, PendingHook
      <3>3. \A i \in DOMAIN records :
               \/ \E j \in PassedSites :
                     /\ records[i].hook = Planned(j)
                     /\ IsHook(records[i].hook) /\ records[i].enabled
               \/ \E j \in PassedExports : records[i].hook = Export(j) /\ records[i].enabled
        BY <1>1, <1>4, <3>2 DEF RecordInv
      <3>4. (\A i \in DOMAIN records : RecordInv(records[i]))'
        BY <2>2, <3>1, <3>3 DEF RecordInv, Planned, Export, chosenVars
      <3>5. Live(hook)
        <4>1. PICK i \in DOMAIN records : records[i].hook.cells = hook.cells
          BY <1>6 DEF JoinHook, Recorded
        <4>2. ~\E j \in PassedSites : records[i].hook = Planned(j)
          BY <1>3, <4>1 DEF PassedSites
        <4>3. PICK j \in PassedExports : records[i].hook = Export(j)
          BY <3>3, <4>2
        <4>4. j \in DOMAIN Exports[role] /\ Live(Export(j))
          BY <1>1, <4>3 DEF ProgressInv, PassedExports
        <4>5. Export(j).installed = hook.installed
          BY <1>1, <1>2, <1>3, <4>1, <4>3, <4>4, SharedExport
        <4>6. QED  BY <4>1, <4>3, <4>4, <4>5 DEF Live
      <3>6. published \subseteq published' /\ records' \in Seq([hook : AllSites, enabled : BOOLEAN])
        BY <1>1, <2>2 DEF Publish, ShapeInv
      <3>7. QED  BY <1>1, <2>2, <3>4, <3>5, <3>6, ExportPassed
    <2>3. QED  BY <1>6, <2>1, <2>2 DEF JoinHook
  <1>7. CASE EnableHook(hook)
    <2>1. CASE GiveUp("enable") /\ UNCHANGED image
      BY <2>1, GivenUpUntouched
    <2>2. CASE /\ image' = Overwrite(hook.cells, hook.installed)
               /\ records' = [i \in DOMAIN records |->
                     IF records[i].hook = hook
                     THEN [records[i] EXCEPT !.enabled = TRUE] ELSE records[i]]
               /\ position' = position + 1
               /\ UNCHANGED <<chosenVars, phase, approved, prepared, published, slots,
                              failure>>
      <3>1. /\ records' \in Seq([hook : AllSites, enabled : BOOLEAN])
            /\ DOMAIN records' = DOMAIN records
            /\ \A i \in DOMAIN records :
                  /\ records'[i].hook = records[i].hook
                  /\ records'[i].enabled = (records[i].hook = hook \/ records[i].enabled)
        <4>1. records' = Enabled(hook)
          BY <2>2 DEF Enabled
        <4>2. QED  BY <1>1, <4>1, RecordEnabled
      <3>2. PassedSites' = PassedSites /\ PassedExports' = PassedExports \cup {p}
        BY <1>1, <1>2, <2>2, ElementOf DEF PassedSites, PassedExports, chosenVars
      <3>3. (\A i \in DOMAIN records : RecordInv(records[i]))'
        <4> SUFFICES ASSUME NEW i \in DOMAIN records
                     PROVE  RecordInv(records[i])'
          BY <3>1
        <4>1. \/ \E j \in PassedSites' :
                    /\ records[i].hook = Planned(j)
                    /\ IsHook(records[i].hook) /\ records[i].enabled
              \/ \E j \in PassedExports' :
                    /\ records[i].hook = Export(j)
                    /\ records[i].hook = hook \/ records[i].enabled
          BY <1>1, <1>4, <3>2 DEF RecordInv
        <4>2. QED  BY <2>2, <3>1, <4>1 DEF RecordInv, Planned, Export, chosenVars
      <3>4. QED  BY <1>1, <2>2, <3>1, <3>3, ExportPassed
    <2>3. QED  BY <1>7, <2>1, <2>2 DEF EnableHook
  <1>8. QED  BY <1>5, <1>6, <1>7 DEF InstallExportHook, hook

LEMMA CompleteInv ==
    ASSUME StartupInv, Complete
    PROVE  StartupInv'
  <1>1. /\ ShapeInv /\ ApprovedInv /\ TouchInv /\ ProgressInv /\ RefusedInv
        /\ phase = "export_hooks" /\ position > Len(Exports[role])
        /\ position \in Nat \ {0} /\ Exports[role] \in Seq(ExportSites)
    BY ExportAssumption DEF StartupInv, Complete, ShapeInv
  <1>2. PassedSites = DOMAIN approved /\ PassedExports = DOMAIN Exports[role]
    <2>1. \A i \in DOMAIN Exports[role] : i < position
      BY <1>1, ElementOf
    <2>2. QED  BY <1>1, <2>1 DEF PassedSites, PassedExports
  <1>3. Missing = {}
    BY <1>1, <1>2 DEF ProgressInv, Missing, Planned, ReadOnly
  <1>4. CASE /\ Enter("running")
             /\ UNCHANGED <<chosenVars, image, approved, prepared, published, slots,
                            records, failure>>
    <2> USE <1>4 DEF Enter, chosenVars
    <2>1. PassedSites' = DOMAIN approved /\ PassedExports' = DOMAIN Exports[role]
      BY DEF PassedSites, PassedExports
    <2>2. ShapeInv' /\ RefusedInv' /\ ApprovedInv'
      BY <1>1 DEF ShapeInv, RefusedInv, ApprovedInv, Planned
    <2>3. TouchInv'
      BY <1>1 DEF TouchInv, Changed, Planned
    <2>4. (\A i \in DOMAIN records : RecordInv(records[i]))'
      <3>1. \A i \in DOMAIN records : RecordInv(records[i])
        BY <1>1 DEF ProgressInv
      <3>2. ~(position <= Len(Exports[role]))
        BY <1>1
      <3>3. QED  BY <1>1, <1>2, <2>1, <3>1, <3>2 DEF RecordInv, Planned, Export
    <2>5. ProgressInv'
      BY <1>1, <1>2, <2>1, <2>4 DEF ProgressInv, Planned, Export, Live
    <2>6. QED  BY <2>2, <2>3, <2>5 DEF StartupInv
  <1>5. QED  BY <1>3, <1>4 DEF Complete

LEMMA StartupStepInv ==
    ASSUME StartupInv, StartupStep
    PROVE  StartupInv'
  BY ValidateInv, ResolveExportsInv, PrepareInputInv, PrepareRuntimeInv,
     PublishSlotOriginalsInv, SkipSiteInv, WritePatchInv, ExchangeSlotInv,
     InstallSiteHookInv, CheckExportHooksInv, InstallExportHookInv, CompleteInv
  DEF StartupStep

LEMMA SameStartup ==
    ASSUME StartupInv, UNCHANGED startupVars
    PROVE  StartupInv'
  BY DEF StartupInv, startupVars, chosenVars, ShapeInv, ApprovedInv, TouchInv, ProgressInv,
         RefusedInv, PassedSites, PassedExports, RecordInv, Changed, Planned, Export, Live

-----------------------------------------------------------------------------
(* What the invariant says of the three properties.                        *)
LEMMA OriginalsKnown ==
    ASSUME StartupInv
    PROVE  LiveDetoursHaveOriginals
  <1>1. ShapeInv /\ ApprovedInv /\ TouchInv
    BY DEF StartupInv
  <1> SUFFICES ASSUME NEW i \in DOMAIN approved, Diverting(Planned(i)), Live(Planned(i))
               PROVE  /\ Planned(i).kind # "mid_hook" => Planned(i).site \in published
                      /\ Planned(i).feature \in RuntimeFeatures =>
                            Planned(i).feature \in prepared
    BY DEF LiveDetoursHaveOriginals, Planned
  <1>2. Planned(i) \in AllSites /\ Planned(i).cells \subseteq Cells
    BY <1>1, PlannedSite
  <1>3. PICK cell : cell \in Planned(i).cells /\ cell \in Planned(i).signature
    BY <1>2, SiteShape
  <1>4. image[cell] # initial_image[cell] /\ cell \in DOMAIN image
    <2>1. Planned(i).installed # "original"
      BY <1>2, SiteShape
    <2>2. initial_image[cell] = "original" /\ image[cell] = Planned(i).installed
      BY <1>1, <1>3 DEF ApprovedInv, Live, Holds
    <2>3. QED  BY <1>1, <1>2, <1>3, <2>1, <2>2, PlannedSite
  <1>5. image # initial_image
    BY <1>4
  <1>6. Changed(cell)
    BY <1>1, <1>4 DEF TouchInv
  <1>7. \A export \in ExportSites : cell \notin export.cells
    BY <1>1, <1>3, PlannedSite, ExportAssumption
  <1>8. PICK j \in DOMAIN approved :
           /\ approved[j].disposition = "install"
           /\ cell \in Planned(j).cells
           /\ Planned(j).kind \in {"inline_hook", "global_vtable_slot"} =>
                 Planned(j).site \in published
    BY <1>6, <1>7 DEF Changed
  <1>9. Planned(i).kind # "mid_hook" => Planned(i).site \in published
    <2>1. CASE j = i
      BY <1>8, <2>1 DEF Diverting, IsHook, IsSlot
    <2>2. CASE j # i
      <3>1. ~ReadOnly(Planned(i)) /\ ~ReadOnly(Planned(j))
        BY <1>1, <1>8 DEF ApprovedInv, Diverting, IsHook, IsSlot, ReadOnly
      <3>2. IsSlot(Planned(i))
        BY <1>1, <1>3, <1>8, <2>2, <3>1, SharedCell DEF SameSlot
      <3>3. QED  BY <1>1, <1>5, <3>2 DEF TouchInv
    <2>3. QED  BY <2>1, <2>2
  <1>10. Planned(i).feature \in RuntimeFeatures => Planned(i).feature \in prepared
    BY <1>1, <1>5 DEF TouchInv, ApprovedInv
  <1>11. QED  BY <1>9, <1>10

LEMMA CompleteWhenRunning ==
    ASSUME StartupInv
    PROVE  RunningIsComplete
  <1>1. ShapeInv /\ ProgressInv /\ RefusedInv
    BY DEF StartupInv
  <1>2. CASE phase = "running"
    <2>1. PassedSites = DOMAIN approved /\ PassedExports = DOMAIN Exports[role]
      BY <1>2 DEF PassedSites, PassedExports
    <2>2. \A i \in DOMAIN records : records[i].enabled
      <3>1. \A i \in DOMAIN records : RecordInv(records[i])
        BY <1>1, <1>2 DEF ProgressInv
      <3>2. QED  BY <1>2, <3>1 DEF RecordInv
    <2>3. QED  BY <1>1, <2>1, <2>2 DEF ProgressInv, RefusedInv, RunningIsComplete, Planned,
                                       Export
  <1>3. QED  BY <1>1, <1>2 DEF RefusedInv, RunningIsComplete

LEMMA ProvenWhenTouched ==
    ASSUME StartupInv
    PROVE  TouchedOnlyWhenProven
  <1>1. ApprovedInv /\ TouchInv
    BY DEF StartupInv
  <1>2. QED  BY <1>1 DEF ApprovedInv, TouchInv, TouchedOnlyWhenProven, ContractHolds, Planned

-----------------------------------------------------------------------------
(* The processes, one after the other.                                     *)
LEMMA StartingUpPhase ==
    ASSUME StartupStep
    PROVE  phase \notin {"running", "ended"}
  <1>1. CASE Validate \/ ResolveExports \/ PrepareInput \/ InputRefused
    BY <1>1 DEF Validate, ResolveExports, PrepareInput, InputRefused
  <1>2. CASE PrepareRuntime \/ PublishSlotOriginals
    BY <1>2 DEF PrepareRuntime, PublishSlotOriginals
  <1>3. CASE SkipSite \/ WritePatch \/ ExchangeSlot \/ InstallSiteHook
    BY <1>3 DEF SkipSite, WritePatch, ExchangeSlot, InstallSiteHook, AtSite
  <1>4. CASE CheckExportHooks \/ InstallExportHook \/ Complete
    BY <1>4 DEF CheckExportHooks, InstallExportHook, Complete
  <1>5. QED  BY <1>1, <1>2, <1>3, <1>4 DEF StartupStep

(* A start, the startup and an end leave the settings as a process finds   *)
(* them.                                                                   *)
LEMMA SettingsStartInv ==
    ASSUME SettingsInv, phase = "ended", phase' = "validate", SettingsStart
    PROVE  SettingsInv'
  <1>1. ReadAtStart(file) \in Offsets /\ (file \in Pairs => ReadAtStart(file) = file)
    BY PairsAreOffsets DEF ReadAtStart
  <1>2. QED
    BY <1>1 DEF SettingsInv, AtRest, FileIsLastSaved, SettingsStart, modelVars, saveVars

LEMMA SettingsEndInv ==
    ASSUME SettingsInv, phase' = "ended", SettingsEnd
    PROVE  SettingsInv'
  BY PairsAreOffsets DEF SettingsInv, AtRest, FileIsLastSaved, SettingsEnd

LEMMA SettingsWait ==
    ASSUME SettingsInv, phase \notin {"running", "ended"}, UNCHANGED settingsVars
    PROVE  SettingsInv'
  BY DEF SettingsInv, AtRest, FileIsLastSaved, settingsVars, diskVars, gameVars,
         modelVars, saveVars

LEMMA SameSettings ==
    ASSUME SettingsInv, UNCHANGED <<settingsVars, phase>>
    PROVE  SettingsInv'
  BY DEF SettingsInv, AtRest, FileIsLastSaved, settingsVars, diskVars, gameVars,
         modelVars, saveVars

ProcessInv == RuntimeInv /\ SettingsInv /\ StartupInv

LEMMA InitProcessInv == ProcessInit => ProcessInv
  <1> SUFFICES ASSUME ProcessInit PROVE ProcessInv
    OBVIOUS
  <1>1. RuntimeInv
    BY UnusedRuntime DEF ProcessInit, Init, Unused
  <1>2. SettingsInv
    BY PairsAreOffsets DEF ProcessInit, StartupInit, SettingsInit, SettingsInv, AtRest,
                           FileIsLastSaved
  <1>3. StartupInv
    BY NoProcess DEF ProcessInit, StartupInit
  <1>4. QED  BY <1>1, <1>2, <1>3 DEF ProcessInv

(* The runtime of a process that ends is as that of one that has not begun.*)
LEMMA EndedRuntime == InputEnds => RuntimeInv'
  <1>1. InputEnds => Unused'
    BY DEF InputEnds, Unused
  <1>2. (Unused => RuntimeInv)'
    BY UnusedRuntime, PTL
  <1>3. QED  BY <1>1, <1>2

LEMMA EndedStartup == Kill => StartupInv'
  <1> DEFINE none == /\ image = <<>> /\ initial_image = <<>> /\ phase = "ended"
                     /\ position = 1 /\ approved = <<>> /\ slots = {}
                     /\ records = <<>> /\ failure = "none"
  <1>1. Kill => none'
    BY DEF Kill
  <1>2. none => StartupInv
    BY NoProcess
  <1> HIDE DEF none
  <1>3. (none => StartupInv)'
    BY <1>2, PTL
  <1>4. QED  BY <1>1, <1>3

LEMMA NextProcessInv == ProcessInv /\ [ProcessNext]_processVars => ProcessInv'
  <1> SUFFICES ASSUME ProcessInv, [ProcessNext]_processVars
               PROVE  ProcessInv'
    OBVIOUS
  <1>0. RuntimeInv /\ SettingsInv /\ StartupInv
    BY DEF ProcessInv
  <1>1. CASE ProcessStarts
    <2>1. RuntimeInv'
      BY <1>0, <1>1, SameRuntime DEF ProcessStarts, vars, stateVars
    <2>2. SettingsInv'
      BY <1>0, <1>1, SettingsStartInv DEF ProcessStarts, Attach
    <2>3. StartupInv'
      BY <1>1, AttachInv DEF ProcessStarts
    <2>4. QED  BY <2>1, <2>2, <2>3 DEF ProcessInv
  <1>2. CASE StartingUp
    <2>1. UNCHANGED <<open_count, starting, stop_event, joinable, callVars, workerVars>>
      BY <1>2 DEF StartingUp, Configure, vars, stateVars
    <2>2. RuntimeInv'
      BY <1>0, <2>1, SameRuntime
    <2>3. SettingsInv'
      BY <1>0, <1>2, StartingUpPhase, SettingsWait DEF StartingUp
    <2>4. StartupInv'
      BY <1>0, <1>2, StartupStepInv DEF StartingUp
    <2>5. QED  BY <2>2, <2>3, <2>4 DEF ProcessInv
  <1>3. CASE ProcessEnds
    <2>1. SettingsInv'
      BY <1>0, <1>3, SettingsEndInv DEF ProcessEnds, Kill
    <2>2. StartupInv'
      BY <1>3, EndedStartup DEF ProcessEnds
    <2>3. QED  BY <1>3, <2>1, <2>2, EndedRuntime DEF ProcessEnds, ProcessInv
  <1>4. CASE InputStep
    <2>1. RuntimeInv'
      BY <1>0, <1>4, ClientRuntimeInv, WorkerRuntimeInv DEF InputStep
    <2>2. SettingsInv'
      BY <1>0, <1>4, SameSettings DEF InputStep, startupVars
    <2>3. StartupInv'
      BY <1>0, <1>4, SameStartup DEF InputStep
    <2>4. QED  BY <2>1, <2>2, <2>3 DEF ProcessInv
  <1>5. CASE TestModeStep
    <2>1. RuntimeInv'
      BY <1>0, <1>5, SameRuntime DEF TestModeStep, vars, stateVars
    <2>2. SettingsInv'
      BY <1>0, <1>5, SettingsStepInv DEF TestModeStep, Uses, startupVars
    <2>3. StartupInv'
      BY <1>0, <1>5, SameStartup DEF TestModeStep
    <2>4. QED  BY <2>1, <2>2, <2>3 DEF ProcessInv
  <1>6. CASE UNCHANGED processVars
    <2>1. RuntimeInv'
      BY <1>0, <1>6, SameRuntime DEF processVars, vars, stateVars
    <2>2. SettingsInv'
      BY <1>0, <1>6, SameSettings DEF processVars, startupVars
    <2>3. StartupInv'
      BY <1>0, <1>6, SameStartup DEF processVars
    <2>4. QED  BY <2>1, <2>2, <2>3 DEF ProcessInv
  <1>7. QED
    BY <1>1, <1>2, <1>3, <1>4, <1>5, <1>6 DEF ProcessNext

LEMMA ProcessInvariant == ProcessSpec => []ProcessInv
  BY InitProcessInv, NextProcessInv, PTL DEF ProcessSpec

(* CloseInputPollingRuntime and WorkerMain: however the worker ends, after *)
(* a stop, a failure to start or a death of its own, no control stays held *)
(* and no epoch stays active.                                              *)
THEOREM WorkerLeavesNothing == ProcessSpec => []NothingHeldWithoutWorker
  <1>1. ProcessInv => NothingHeldWithoutWorker
    BY DEF ProcessInv, RuntimeInv
  <1>2. QED
    BY ProcessInvariant, <1>1, PTL

(* OpenInputPollingRuntime never assigns to a thread object that still     *)
(* owns a thread, and the stop event outlives the worker that waits on it. *)
THEOREM WorkerIsOwned == ProcessSpec => []OneOwnedWorker
  <1>1. ProcessInv => OneOwnedWorker
    BY DEF ProcessInv, RuntimeInv
  <1>2. QED
    BY ProcessInvariant, <1>1, PTL

(* open_count is the number of opens that any number of game threads hold, *)
(* nested and concurrent ones and failed ones included, and only the close *)
(* of the last of them signals the stop event.                             *)
THEOREM WorkerStopsUnused == ProcessSpec => []StopsOnlyWhenUnused
  <1>1. ProcessInv => StopsOnlyWhenUnused
    BY DEF ProcessInv, RuntimeInv
  <1>2. QED
    BY ProcessInvariant, <1>1, PTL

(* SystemConfigTimingStore::Save and ApplyLiveTiming: through failed calls *)
(* and ended processes the file holds the last accepted pair or is lost,   *)
(* and a form left as saved agrees with the file and with the game.        *)
THEOREM SettingsAreKept == ProcessSpec => []SettingsKept
  <1>1. ProcessInv => SettingsKept
    BY SettingsKeptHolds DEF ProcessInv
  <1>2. QED
    BY ProcessInvariant, <1>1, PTL

(* VersionedPlanTransaction: whatever has been approved, adopted or        *)
(* written when the other code of the game reaches a diverted site, the    *)
(* original that its detour calls has been set.                            *)
THEOREM DetoursReachOriginals == ProcessSpec => []LiveDetoursHaveOriginals
  <1>1. ProcessInv => LiveDetoursHaveOriginals
    BY OriginalsKnown DEF ProcessInv
  <1>2. QED
    BY ProcessInvariant, <1>1, PTL

(* VersionedPlanTransaction and ExportHookSet: a startup that returns to   *)
(* the loader leaves every approved site, record and export installed, and *)
(* no late check of a registry refuses it over a changed image.            *)
THEOREM RunningIsInstalled == ProcessSpec => []RunningIsComplete
  <1>1. ProcessInv => RunningIsComplete
    BY CompleteWhenRunning DEF ProcessInv
  <1>2. QED
    BY ProcessInvariant, <1>1, PTL

(* ValidateContext and ValidateSite: no byte of the game changes unless    *)
(* all that the plan expects of the image was found in it.                 *)
THEOREM OnlyProvenImagesTouched == ProcessSpec => []TouchedOnlyWhenProven
  <1>1. ProcessInv => TouchedOnlyWhenProven
    BY ProvenWhenTouched DEF ProcessInv
  <1>2. QED
    BY ProcessInvariant, <1>1, PTL
=============================================================================
