--------------------------- MODULE RequestTracking --------------------------
(***************************************************************************)
(* The diagnostics of the service's requests (Nesys/Diagnostics). Every    *)
(* hooked call of a thread is three steps: its detour looks whether the    *)
(* handle is tracked, under a shared lock; the system performs the call;   *)
(* the detour enters the outcome into tables of a fixed size, under an     *)
(* exclusive lock, and reports what has come to its end. Between two of    *)
(* these steps other threads call, and the system may give out again a     *)
(* handle value whose close has returned and is not yet observed.          *)
(*                                                                         *)
(* In the game only the calls for pipes are observed. Messages and         *)
(* requests that are not about a card are ignored and left out, as are     *)
(* durations but for vendor logs, whose reports depend on them. The caller *)
(* uses an open object from one thread at a time.                          *)
(***************************************************************************)
EXTENDS Integers, Sequences
Sets == INSTANCE FiniteSetsExt

CONSTANTS
    Callers,                 \* the threads
    FileHandles,             \* values of the handles of pipes and logs
    HttpHandles,             \* values of the handles of WinHTTP
    TableSizes,                   \* [kind -> the size of its table]
    kLogAggregateWindowMs,
    kSlowLogRateWindowMs,
    kSlowLogRateLimit,
    kSlowLogRecordMs,
    MaxCalls,                \* bound: calls of files
    MaxHttpCalls,            \* bound: calls of WinHTTP
    MaxNow                   \* bound: the clock

VARIABLES
    kinds,      \* what the service opens: files, or requests; they share
                \* no table
    now,        \* GetTickCount64
    native,     \* the system: [handle -> the open object, or NoObject]
    calls,      \* the calls so far; an object is named by the call that
                \* opened it
    detour,     \* what each thread does
    tables,     \* [kind -> its slots]
    sequence,   \* [kind -> the last number given to a message or record]
    aggregate,  \* g_log_aggregate
    rate,       \* g_slow_rate_started_ms, g_slow_rate_emitted
    emitted,    \* history: the reports of messages, records and requests
    observed,   \* history: [object -> the calls entered for it]
    log_totals, \* history: of all log records, and of the aggregates reported
    untracked,  \* history: objects without a slot, or whose close failed
    reused      \* history: a handle was given out before its close was
                \* observed

Handles   == FileHandles \cup HttpHandles
FileKinds == {"pipe", "log"}
HttpKinds == {"session", "connection", "request"}
Kinds     == FileKinds \cup HttpKinds
Objects   == 1..Sets!Max({MaxCalls, MaxHttpCalls})
HandlesOf(kind) == IF kind \in FileKinds THEN FileHandles ELSE HttpHandles

NoHandle == 0
NoObject == [id |-> 0, kind |-> "none", parent |-> NoHandle, session |-> 0]

(* A handle is a number and not NULL; no pipe or log has the value of a    *)
(* handle of WinHTTP.                                                      *)
ASSUME TrackingAssumption ==
    /\ FileHandles \subseteq Nat \ {NoHandle}
    /\ HttpHandles \subseteq Nat \ {NoHandle}
    /\ FileHandles \cap HttpHandles = {}
    /\ TableSizes \in [Kinds -> Nat]
    /\ MaxCalls \in Nat /\ MaxHttpCalls \in Nat

(* One record serves all tables: a pipe's pending message, the calls of a  *)
(* log or request, the session handle of a connection, the session found   *)
(* for a request, beside its own.                                          *)
Entry(handle, object) ==
    [handle |-> handle, object |-> object, sequence |-> 0, started |-> 0,
     calls |-> 0, failed |-> FALSE, pending |-> 0, parent |-> NoHandle,
     session |-> 0, own_session |-> 0]
NoEntry == Entry(NoHandle, 0)

NoAggregate == [started |-> 0, records |-> 0, slow |-> 0, suppressed |-> 0]

AtRest == [at |-> "idle"]

ledgerVars == <<tables, sequence, aggregate, rate, emitted, observed,
                log_totals, untracked>>
trackingVars == <<kinds, now, native, calls, detour, ledgerVars, reused>>

TrackingInit ==
    /\ kinds \in {FileKinds, HttpKinds}
    /\ now = 1
    /\ native = [h \in Handles |-> NoObject]
    /\ calls = 0
    /\ detour = [t \in Callers |-> AtRest]
    /\ tables = [kind \in Kinds |-> [i \in 1..TableSizes[kind] |-> NoEntry]]
    /\ sequence = [kind \in {"pipe", "log", "request"} |-> 0]
    /\ aggregate = NoAggregate /\ rate = [started |-> 0, emitted |-> 0]
    /\ emitted = <<>>
    /\ observed = [id \in Objects |-> 0]
    /\ log_totals = [records |-> 0, slow |-> 0, told |-> 0,
                     aggregated |-> NoAggregate]
    /\ untracked = {} /\ reused = FALSE

-----------------------------------------------------------------------------
(* find_pipe_locked and its siblings; with NoHandle, the free slots.       *)
SlotsWith(kind, handle) ==
    {i \in DOMAIN tables[kind] : tables[kind][i].handle = handle}
IsTracked(kind, handle) == SlotsWith(kind, handle) # {}
SlotOf(kind, handle)    == Sets!Min(SlotsWith(kind, handle))

(* tracked_handle_kind: pipes first.                                       *)
TrackedKind(handle) ==
    IF IsTracked("pipe", handle) THEN "pipe"
    ELSE IF IsTracked("log", handle) THEN "log"
    ELSE "none"

(* The first step of a detour. WinHTTP's do not look at the tables.        *)
InUse(id) ==
    \E t \in Callers :
       \/ detour[t].at # "idle" /\ detour[t].target = id
       \/ detour[t].at = "returned" /\ detour[t].object.id = id

Enter(t, op, kind, handle) ==
    /\ detour[t].at = "idle"
    /\ calls < IF kinds = FileKinds THEN MaxCalls ELSE MaxHttpCalls
    /\ handle # NoHandle => native[handle] # NoObject /\ ~InUse(native[handle].id)
    /\ calls' = calls + 1
    /\ detour' = [detour EXCEPT ![t] =
          [at |-> "entered", number |-> calls', op |-> op, kind |-> kind,
           handle |-> handle, started |-> now, parent |-> NoObject,
           target |-> IF handle = NoHandle THEN 0 ELSE native[handle].id]]
    /\ UNCHANGED <<kinds, now, native, ledgerVars, reused>>

(* A connection is opened on a session and a request on a connection.      *)
EnterOpen(t, kind) ==
    \/ kind \in FileKinds \cup {"session"} /\ Enter(t, "open", kind, NoHandle)
    \/ \E handle \in HttpHandles :
          /\ <<native[handle].kind, kind>> \in
                {<<"session", "connection">>, <<"connection", "request">>}
          /\ Enter(t, "open", kind, handle)

OpsOf(kind) ==
    CASE kind = "pipe"       -> {"write", "flush", "close"}
      [] kind = "connection" -> {"close"}
      [] OTHER               -> {"use", "close"}

EnterCall(t) ==
    \E handle \in Handles : \E op \in OpsOf(native[handle].kind) :
       Enter(t, op, IF handle \in HttpHandles THEN native[handle].kind
                                              ELSE TrackedKind(handle), handle)

-----------------------------------------------------------------------------
(* The system. It gives out the lowest free value, so that a value comes   *)
(* back as early as it can. WinHTTP keeps an object, and its handle value, *)
(* while one that was opened on it is open.                                *)
Vacant(handle) ==
    /\ native[handle] = NoObject
    /\ \A h \in HttpHandles : native[h].parent # handle

LowestVacant(kind) ==
    LET vacant == {h \in HandlesOf(kind) : Vacant(h)}
    IN {h \in vacant : \A other \in vacant : h <= other}

NewObject(call) ==
    [id |-> call.number, kind |-> call.kind, parent |-> call.handle,
     session |-> IF call.kind = "session" THEN call.number
                 ELSE IF call.handle = NoHandle THEN 0
                 ELSE native[call.handle].session]

Return(t, handle, object, result) ==
    detour' = [detour EXCEPT ![t] =
       [at |-> "returned", op |-> @.op, kind |-> @.kind, handle |-> handle,
        object |-> object, started |-> @.started, finished |-> now,
        result |-> result, target |-> @.target, parent |-> @.handle]]

IsUnobserved(handle) ==
    \E t \in Callers : /\ detour[t].at = "returned" /\ detour[t].op = "close"
                       /\ detour[t].handle = handle

NativeOpen(t) ==
    LET call == detour[t] IN
    /\ call.op = "open"
    /\ \/ /\ Return(t, NoHandle, [NewObject(call) EXCEPT !.parent = NoHandle],
                    "failed")
          /\ UNCHANGED <<native, reused>>
       \/ \E handle \in LowestVacant(call.kind) :
             /\ native' = [native EXCEPT ![handle] = NewObject(call)]
             /\ Return(t, handle, NewObject(call), "ok")
             /\ reused' = (reused \/ IsUnobserved(handle))

(* A close that fails leaves the object open. A write that is pending is   *)
(* as good as done.                                                        *)
NativeUse(t) ==
    LET call == detour[t] IN
    /\ call.op # "open"
    /\ \E result \in {"ok", "failed"} :
          /\ Return(t, call.handle, native[call.handle], result)
          /\ native' = IF call.op = "close" /\ result = "ok"
                       THEN [native EXCEPT ![call.handle] = NoObject]
                       ELSE native
    /\ UNCHANGED reused

NativeCall(t) ==
    /\ detour[t].at = "entered"
    /\ NativeOpen(t) \/ NativeUse(t)
    /\ UNCHANGED <<kinds, now, calls, ledgerVars>>

-----------------------------------------------------------------------------
SetSlot(kind, slot, entry) == tables' = [tables EXCEPT ![kind][slot] = entry]
Number(kind) == sequence' = [sequence EXCEPT ![kind] = @ + 1]
NextNumber(kind) == sequence[kind] + 1

Emit(kind, entry, number, stage) ==
    emitted' = Append(emitted,
       [kind |-> kind, number |-> number, object |-> entry.object,
        calls |-> entry.calls, session |-> entry.session,
        own_session |-> entry.own_session, stage |-> stage])

(* Mutant: a full table gives up its first entry.                          *)
TrackOverFirst(kind, entry) ==
    /\ SetSlot(kind, IF IsTracked(kind, NoHandle) THEN SlotOf(kind, NoHandle)
                                                  ELSE 1, entry)
    /\ UNCHANGED untracked

(* A table without a free slot leaves the object untracked.                *)
Track(kind, entry) ==
    IF IsTracked(kind, NoHandle)
    THEN SetSlot(kind, SlotOf(kind, NoHandle), entry) /\ UNCHANGED untracked
    ELSE untracked' = untracked \cup {entry.object} /\ UNCHANGED tables

logVars == <<aggregate, rate, log_totals>>

(* process_log_record_locked. Threads observe in another order than they   *)
(* finish, so a record may lie before the start of either window.          *)
WindowEnds(finished) ==
    /\ aggregate.records # 0
    /\ finished - aggregate.started >= kLogAggregateWindowMs

RateEnds(finished) ==
    \/ rate.started = 0
    \/ finished < rate.started
    \/ finished - rate.started >= kSlowLogRateWindowMs

One(condition) == IF condition THEN 1 ELSE 0

AddToAggregate(base, finished, slow, told) ==
    [started    |-> IF base.records = 0 THEN finished ELSE base.started,
     records    |-> base.records + 1,
     slow       |-> base.slow + One(slow),
     suppressed |-> base.suppressed + One(slow /\ ~told)]

ProcessLogRecord(entry, failed, finished) ==
    LET slow  == failed \/ finished - entry.started >= kSlowLogRecordMs
        ended == WindowEnds(finished)
        spent == IF RateEnds(finished) THEN 0 ELSE rate.emitted
        told  == slow /\ spent < kSlowLogRateLimit
        sums  == log_totals.aggregated
    IN /\ aggregate' = AddToAggregate(IF ended THEN NoAggregate ELSE aggregate,
                                      finished, slow, told)
       /\ rate' = [started |-> IF RateEnds(finished) THEN finished
                                                     ELSE rate.started,
                   emitted |-> spent + One(told)]
       /\ IF told THEN Emit("log", entry, entry.sequence, "close")
                  ELSE UNCHANGED emitted
       /\ log_totals' =
             [records |-> log_totals.records + 1,
              slow    |-> log_totals.slow + One(slow),
              told    |-> log_totals.told + One(told),
              aggregated |->
                 IF ended THEN [k \in DOMAIN sums |-> sums[k] + aggregate[k]]
                          ELSE sums]

-----------------------------------------------------------------------------
(* The observations of opened handles. A pipe whose value is tracked       *)
(* already is entered in its place, a log and the others are not.          *)
ObservePipeOpen(call) ==
    LET entry == Entry(call.handle, call.object.id) IN
    /\ call.kind = "pipe"
    /\ \/ call.result = "failed" /\ UNCHANGED <<tables, untracked>>
       \/ /\ call.result = "ok" /\ ~IsTracked("pipe", call.handle)
          /\ Track("pipe", entry)
       \/ /\ call.result = "ok" /\ IsTracked("pipe", call.handle)
          /\ SetSlot("pipe", SlotOf("pipe", call.handle), entry)
          /\ UNCHANGED untracked
    /\ UNCHANGED <<sequence, logVars, emitted>>

ObserveLogOpen(call) ==
    LET entry == [Entry(call.handle, call.object.id) EXCEPT
                     !.sequence = NextNumber("log"), !.started = call.started]
    IN /\ call.kind = "log"
       /\ \/ /\ call.result = "failed" /\ Number("log")
             /\ ProcessLogRecord(entry, TRUE, call.finished)
             /\ UNCHANGED <<tables, untracked>>
          \/ /\ call.result = "ok" /\ Track("log", entry)
             /\ IF IsTracked("log", NoHandle) THEN Number("log")
                                              ELSE UNCHANGED sequence
             /\ UNCHANGED <<logVars, emitted>>

(* WinHttpOpen and WinHttpConnect.                                         *)
ObserveHttpOpen(call) ==
    /\ call.kind \in {"session", "connection"}
    /\ \/ call.result = "failed" /\ UNCHANGED <<tables, untracked>>
       \/ /\ call.result = "ok"
          /\ Track(call.kind, [Entry(call.handle, call.object.id) EXCEPT
                                  !.parent = call.parent])
    /\ UNCHANGED <<sequence, logVars, emitted>>

(* WinHttpOpenRequest: the session is the one tracked under the handle the *)
(* connection was opened on. What gets no slot is reported at once.        *)
KnownSession(connection) ==
    IF ~IsTracked("connection", connection) THEN 0
    ELSE LET session == tables["connection"]
                           [SlotOf("connection", connection)].parent
         IN IF ~IsTracked("session", session) THEN 0
            ELSE tables["session"][SlotOf("session", session)].object

ObserveHttpOpenRequest(call) ==
    LET entry == [Entry(call.handle, call.object.id) EXCEPT
                     !.sequence = NextNumber("request"),
                     !.session = KnownSession(call.parent),
                     !.own_session = call.object.session]
        kept  == call.result = "ok" /\ IsTracked("request", NoHandle)
    IN /\ call.kind = "request"
       /\ Number("request")
       /\ \/ kept /\ Track("request", entry) /\ UNCHANGED emitted
          \/ /\ ~kept
             /\ Emit("request", entry, entry.sequence, "open")
             /\ untracked' = untracked \cup {entry.object}
             /\ UNCHANGED tables
       /\ UNCHANGED logVars

(* A message replaces one that was not flushed; one that could not be      *)
(* written is reported at once.                                            *)
ObservePipeWrite(call, slot) ==
    LET pipe == tables["pipe"][slot] IN
    /\ call.op = "write"
    /\ Number("pipe")
    /\ \/ /\ call.result = "failed"
          /\ SetSlot("pipe", slot, [pipe EXCEPT !.pending = 0])
          /\ Emit("pipe", pipe, NextNumber("pipe"), "write")
       \/ /\ call.result # "failed"
          /\ SetSlot("pipe", slot, [pipe EXCEPT !.pending = NextNumber("pipe")])
          /\ UNCHANGED emitted

(* Mutant: a flush that failed leaves the message pending.                 *)
FlushKeepingFailed(call, slot) ==
    LET pipe == tables["pipe"][slot] IN
    /\ call.op = "flush" /\ pipe.pending # 0
    /\ Emit("pipe", pipe, pipe.pending, "flush")
    /\ SetSlot("pipe", slot, [pipe EXCEPT !.pending =
                                 IF call.result = "ok" THEN 0 ELSE @])
    /\ UNCHANGED sequence

ObservePipeFlush(call, slot) ==
    LET pipe == tables["pipe"][slot] IN
    /\ call.op = "flush" /\ pipe.pending # 0
    /\ Emit("pipe", pipe, pipe.pending, "flush")
    /\ SetSlot("pipe", slot, [pipe EXCEPT !.pending = 0])
    /\ UNCHANGED sequence

(* forget_pipe, also after a close that failed.                            *)
ForgetPipe(call, slot) ==
    LET pipe == tables["pipe"][slot] IN
    /\ call.op = "close"
    /\ SetSlot("pipe", slot, NoEntry)
    /\ IF pipe.pending = 0 THEN UNCHANGED emitted
       ELSE Emit("pipe", pipe, pipe.pending, "close_without_flush")
    /\ UNCHANGED sequence

ObservePipeCall(call) ==
    /\ call.kind = "pipe"
    /\ LET slot == SlotOf("pipe", call.handle) IN
       \/ ObservePipeWrite(call, slot)
       \/ ObservePipeFlush(call, slot)
       \/ ForgetPipe(call, slot)
    /\ UNCHANGED <<logVars, observed>>

(* A seek or write of a log, the time-outs of a session, the four calls of *)
(* a request: counted, and a failure remembered.                           *)
ObserveUse(call) ==
    LET slot == SlotOf(call.kind, call.handle) IN
    /\ call.kind # "pipe" /\ call.op \in {"use", "write"}
    /\ SetSlot(call.kind, slot,
               [tables[call.kind][slot] EXCEPT !.calls = @ + 1,
                                     !.failed = @ \/ call.result # "ok"])
    /\ observed' = [observed EXCEPT ![call.object.id] = @ + 1]
    /\ UNCHANGED <<sequence, logVars, emitted>>

ObserveLogClose(call) ==
    LET slot  == SlotOf("log", call.handle)
        entry == tables["log"][slot]
    IN /\ call.kind = "log" /\ call.op = "close"
       /\ SetSlot("log", slot, NoEntry)
       /\ ProcessLogRecord(entry, entry.failed \/ call.result = "failed",
                           call.finished)
       /\ UNCHANGED <<sequence, observed>>

(* observe_http_close: the first table that knows the handle.              *)
ObserveHttpClose(call) ==
    LET kind == IF IsTracked("request", call.handle) THEN "request"
                ELSE IF IsTracked("connection", call.handle) THEN "connection"
                ELSE "session"
        slot == SlotOf(kind, call.handle)
    IN /\ call.kind \in HttpKinds /\ call.op = "close"
       /\ SetSlot(kind, slot, NoEntry)
       /\ IF kind # "request" THEN UNCHANGED emitted
          ELSE Emit("request", tables[kind][slot],
                    tables[kind][slot].sequence, "close")
       /\ UNCHANGED <<sequence, logVars, observed>>

(* What no table knows, or was taken for something else, is passed over.   *)
Passed(call) ==
    \/ call.kind = "none"
    \/ /\ call.kind \in HttpKinds /\ call.op = "close"
       /\ \A kind \in HttpKinds : ~IsTracked(kind, call.handle)
    \/ /\ call.kind \in FileKinds \/ call.op = "use"
       /\ ~IsTracked(call.kind, call.handle)
    \/ call.kind = "log" /\ call.op = "flush"
    \/ call.kind = "pipe" /\ call.op = "use"
    \/ /\ call.kind = "pipe" /\ call.op = "flush"
       /\ tables["pipe"][SlotOf("pipe", call.handle)].pending = 0

ObserveOpen(call) ==
    /\ call.op = "open"
    /\ \/ ObservePipeOpen(call) \/ ObserveLogOpen(call)
       \/ ObserveHttpOpen(call) \/ ObserveHttpOpenRequest(call)
    /\ UNCHANGED observed

ObserveCall(call) ==
    /\ call.op # "open"
    /\ IF Passed(call)
       THEN UNCHANGED <<tables, sequence, logVars, emitted, observed>>
       ELSE \/ ObservePipeCall(call) \/ ObserveUse(call)
            \/ ObserveLogClose(call) \/ ObserveHttpClose(call)
    /\ untracked' = IF call.op = "close" /\ call.result = "failed"
                    THEN untracked \cup {call.object.id} ELSE untracked

Observe(t) ==
    /\ detour[t].at = "returned"
    /\ ObserveOpen(detour[t]) \/ ObserveCall(detour[t])
    /\ detour' = [detour EXCEPT ![t] = AtRest]
    /\ UNCHANGED <<kinds, now, native, calls, reused>>

(* Only logs look at the clock.                                           *)
ClockTicks ==
    /\ kinds = FileKinds /\ now < MaxNow
    /\ now' = now + 1
    /\ UNCHANGED <<kinds, native, calls, detour, ledgerVars, reused>>

TrackingNext ==
    \/ \E t \in Callers :
          \/ \E kind \in kinds : EnterOpen(t, kind)
          \/ EnterCall(t)
          \/ NativeCall(t)
          \/ Observe(t)
    \/ ClockTicks

TrackingSpec == TrackingInit /\ [][TrackingNext]_trackingVars

-----------------------------------------------------------------------------
(* Values are those the code's variables can have.                         *)
TrackingTypeOK ==
    /\ now \in 1..MaxNow /\ calls \in 0..Sets!Max(Objects)
    /\ \A kind \in Kinds : \A i \in 1..TableSizes[kind] :
          tables[kind][i].handle \in HandlesOf(kind) \cup {NoHandle}
    /\ rate.emitted \in 0..kSlowLogRateLimit
    /\ untracked \subseteq Objects /\ reused \in BOOLEAN

(* While no call is under way the tables hold exactly the open objects: no *)
(* entry outlives its object and uses up its table, whichever thread       *)
(* closes it and in whatever order its parents are closed.                 *)
TablesExact ==
    ~reused /\ (\A t \in Callers : detour[t].at = "idle") =>
       \A kind \in kinds :
          {tables[kind][i].object : i \in 1..TableSizes[kind]} \ ({0} \cup untracked)
             = {native[h].id : h \in {g \in Handles : native[g].kind = kind}}
                  \ untracked

(* A report of a log or request counts the calls of its own object, and a  *)
(* request is told the times of its own session or none.                   *)
ReportsOwn ==
    ~reused =>
       \A i \in DOMAIN emitted :
          /\ emitted[i].kind # "pipe" =>
                emitted[i].calls = observed[emitted[i].object]
          /\ emitted[i].session \in {0, emitted[i].own_session}

(* No message, record or request is reported twice, also when a handle     *)
(* value comes back before its close was observed.                         *)
ReportedOnce ==
    \A i, j \in DOMAIN emitted :
       i # j => <<emitted[i].kind, emitted[i].number>>
                   # <<emitted[j].kind, emitted[j].number>>

(* Every log record is in one aggregate, and every slow one is reported or *)
(* counted as suppressed there, in whatever order the threads observe.     *)
LogsAccounted ==
    LET sums == log_totals.aggregated IN
    /\ sums.records + aggregate.records = log_totals.records
    /\ sums.slow + aggregate.slow = log_totals.slow
    /\ sums.suppressed + aggregate.suppressed + log_totals.told = log_totals.slow

(* The tables and reports of the request diagnostics agree with what the   *)
(* service did.                                                            *)
RequestsTold == TablesExact /\ ReportsOwn /\ ReportedOnce /\ LogsAccounted
=============================================================================
