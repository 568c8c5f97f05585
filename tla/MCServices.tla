----------------------------- MODULE MCServices -----------------------------
(* Parts of the loader that share no state, checked side by side: a        *)
(* behaviour is one of a part, while the others rest in their first state. *)
(*                                                                         *)
(* Card reader: one card whose data holds a byte that is escaped, answers  *)
(* of a byte each, two scans, and requests that reach every command, alone *)
(* and together, one with an escape that a write cuts; frames are written  *)
(* and replies read in pieces or whole.                                    *)
(* Request tracking: two threads; tables of two pipes and two logs, of one *)
(* session, connection and request.                                        *)
EXTENDS CardReader, RequestTracking

VARIABLE part

MCCards == {<<224>>}
MCIdentity == [c \in 16..20 |-> <<c>>]
Request(address, payload) == [address |-> address, payload |-> payload]
MCRequests == {
    Request(255, <<240, 217, 241, 1, 241>>), Request(255, <<240>>),
    Request(1, <<240>>), Request(1, <<241>>),
    Request(1, <<16, 1, 0, 4, 5, 1>>),
    Request(1, <<32, 1, 1, 33, 2, 38, 1, 0, 50, 2>>),
    Request(1, <<38, 254>>), Request(1, <<47>>),
    Request(1, <<49, 1, 63, 255, 48, 1, 63, 255, 48, 3, 0, 0, 49>>),
    Request(1, <<33, 2, 33, 2, 50, 0>>), Request(1, <<50, 1, 208>>), Request(1, <<4, 2>>), Request(1, <<4, 47>>), Request(1, <<50>>) }
MCNoisy == {Request(1, <<47>>)}

MCTableSizes ==
    [kind \in Kinds |-> IF kind \in FileKinds THEN 2 ELSE 1]
MCSymmetry == Permutations(Callers)

serviceVars == <<vars, trackingVars, part>>

(* A process without the diagnostics.                                      *)
NotTracking ==
    /\ kinds = {} /\ now = 0 /\ native = <<>> /\ calls = 0 /\ detour = <<>>
    /\ tables = <<>> /\ sequence = <<>> /\ rate = <<>> /\ emitted = <<>>
    /\ observed = <<>> /\ untracked = {} /\ reused = TRUE
    /\ aggregate = NoAggregate
    /\ log_totals = [records |-> 0, slow |-> 0, told |-> 0,
                     aggregated |-> NoAggregate]

ServicesInit ==
    /\ Init
    /\ \/ part = "card" /\ NotTracking
       \/ part = "tracking" /\ TrackingInit

ServicesNext ==
    \/ part = "card" /\ Next /\ UNCHANGED <<trackingVars, part>>
    \/ part = "tracking" /\ TrackingNext /\ UNCHANGED <<vars, part>>

ServicesSpec == ServicesInit /\ [][ServicesNext]_serviceVars
=============================================================================
