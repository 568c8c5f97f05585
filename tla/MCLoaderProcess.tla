-------------------------- MODULE MCLoaderProcess --------------------------
(* Each kind of site; a slot with two consumers, a patch that a later hook *)
(* overlaps beyond its first cell, a contract that is only read; a known    *)
(* file with one of its two patches, an unknown one with the other, and an *)
(* unknown one that differs.                                               *)
EXTENDS LoaderProcess

MCSite(feature, site, kind, cells, dispatcher) ==
    [feature |-> feature, site |-> site, kind |-> kind, cells |-> cells,
     signature |-> cells, installed |-> kind, installed_in |-> {},
     dispatcher |-> dispatcher]

MCCompat == <<
    [MCSite("compat", "first_patch", "byte_patch", {1}, "none")
        EXCEPT !.installed_in = {"legacy_patched"}],
    MCSite("compat", "second_patch", "byte_patch", {2, 9}, "none")>>
MCJudge == <<
    [MCSite("judge", "hook", "inline_hook", {3, 4}, "none") EXCEPT !.signature = {3}],
    MCSite("judge", "contract", "read_only_contract", {5}, "none")>>
MCWide == <<
    MCSite("wide", "first", "global_vtable_slot", {6}, "none"),
    MCSite("wide", "second", "global_vtable_slot", {6}, "none"),
    MCSite("wide", "mid", "mid_hook", {7}, "none")>>
MCFreeze == <<MCSite("freeze", "limit", "byte_patch", {4}, "none")>>
MCPing == <<MCSite("ping", "ping", "mid_hook", {7}, "none")>>

MCOperations == [compat |-> MCCompat, judge |-> MCJudge, wide |-> MCWide,
                 freeze |-> MCFreeze, ping |-> MCPing]
MCPlans == [game |-> {<<"compat", "wide", "judge">>,
                      <<"compat", "judge", "freeze">>},
            service |-> {<<>>, <<"ping">>}]
MCExports == [
    game |-> <<MCSite("path", "path_open", "inline_hook", {8}, "kernel32"),
               MCSite("rfid", "rfid_open", "inline_hook", {8}, "kernel32")>>,
    service |-> <<MCSite("locale", "locale_open", "inline_hook", {8}, "none")>>]

MCImage(cells) ==
    [cell \in 1 .. 9 |-> IF cell \in cells THEN "byte_patch" ELSE "original"]
MCImages == {
    [contents |-> MCImage({1}), variant |-> "legacy_patched"],
    [contents |-> MCImage({2, 9}), variant |-> "locally_verified"],
    [contents |-> [MCImage({1}) EXCEPT ![5] = "other"],
     variant |-> "locally_verified"]}
MCStartFiles == {[game_ms |-> 0, judge_ms |-> 0], [game_ms |-> 2, judge_ms |-> 1]}
=============================================================================
