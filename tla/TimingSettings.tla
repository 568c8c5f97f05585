-------------------------- MODULE TimingSettings ---------------------------
(***************************************************************************)
(* The timing settings of the test mode: a form in which the two offsets   *)
(* are edited, and the save, which rewrites them in data\system.cfg        *)
(* (TimingSettingsModel, TimingSettingsPatch, SystemConfigTimingStore).    *)
(* Everything runs on the game's thread, one call of the file system after *)
(* the other; the process may end between any two of them, any of them may *)
(* fail, and what is on the disk outlives the process.                     *)
(*                                                                         *)
(* Of the file the model keeps the pair of offsets, or that it has no such *)
(* pair, or that it is gone; the store copies every other byte.            *)
(***************************************************************************)
EXTENDS Integers

CONSTANTS
    MinimumOffset,     \* kMinimumOffsetMs, kMaximumOffsetMs
    MaximumOffset,
    StartFiles,        \* the pairs an edited file may hold, out of range too
    MaxAttempts,       \* the sixteen temporary names of a process
    Malformed, Lost,   \* a file without the two assignments; no file
    Partial            \* a file that is not completely written

ASSUME SettingsAssumption ==
    /\ MinimumOffset \in Int /\ MaximumOffset \in Int
    /\ MinimumOffset <= 0 /\ 0 <= MaximumOffset
    /\ StartFiles \subseteq [game_ms : Int, judge_ms : Int]
    /\ MaxAttempts \in Nat \ {0}

InRange   == MinimumOffset .. MaximumOffset
Pairs     == StartFiles \cup [game_ms : InRange, judge_ms : InRange]

ASSUME LostIsNoPair == Lost \notin Pairs

NoOffsets == [game_ms |-> 0, judge_ms |-> 0]
Rows      == {"game_ms", "judge_ms"}

VARIABLES
    file,              \* system.cfg: a pair, Malformed or Lost
    taken,             \* the attempts whose temporary file exists
    temporary,         \* what the file of the save under way holds
    live,              \* the two globals of the game
    manager,           \* what the native setters were given
    form,              \* "none", "menu" (without the form), "ready", "open"
    original, staged,  \* TimingSettingsModel
    status,            \* "idle", "failed" or "succeeded"
    store_error,       \* last_store_error: "none" or the stage that failed
    saving,            \* the call of the file system that is next
    attempt,
    saved,             \* history: the file as the last save left it that the
                       \* store did not refuse
    apply_failed       \* history: an application of a save has failed

diskVars     == <<file, taken, temporary, saved>>
gameVars     == <<live, manager, apply_failed>>
modelVars    == <<original, staged, status>>
saveVars     == <<store_error, saving, attempt>>
settingsVars == <<diskVars, gameVars, form, modelVars, saveVars>>

Clamp(value) == IF value < MinimumOffset THEN MinimumOffset
                ELSE IF value > MaximumOffset THEN MaximumOffset ELSE value
Clamped(offsets) == [row \in Rows |-> Clamp(offsets[row])]

(* The game's own reader. *)
ReadAtStart(contents) == IF contents \in Pairs THEN contents ELSE NoOffsets

SettingsInit ==
    /\ file \in StartFiles \cup {Malformed}
    /\ taken = {} /\ temporary = Partial
    /\ saved = file
    /\ live = NoOffsets /\ manager = NoOffsets /\ apply_failed = FALSE
    /\ form = "none"
    /\ original = NoOffsets /\ staged = NoOffsets /\ status = "idle"
    /\ store_error = "none" /\ saving = "idle" /\ attempt = 0

(* A process takes the offsets from the file. It may have the identifier   *)
(* of an earlier one, and then meets the temporary files of that one.      *)
SettingsStart ==
    /\ taken' \in {taken, {}}
    /\ live' = ReadAtStart(file) /\ manager' = ReadAtStart(file)
    /\ UNCHANGED <<file, temporary, saved, apply_failed, form, modelVars, saveVars>>

(* Only the disk outlives the process.                                     *)
SettingsEnd ==
    /\ live' = NoOffsets /\ manager' = NoOffsets /\ apply_failed' = FALSE
    /\ form' = "none"
    /\ original' = NoOffsets /\ staged' = NoOffsets /\ status' = "idle"
    /\ store_error' = "none" /\ saving' = "idle" /\ attempt' = 0
    /\ temporary' = Partial
    /\ UNCHANGED <<file, taken, saved>>

-----------------------------------------------------------------------------
(* The form. MainConstructorHook builds it into the main menu, or restores *)
(* the menu without it.                                                    *)
BuildMenu ==
    /\ saving = "idle" /\ form # "open"
    /\ form' \in {"ready", "menu"}
    /\ UNCHANGED <<diskVars, gameVars, modelVars, saveVars>>

(* CarrierActivate *)
ActivateForm ==
    /\ form = "ready"
    /\ form' = "open"
    /\ original' = live /\ staged' = Clamped(live) /\ status' = "idle"
    /\ UNCHANGED <<diskVars, gameVars, saveVars>>

Editing == form = "open" /\ saving = "idle"

(* CarrierIncrement and CarrierDecrement on the row of an offset.          *)
Adjust(row, delta) ==
    /\ Editing
    /\ staged' = [staged EXCEPT ![row] = Clamp(@ + delta)]
    /\ status' = IF staged' # staged THEN "idle" ELSE status
    /\ UNCHANGED <<diskVars, gameVars, form, original, saveVars>>

(* The row CANCEL, and CarrierBack on any row.                             *)
CancelEdit ==
    /\ Editing
    /\ form' = "ready"
    /\ staged' = Clamped(original) /\ status' = "idle"
    /\ UNCHANGED <<diskVars, gameVars, original, saveVars>>

(* CommitTimingSelection on the row SAVE AND BACK. What has not been       *)
(* changed is not saved.                                                   *)
CommitUnchanged ==
    /\ Editing /\ staged = original
    /\ status' = "succeeded" /\ form' = "ready"
    /\ UNCHANGED <<diskVars, gameVars, original, staged, saveVars>>

CommitChanged ==
    /\ Editing /\ staged # original
    /\ saving' = "read"
    /\ UNCHANGED <<diskVars, gameVars, form, modelVars, store_error, attempt>>

-----------------------------------------------------------------------------
(* SystemConfigTimingStore::Save. *)

(* Mutant: the caller goes on to apply what could not be stored.           *)
GoOnAfter(stage) ==
    /\ store_error' = stage
    /\ saving' = "apply"
    /\ UNCHANGED <<gameVars, form, modelVars, attempt>>

(* The store refuses: RuntimeSaveFailed.                                   *)
Refuse(stage) ==
    /\ store_error' = stage
    /\ status' = "failed" /\ saving' = "idle"
    /\ UNCHANGED <<gameVars, form, original, staged, attempt>>

Accept ==
    /\ store_error' = "none"
    /\ saving' = "apply"
    /\ saved' = staged
    /\ UNCHANGED <<gameVars, form, modelVars, attempt>>

ReadAllBytesFails == Refuse("target") /\ UNCHANGED diskVars

(* Both keys are assigned once, in a form that can be rewritten.           *)
FindAssignmentToken(input) == input # Malformed

RewriteTimingAssignments(input, offsets) ==
    CASE ~FindAssignmentToken(input) -> "refused"
      [] input = offsets             -> "unchanged"
      [] OTHER                       -> "changed"

ReadTarget ==
    /\ saving = "read"
    /\ \/ ReadAllBytesFails
       \/ /\ file # Lost
          /\ RewriteTimingAssignments(file, staged) = "refused"
          /\ Refuse("assignment") /\ UNCHANGED diskVars
       \/ /\ file # Lost
          /\ RewriteTimingAssignments(file, staged) = "unchanged"
          /\ Accept /\ UNCHANGED <<file, taken, temporary>>
       \/ /\ file # Lost
          /\ RewriteTimingAssignments(file, staged) = "changed"
          /\ saving' = "create" /\ attempt' = 0
          /\ UNCHANGED <<diskVars, gameVars, form, modelVars, store_error>>

(* A name that is taken is passed over, whatever left it behind.           *)
CreateTemporary ==
    /\ saving = "create"
    /\ \/ /\ attempt = MaxAttempts
          /\ Refuse("exists") /\ UNCHANGED diskVars
       \/ /\ attempt \in taken
          /\ attempt' = attempt + 1
          /\ UNCHANGED <<diskVars, gameVars, form, modelVars, store_error,
                         saving>>
       \/ /\ attempt < MaxAttempts /\ attempt \notin taken
          /\ \/ Refuse("create") /\ UNCHANGED diskVars
             \/ /\ taken' = taken \cup {attempt} /\ temporary' = Partial
                /\ saving' = "write"
                /\ UNCHANGED <<file, saved, gameVars, form, modelVars,
                               store_error, attempt>>

(* Mutant: a write that took fewer bytes counts as done.                   *)
WrittenInPart == temporary' \in {Partial, staged}

WrittenWhole == temporary' = staged

(* WriteFlushClose: pieces are written until all bytes are or one fails;   *)
(* the flush and the close may fail when the file is complete.             *)
WriteTemporary ==
    /\ saving = "write"
    /\ temporary' \in {Partial, staged}
    /\ \/ WrittenWhole /\ saving' = "replace" /\ UNCHANGED store_error
       \/ saving' = "discard" /\ store_error' = "write"
    /\ UNCHANGED <<file, taken, saved, gameVars, form, modelVars, attempt>>

(* DeleteTemporaryFile, whose failure is only reported.                    *)
DiscardTemporary ==
    /\ saving = "discard"
    /\ taken' \in {taken, taken \ {attempt}} /\ temporary' = Partial
    /\ Refuse(store_error)
    /\ UNCHANGED <<file, saved>>

(* ReplaceFileW without the name of a backup: when the replacement cannot  *)
(* be renamed after the replaced file was (ERROR_UNABLE_TO_MOVE_           *)
(* REPLACEMENT), the replaced file no longer exists.                       *)
ReplaceFile ==
    /\ saving = "replace"
    /\ \/ /\ file' = temporary
          /\ taken' = taken \ {attempt} /\ temporary' = Partial
          /\ Accept
       \/ /\ file' \in {file, Lost}
          /\ saving' = "discard" /\ store_error' = "replace"
          /\ UNCHANGED <<taken, temporary, saved, gameVars, form, modelVars,
                         attempt>>

(* ApplyLiveTiming: two globals and two setters, in this order, until one  *)
(* faults.                                                                 *)
Apply(assigned) ==
    /\ live' = [live EXCEPT !.game_ms = IF assigned >= 1 THEN staged.game_ms ELSE @,
                            !.judge_ms = IF assigned >= 2 THEN staged.judge_ms ELSE @]
    /\ manager' = [manager EXCEPT
                      !.game_ms = IF assigned >= 3 THEN staged.game_ms ELSE @,
                      !.judge_ms = IF assigned >= 4 THEN staged.judge_ms ELSE @]

ApplySave ==
    /\ saving = "apply"
    /\ \E assigned \in 0 .. 4 :
          /\ Apply(assigned)
          /\ IF assigned = 4
             THEN status' = "succeeded" /\ form' = "ready" /\ UNCHANGED apply_failed
             ELSE status' = "failed" /\ apply_failed' = TRUE /\ UNCHANGED form
    /\ saving' = "idle"
    /\ UNCHANGED <<diskVars, original, staged, store_error, attempt>>

SettingsStep ==
    \/ BuildMenu \/ ActivateForm \/ CancelEdit
    \/ \E row \in Rows, delta \in {-1, 1} : Adjust(row, delta)
    \/ CommitUnchanged \/ CommitChanged
    \/ ReadTarget \/ CreateTemporary \/ WriteTemporary \/ DiscardTemporary
    \/ ReplaceFile \/ ApplySave

-----------------------------------------------------------------------------
(* Whatever call fails and wherever the process ends, in one save or in a  *)
(* series of them over several processes, the file holds the whole pair of *)
(* the last save that the store accepted, or what it held at first: never  *)
(* a part, an old pair or one that was never confirmed. Only a replacement *)
(* that fails half-way loses it.                                           *)
FileIsLastSaved == file \in {saved, Lost}

(* When the form is left as saved, the file, the game's globals and what   *)
(* the game's own objects were told are the pair it showed. An application *)
(* that faulted leaves them apart until the next start, and a save of      *)
(* unchanged values does not look at the file.                             *)
SuccessIsEverywhere ==
    status = "succeeded" /\ ~apply_failed =>
        /\ live = staged /\ manager = staged
        /\ file \in Pairs => file = staged

(* A save reaches the file and the game whole, or not at all.              *)
SettingsKept == FileIsLastSaved /\ SuccessIsEverywhere

(* The acceptance criteria of the test mode say that a failed save leaves  *)
(* disk and live timing unchanged (2026-07-20-test-mode-timing-settings-   *)
(* design.md:523); here of one that the store refused.                     *)
FailedSaveKeepsFile ==
    status = "failed" /\ store_error # "none" => file = saved
=============================================================================
