------------------------- MODULE VersionedStartup --------------------------
(***************************************************************************)
(* How one process is patched when it attaches the loader                  *)
(* (GameStartup.cpp, NesysStartup.cpp): the patches of the chosen features *)
(* are planned, the whole plan is validated against the loaded image,      *)
(* everything the detours will need is prepared, and only then the image   *)
(* is changed, site by site. Any failure ends the process. Each call that  *)
(* changes the image or publishes an original is a step of its own.        *)
(*                                                                         *)
(* The image is a function from cells to contents; a site covers a set of  *)
(* cells, and "original" is what its contract expects to find there. The   *)
(* exported functions of other modules that are hooked are cells too.      *)
(***************************************************************************)
EXTENDS Integers, Sequences, FiniteSets, SequencesExt

CONSTANTS
    Cells,             \* the cells of the image, numbers
    Operations,        \* [feature -> its sites in installation order]
    Plans,             \* [role -> the sequences of features it may choose]
    RuntimeFeatures,   \* features with something to prepare before a detour
    Exports,           \* [role -> the hooks of exported functions, as sites]
    Images             \* the images: [contents, variant]

SiteFields == {"feature", "site", "kind", "cells", "signature", "installed",
               "installed_in", "dispatcher"}
ReadOnly(site)  == site.kind = "read_only_contract"
IsHook(site)    == site.kind \in {"inline_hook", "mid_hook"}
IsSlot(site)    == site.kind = "global_vtable_slot"
IsPatch(site)   == site.kind = "byte_patch"
Diverting(site) == IsHook(site) \/ IsSlot(site)

Exact(variant) == variant # "locally_verified"

PlanSites   == UNION {ToSet(Operations[feature]) : feature \in DOMAIN Operations}
ExportSites == UNION {ToSet(Exports[r]) : r \in DOMAIN Exports}
AllSites    == PlanSites \cup ExportSites

(* The shapes that ValidateContext and HookPlan::Add demand of every       *)
(* request; a hook overwrites more, or less, than its signature shows, and *)
(* both begin at its address. Only a file whose hash is known contains     *)
(* patches by contract, and it holds what its contracts say.               *)
ASSUME StartupAssumption ==
    /\ Cells \subseteq Nat
    /\ \A site \in AllSites :
          /\ DOMAIN site = SiteFields
          /\ site.cells \in (SUBSET Cells) \ {{}}
          /\ ReadOnly(site) \/ Diverting(site) \/ IsPatch(site)
          /\ IsPatch(site) \/ IsSlot(site) => site.signature = site.cells
          /\ ~IsPatch(site) => site.installed_in = {}
          /\ \A variant \in site.installed_in : Exact(variant)
          /\ Diverting(site) => /\ site.cells \cap site.signature # {}
                               /\ site.installed # "original"
    /\ \A loaded \in Images :
          /\ DOMAIN loaded.contents = Cells
          /\ Exact(loaded.variant) =>
                \A site \in AllSites : \A cell \in site.cells \cup site.signature :
                    loaded.contents[cell] =
                        IF loaded.variant \in site.installed_in
                        THEN site.installed ELSE "original"

(* A feature's sites carry its name. The service's only feature has        *)
(* nothing to prepare.                                                     *)
ASSUME PlanAssumption ==
    /\ \A feature \in DOMAIN Operations :
          /\ Operations[feature] \in Seq(PlanSites)
          /\ \A i \in DOMAIN Operations[feature] :
                Operations[feature][i].feature = feature
    /\ \A r \in DOMAIN Plans :
          /\ Plans[r] \subseteq Seq(DOMAIN Operations)
          /\ r # "game" => \A features \in Plans[r] : \A i \in DOMAIN features :
                              features[i] \notin RuntimeFeatures

(* The exported functions are those of other modules. Two of them are the  *)
(* same, or lie apart.                                                     *)
ASSUME ExportAssumption ==
    /\ DOMAIN Plans = DOMAIN Exports
    /\ \A r \in DOMAIN Exports : Exports[r] \in Seq(ExportSites)
    /\ \A export \in ExportSites :
          /\ IsHook(export)
          /\ \A site \in PlanSites : site.cells \cap export.cells = {}
          /\ \A other \in ExportSites :
                export.cells \cap other.cells # {} => export.cells = other.cells

VARIABLES
    role,              \* "game", "service" or "none"
    plan,              \* the features chosen by the configuration
    variant,           \* the known file it is, or "locally_verified"
    initial_image,     \* history: the image as it was loaded
    image,
    phase,             \* how far the startup is
    position,          \* the next element of the loop that is running
    approved,          \* ApprovedVersionedPlan: sites with their disposition
    prepared,          \* the features whose runtime has been prepared
    published,         \* the sites whose detour can call its original
    slots,             \* SlotRegistry: the cells of exchanged vtable slots
    records,           \* HookRegistry::records_
    failure            \* "none", or why the startup was given up

chosenVars  == <<role, plan, variant, initial_image>>
startupVars == <<chosenVars, image, phase, position, approved, prepared,
                 published, slots, records, failure>>

-----------------------------------------------------------------------------
(* The plan.                                                               *)
(* Each feature is installed after the one that was appended before it.    *)
InstallOrder(features) ==
    LET upTo[i \in 0 .. Len(features)] ==
            IF i = 0 THEN <<>> ELSE upTo[i - 1] \o Operations[features[i]]
    IN upTo[Len(features)]

(* Identical vtable registrations are one physical mutation.               *)
SameSlot(left, right) ==
    /\ IsSlot(left) /\ IsSlot(right)
    /\ left.cells = right.cells /\ left.installed = right.installed

(* Mutant: only sites that begin at the same address collide.              *)
SameStart(left, right) ==
    /\ ~ReadOnly(left) /\ ~ReadOnly(right)
    /\ \E cell \in left.cells \cap right.cells :
          \A other \in left.cells \cup right.cells : cell <= other
    /\ ~SameSlot(left, right)

Overlaps(left, right) ==
    /\ ~ReadOnly(left) /\ ~ReadOnly(right)
    /\ left.cells \cap right.cells # {}
    /\ ~SameSlot(left, right)

HasOverlap(sites) ==
    \E i, j \in DOMAIN sites : i < j /\ Overlaps(sites[i], sites[j])

Holds(contents, cells, value) == \A cell \in cells : contents[cell] = value

(* Mutant: a contract that is only read is not compared.                   *)
WritableContractHolds(contents, site) ==
    \/ ReadOnly(site)
    \/ Holds(contents, site.signature, "original")
    \/ IsPatch(site) /\ Holds(contents, site.signature, site.installed)

(* A site is as its contract says; a byte patch may have been applied to   *)
(* the file already.                                                       *)
ContractHolds(contents, site) ==
    \/ Holds(contents, site.signature, "original")
    \/ IsPatch(site) /\ Holds(contents, site.signature, site.installed)

FirstOfSlot(sites, i) ==
    ~\E j \in 1 .. i - 1 : IsSlot(sites[j]) /\ sites[j].cells = sites[i].cells

(* Matching vtable consumers share the first physical exchange.            *)
Disposition(sites, i) ==
    CASE ReadOnly(sites[i]) -> "verify_only"
      [] IsSlot(sites[i]) /\ ~FirstOfSlot(sites, i) -> "verify_only"
      [] variant \in sites[i].installed_in -> "already_installed"
      [] /\ ~Exact(variant) /\ IsPatch(sites[i])
         /\ ~Holds(image, sites[i].signature, "original")
            -> "already_installed"
      [] OTHER -> "install"

Approve(sites) ==
    [i \in DOMAIN sites |-> [site |-> sites[i],
                             disposition |-> Disposition(sites, i)]]

(* hooking::CanShare *)
CanShare(left, right) ==
    /\ left.dispatcher # "none" /\ left.dispatcher = right.dispatcher
    /\ left.kind = right.kind /\ left.installed = right.installed

Collides(hooks) ==
    \E i, j \in DOMAIN hooks :
        i < j /\ hooks[i].cells = hooks[j].cells /\ ~CanShare(hooks[i], hooks[j])

-----------------------------------------------------------------------------
(* No process runs, and none has left a trace in memory.                   *)
StartupInit ==
    /\ role = "none" /\ plan = <<>> /\ variant = "none"
    /\ initial_image = <<>> /\ image = <<>>
    /\ phase = "ended" /\ position = 1
    /\ approved = <<>> /\ prepared = {} /\ published = {} /\ slots = {}
    /\ records = <<>>
    /\ failure = "none"

(* A process of one of the two programs attaches the loader.               *)
Attach ==
    /\ phase = "ended" /\ failure = "none"
    /\ \E r \in DOMAIN Plans, loaded \in Images :
          /\ role' = r /\ plan' \in Plans[r]
          /\ variant' = loaded.variant
          /\ initial_image' = loaded.contents /\ image' = loaded.contents
    /\ phase' = "validate" /\ position' = 1
    /\ approved' = <<>> /\ prepared' = {} /\ published' = {} /\ slots' = {}
    /\ records' = <<>>
    /\ failure' = "none"

(* AbortForStartupError.                                                   *)
GiveUp(reason) ==
    /\ failure' = reason /\ phase' = "ended"
    /\ UNCHANGED <<chosenVars, position, approved, prepared, published, slots,
                   records>>

Enter(next) == phase' = next /\ position' = 1

(* VersionedPlanSet::ValidateContext. A known hash stands for the contracts*)
(* of every site; without it each is compared. A site whose memory cannot  *)
(* be queried is refused.                                                  *)
Validate ==
    /\ phase = "validate"
    /\ LET sites == InstallOrder(plan)
       IN \/ /\ sites # <<>>
             /\ GiveUp("address_range") /\ UNCHANGED image
          \/ /\ HasOverlap(sites)
             /\ GiveUp("overlap") /\ UNCHANGED image
          \/ /\ ~HasOverlap(sites)
             /\ ~Exact(variant)
             /\ \E i \in DOMAIN sites : ~ContractHolds(image, sites[i])
             /\ GiveUp("contract_mismatch") /\ UNCHANGED image
          \/ /\ ~HasOverlap(sites)
             /\ \/ Exact(variant)
                \/ \A i \in DOMAIN sites : ContractHolds(image, sites[i])
             /\ approved' = Approve(sites)
             /\ Enter("exports")
             /\ UNCHANGED <<chosenVars, image, prepared, published, slots,
                            records, failure>>

(* The hooks of exported functions are resolved; two at one address must   *)
(* be able to share it.                                                    *)
ResolveExports ==
    /\ phase = "exports"
    /\ \/ GiveUp("resolve") /\ UNCHANGED image
       \/ /\ Collides(Exports[role])
          /\ GiveUp("collision") /\ UNCHANGED image
       \/ /\ ~Collides(Exports[role])
          /\ Enter(IF role = "game" THEN "input" ELSE "originals")
          /\ UNCHANGED <<chosenVars, image, approved, prepared, published,
                         slots, records, failure>>

(* The input settings are handed to the polling runtime.                   *)
PrepareInput ==
    /\ phase = "input"
    /\ Enter("runtime")
    /\ UNCHANGED <<chosenVars, image, approved, prepared, published, slots,
                   records, failure>>

InputRefused ==
    /\ phase = "input"
    /\ GiveUp("input") /\ UNCHANGED image

(* The Prepare*Runtime calls, in the order of the features.                *)
PrepareRuntime ==
    /\ phase = "runtime"
    /\ IF position > Len(plan)
       THEN /\ Enter("originals")
            /\ UNCHANGED <<chosenVars, image, approved, prepared, published,
                           slots, records, failure>>
       ELSE \/ /\ plan[position] \in RuntimeFeatures
               /\ GiveUp("runtime") /\ UNCHANGED image
            \/ /\ prepared' = prepared \cup ({plan[position]} \cap RuntimeFeatures)
               /\ position' = position + 1
               /\ UNCHANGED <<chosenVars, image, phase, approved, published,
                              slots, records, failure>>

-----------------------------------------------------------------------------
(* InstallApprovedVersionedPlan. First every consumer of a vtable slot is  *)
(* given its original, those that share another's exchange too.            *)

(* Mutant: only the consumer that will exchange the slot is given it.      *)
TakesOriginalExchanging(entry) ==
    IsSlot(entry.site) /\ entry.disposition = "install"

TakesOriginal(entry) == IsSlot(entry.site)

PublishSlotOriginals ==
    /\ phase = "originals"
    /\ IF position > Len(approved)
       THEN Enter("sites") /\ UNCHANGED published
       ELSE /\ published' =
                  IF TakesOriginal(approved[position])
                  THEN published \cup {approved[position].site.site}
                  ELSE published
            /\ position' = position + 1 /\ UNCHANGED phase
    /\ UNCHANGED <<chosenVars, image, approved, prepared, slots, records,
                   failure>>

(* Then the sites are installed in order. *)
AtSite(disposition) ==
    /\ phase = "sites" /\ position <= Len(approved)
    /\ approved[position].disposition = disposition
Site == approved[position].site

Overwrite(cells, value) ==
    [cell \in DOMAIN image |-> IF cell \in cells THEN value ELSE image[cell]]

SkipSite ==
    /\ AtSite("already_installed") \/ AtSite("verify_only")
    /\ position' = position + 1
    /\ UNCHANGED <<chosenVars, image, phase, approved, prepared, published,
                   slots, records, failure>>

(* RuntimeImage::Write: the protection may be refused, the bytes be copied *)
(* in part, and what follows the copy fail although it is complete.        *)
WritePatch ==
    /\ AtSite("install") /\ IsPatch(Site)
    /\ \/ /\ image' = Overwrite(Site.cells, Site.installed)
          /\ position' = position + 1
          /\ UNCHANGED <<chosenVars, phase, approved, prepared, published,
                         slots, records, failure>>
       \/ /\ \E written \in SUBSET Site.cells :
                image' = Overwrite(written, Site.installed)
          /\ GiveUp("memory")

(* InstallVtableSlotHook: the slot is registered and exchanged if it holds *)
(* what is expected of it.                                                 *)
ExchangeSlot ==
    /\ AtSite("install") /\ IsSlot(Site)
    /\ \/ /\ Site.cells \in slots
          /\ GiveUp("already_exists") /\ UNCHANGED image
       \/ /\ Site.cells \notin slots
          /\ \/ /\ GiveUp("memory")
                /\ \/ UNCHANGED image
                   \/ /\ Holds(image, Site.cells, "original")
                      /\ image' = Overwrite(Site.cells, Site.installed)
             \/ /\ ~Holds(image, Site.cells, "original")
                /\ GiveUp("exchange") /\ UNCHANGED image
             \/ /\ Holds(image, Site.cells, "original")
                /\ image' = Overwrite(Site.cells, Site.installed)
                /\ slots' = slots \cup {Site.cells}
                /\ published' = published \cup {Site.site}
                /\ position' = position + 1
                /\ UNCHANGED <<chosenVars, phase, approved, prepared, records,
                               failure>>

(* HookRegistry::Install of one request: a shared record is joined; a new  *)
(* one is created disabled, given its original, and then enabled.          *)
Recorded(hook) == \E i \in DOMAIN records : records[i].hook.cells = hook.cells
Refuses(hook) ==
    \E i \in DOMAIN records :
        records[i].hook.cells = hook.cells /\ ~CanShare(records[i].hook, hook)

Publish(hook) == IF hook.kind = "inline_hook"
                 THEN published \cup {hook.site} ELSE published

PendingHook(hook) ==
    \E i \in DOMAIN records : records[i].hook = hook /\ ~records[i].enabled

JoinHook(hook) ==
    /\ Recorded(hook) /\ ~PendingHook(hook)
    /\ \/ hook.kind = "inline_hook" /\ GiveUp("publish") /\ UNCHANGED image
       \/ /\ published' = Publish(hook)
          /\ position' = position + 1
          /\ UNCHANGED <<chosenVars, image, phase, approved, prepared, slots,
                         records, failure>>

CreateHook(hook) ==
    /\ ~Recorded(hook)
    /\ \/ GiveUp("create") /\ UNCHANGED image
       \/ /\ records' = Append(records, [hook |-> hook, enabled |-> FALSE])
          /\ published' = Publish(hook)
          /\ UNCHANGED <<chosenVars, image, phase, position, approved,
                         prepared, slots, failure>>

EnableHook(hook) ==
    /\ PendingHook(hook)
    /\ \/ GiveUp("enable") /\ UNCHANGED image
       \/ /\ image' = Overwrite(hook.cells, hook.installed)
          /\ records' = [i \in DOMAIN records |->
                IF records[i].hook = hook
                THEN [records[i] EXCEPT !.enabled = TRUE] ELSE records[i]]
          /\ position' = position + 1
          /\ UNCHANGED <<chosenVars, phase, approved, prepared, published,
                         slots, failure>>

(* Each hook of the image is a plan of its own, checked against the        *)
(* records when it is installed.                                           *)
InstallSiteHook ==
    /\ AtSite("install") /\ IsHook(Site)
    /\ \/ /\ Refuses(Site) /\ ~PendingHook(Site)
          /\ GiveUp("collision") /\ UNCHANGED image
       \/ ~Refuses(Site) /\ JoinHook(Site)
       \/ CreateHook(Site)
       \/ EnableHook(Site)

(* The hooks of exported functions follow in one plan, which is checked as *)
(* a whole against the records there are.                                  *)
CheckExportHooks ==
    /\ phase = "sites" /\ position > Len(approved)
    /\ \/ /\ \E i \in DOMAIN Exports[role] : Refuses(Exports[role][i])
          /\ GiveUp("collision") /\ UNCHANGED image
       \/ /\ \A i \in DOMAIN Exports[role] : ~Refuses(Exports[role][i])
          /\ Enter("export_hooks")
          /\ UNCHANGED <<chosenVars, image, approved, prepared, published,
                         slots, records, failure>>

InstallExportHook ==
    /\ phase = "export_hooks" /\ position <= Len(Exports[role])
    /\ \/ JoinHook(Exports[role][position])
       \/ CreateHook(Exports[role][position])
       \/ EnableHook(Exports[role][position])

(* The Complete*Startup calls end a process whose originals are missing.   *)
Missing == {i \in DOMAIN approved :
               /\ approved[i].site.kind = "inline_hook"
               /\ approved[i].site.feature \in RuntimeFeatures
               /\ approved[i].site.site \notin published}

Complete ==
    /\ phase = "export_hooks" /\ position > Len(Exports[role])
    /\ \/ Missing # {} /\ GiveUp("original_missing") /\ UNCHANGED image
       \/ /\ Missing = {}
          /\ Enter("running")
          /\ UNCHANGED <<chosenVars, image, approved, prepared, published,
                         slots, records, failure>>

StartupStep ==
    \/ Validate \/ ResolveExports \/ PrepareInput \/ InputRefused
    \/ PrepareRuntime \/ PublishSlotOriginals \/ SkipSite \/ WritePatch
    \/ ExchangeSlot \/ InstallSiteHook \/ CheckExportHooks
    \/ InstallExportHook \/ Complete

(* The process is gone: after AbortForStartupError, or at any moment, from *)
(* outside or by something else in it.                                     *)
Kill ==
    /\ phase # "ended" \/ failure # "none"
    /\ role' = "none" /\ plan' = <<>> /\ variant' = "none"
    /\ initial_image' = <<>> /\ image' = <<>>
    /\ phase' = "ended" /\ position' = 1
    /\ approved' = <<>> /\ prepared' = {} /\ published' = {} /\ slots' = {}
    /\ records' = <<>>
    /\ failure' = "none"

-----------------------------------------------------------------------------
Live(site) == Holds(image, site.cells, site.installed)

(* A detour is reachable by the game's other code from the moment its site *)
(* is changed. By then whoever it diverts calls to can call the original,  *)
(* every consumer of a shared slot included, and its runtime is prepared.  *)
LiveDetoursHaveOriginals ==
    \A i \in DOMAIN approved :
        LET site == approved[i].site
        IN Diverting(site) /\ Live(site) =>
              /\ site.kind # "mid_hook" => site.site \in published
              /\ site.feature \in RuntimeFeatures => site.feature \in prepared

(* A process that runs has every site of every chosen feature in its       *)
(* installed form: none was overwritten by a later one, skipped, or left   *)
(* disabled; and the checks of the registries, which come when the image   *)
(* is already changed, never have to refuse what was approved.             *)
RunningIsComplete ==
    /\ phase = "running" =>
          /\ \A i \in DOMAIN approved :
                ~ReadOnly(approved[i].site) => Live(approved[i].site)
          /\ \A i \in DOMAIN records : records[i].enabled
          /\ \A i \in DOMAIN Exports[role] : Live(Exports[role][i])
    /\ failure \notin {"already_exists", "original_missing"}
    /\ failure = "collision" => image = initial_image

(* Nothing of the image is changed before everything is known to fit: each *)
(* contract held in the image as it was loaded, or the file is a known     *)
(* one, and every runtime that the detours enter had been prepared.        *)
TouchedOnlyWhenProven ==
    image # initial_image =>
        /\ \/ Exact(variant)
           \/ \A i \in DOMAIN approved :
                 LET site == approved[i].site
                 IN \/ Holds(initial_image, site.signature, "original")
                    \/ IsPatch(site)
                       /\ Holds(initial_image, site.signature, site.installed)
        /\ role = "game" =>
              \A i \in DOMAIN plan :
                  plan[i] \in RuntimeFeatures => plan[i] \in prepared
=============================================================================
