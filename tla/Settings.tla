------------------------------- MODULE Settings -------------------------------
(***************************************************************************)
(* The settings of the terminal program and where they are kept: the       *)
(* defaults of config.yaml, one file of overrides per model, one file per  *)
(* settings profile of a model.  The panel edits app.settings; a snapshot  *)
(* of what was loaded or saved last, model_settings_cache, decides whether *)
(* it is shown as changed.  A setting is of one of five kinds, by where    *)
(* its value comes from and which of the writes reach it.                  *)
(***************************************************************************)
EXTENDS Naturals

CONSTANTS
    Models,     \* display names of models
    Profiles,   \* names of settings profiles
    Values,     \* what a setting may be
    Unset,      \* a setting without a value
    Profiled,   \* bound: the models the user makes settings profiles for
    MaxEdits,   \* bound: edits of the user
    MaxFaults   \* bound: writes that fail

None == "none"

\* own:    a plain value of a model (context_length, threads, ...)
\* opt:    an Option of a model (max_concurrent_predictions, max_tokens, ...)
\* shared: common to all models and overridden by each (webui, cache_prompt)
\* version: an Option common to all models and overridden by each (llama_cpp_version_*,
\*         llama_cpp_strix_halo_rocm)
\* common: of the program, no override holds it (host, port, backend, ...)
Kinds == {"own", "opt", "shared", "version", "common"}
Options == {"opt", "version"}
Record == [Kinds -> Values \cup {Unset}]

VARIABLES
    memory,     \* Config: the defaults, model_overrides, model_settings_profiles
    disk,       \* the files of the same
    selected,   \* the selected model
    active,     \* active_settings_profiles
    settings,   \* app.settings
    cached,     \* model_settings_cache
    loose,      \* history: the settings were reset, or a save or a delete stopped half
                \* way, and none were stored or loaded since
    intact,     \* history: whether the files were written whole since the last failure
    edits,      \* edits so far
    faults      \* failed writes so far

vars == <<memory, disk, selected, active, settings, cached, loose, intact, edits, faults>>

Factory == [k \in Kinds |-> IF k \in Options THEN Unset ELSE 0]

NoFile == [k \in Kinds |-> Unset]
Empty == [default |-> Factory,
          over |-> [m \in Models |-> NoFile],
          profile |-> [m \in Models |-> [p \in Profiles |-> NoFile]]]

\* The files of an earlier use: a model with an override, a default that is set, and the
\* version that was picked in both.
Used == LET first == CHOOSE m \in Models : TRUE
        IN [Empty EXCEPT !.default["opt"] = 1, !.default["version"] = 1,
                         !.over[first] = [Factory EXCEPT !["own"] = 1, !["version"] = 1,
                                                         !["common"] = Unset]]

\* ModelOverride::apply: a value of the override wins; one that is unset, for an
\* Option as for a setting it does not hold, leaves the default.
Apply(override, base) ==
    [k \in Kinds |-> IF k = "common" \/ override[k] = Unset THEN base[k] ELSE override[k]]

\* Mutant: an override of one that both have is lost.
ApplyButShared(override, base) ==
    [k \in Kinds |-> IF k \in {"common", "shared"} \/ override[k] = Unset THEN base[k] ELSE override[k]]

\* Config::resolve_settings, without a named profile.
Resolve(config, m) ==
    IF m = None \/ config.over[m] = NoFile THEN config.default
    ELSE Apply(config.over[m], config.default)

ActiveProfile(config, m) ==
    IF m = None \/ active[m] = None THEN NoFile ELSE config.profile[m][active[m]]

\* resolve_settings_with_profile: a profile holds all settings.
ResolveWithProfile(config, m) ==
    IF ActiveProfile(config, m) # NoFile THEN ActiveProfile(config, m)
    ELSE Resolve(config, m)

\* is_settings_dirty
Dirty == IF ActiveProfile(memory, selected) # NoFile
         THEN settings # ActiveProfile(memory, selected)
         ELSE settings # cached

\* What Enter starts a server with: changed settings as they are, others resolved again.
UsedByLoad == IF settings # cached THEN settings ELSE Resolve(memory, selected)

Init ==
    /\ memory \in {Empty, Used}
    /\ disk = memory
    /\ selected = None /\ active = [m \in Models |-> None]
    /\ settings = memory.default /\ cached = memory.default
    /\ loose = FALSE /\ intact = TRUE /\ edits = 0 /\ faults = 0

\* A Config, in memory or as files.
Config == [default : Record, over : [Models -> Record], profile : [Models -> [Profiles -> Record]]]

TypeOK ==
    /\ memory \in Config /\ disk \in Config
    /\ settings \in Record /\ cached \in Record
    /\ selected \in Models \cup {None} /\ loose \in BOOLEAN
    /\ intact \in BOOLEAN
    /\ active \in [Models -> Profiles \cup {None}]
    /\ edits \in 0 .. MaxEdits /\ faults \in 0 .. MaxFaults

-----------------------------------------------------------------------------
(* Writing.  A profile's own file is written by its save, the rest by           *)
(* Config::save, which writes config.yaml and then every override it holds.     *)

WriteFails == faults < MaxFaults /\ faults' = faults + 1

\* An override or a profile that no longer is in memory keeps its file: only a
\* delete moves it away.
Written(config, files) ==
    [files EXCEPT !.default = config.default,
                  !.over = [m \in Models |-> IF config.over[m] # NoFile THEN config.over[m] ELSE @[m]]]

\* ok: Config::save returned without an error; files is what the caller has
\* written before.
ConfigSavedAs(config, ok, files) ==
    \/ ok /\ disk' = Written(config, files) /\ intact' = TRUE /\ UNCHANGED faults
    \* an override that could not be written is only logged
    \/ ok /\ WriteFails /\ intact' = FALSE /\ disk' = [files EXCEPT !.default = config.default]
    \/ ~ok /\ WriteFails /\ intact' = FALSE /\ disk' = files

ConfigSaved(ok, files) == ConfigSavedAs(memory', ok, files)

-----------------------------------------------------------------------------
(* load_settings_for_model, and the selection.                              *)

LoadSettings(config, m) ==
    /\ settings' = ResolveWithProfile(config, m)
    /\ cached' = settings' /\ loose' = FALSE

\* on_model_selection_change: edits that were not saved are dropped.
SelectModel ==
    /\ \E m \in Models : selected' = m /\ LoadSettings(memory, m)
    /\ UNCHANGED <<memory, disk, active, intact, edits, faults>>

\* No model is left in the list: the settings stay, the snapshot does not.
Deselect ==
    /\ selected # None /\ selected' = None /\ cached' = memory.default
    /\ UNCHANGED <<memory, disk, active, settings, loose, intact, edits, faults>>

-----------------------------------------------------------------------------
(* sync_global_settings.                                                    *)

\* common_fields_changed
Global == {"shared", "version", "common"}

\* Without a model more of the settings are defaults.
SyncedDefault(s) ==
    [k \in Kinds |-> IF k \in Global \/ selected = None THEN s[k] ELSE memory.default[k]]

\* sync_model_cache_fields
SyncedCache(s) == [k \in Kinds |-> IF k \in Global THEN s[k] ELSE cached[k]]

\* update_fields writes to an override that exists, and creates none; it does not know
\* the versions, which an override keeps.
SyncedOverride(s) ==
    [m \in Models |-> IF m = selected /\ memory.over[m] # NoFile
                      THEN [memory.over[m] EXCEPT !["shared"] = s["shared"]]
                      ELSE memory.over[m]]

\* Mutant: only the defaults follow.
DefaultsOnly(s) ==
    IF \A k \in Global : s[k] = memory.default[k]
    THEN UNCHANGED <<memory, disk, cached, intact, faults>>
    ELSE /\ memory' = [memory EXCEPT !.default = SyncedDefault(s)]
         /\ cached' = SyncedCache(s)
         /\ \E ok \in BOOLEAN : ConfigSaved(ok, disk)

\* Mutant: what a model has becomes the default of all.
SyncEverything(s) ==
    /\ memory' = [memory EXCEPT !.default = s, !.over = SyncedOverride(s)]
    /\ cached' = s
    /\ \E ok \in BOOLEAN : ConfigSaved(ok, disk)

SyncGlobalSettings(s) ==
    IF \A k \in Global : s[k] = memory.default[k]
    THEN UNCHANGED <<memory, disk, cached, intact, faults>>
    ELSE /\ memory' = [memory EXCEPT !.default = SyncedDefault(s), !.over = SyncedOverride(s)]
         /\ cached' = IF selected = None THEN s ELSE SyncedCache(s)
         /\ \E ok \in BOOLEAN : ConfigSaved(ok, disk)

-----------------------------------------------------------------------------
(* The panels.                                                              *)

Change(k) ==
    /\ edits < MaxEdits /\ edits' = edits + 1
    /\ \E v \in (IF k \in Options THEN Values \cup {Unset} ELSE Values) \ {settings[k]} :
           settings' = [settings EXCEPT ![k] = v]

\* A field of the settings panel, or a built-in or user profile of settings.
EditField ==
    /\ \E k \in Kinds \ {"common"} : Change(k)
    /\ UNCHANGED <<memory, disk, selected, active, cached, loose, intact, faults>>

\* The pickers of the server settings, and the fields that are synchronised.
EditAndSync ==
    /\ \E k \in Kinds \ {"own"} : Change(k)
    /\ SyncGlobalSettings(settings')
    /\ UNCHANGED <<selected, active, loose>>

\* save_model_settings: the override, then the rest; the snapshot follows only
\* when config.yaml could be written.  The defaults that are synchronised then
\* are saved once more.
SaveModelSettings ==
    /\ selected # None /\ ActiveProfile(memory, selected) = NoFile
    /\ LET over == [memory.over EXCEPT ![selected] = [settings EXCEPT !["common"] = Unset]]
           synced == [default |-> SyncedDefault(settings), over |-> over,
                      profile |-> memory.profile]
       IN \E ok \in BOOLEAN :
            /\ memory' = IF ok THEN synced ELSE [memory EXCEPT !.over = over]
            /\ cached' = IF ok THEN settings ELSE cached
            /\ loose' = ~ok
            /\ ConfigSaved(ok, [disk EXCEPT !.over[selected] = over[selected]])
    /\ UNCHANGED <<selected, active, settings, edits>>

\* save_to_profile, and save_as_profile for a name that is not taken.
SaveProfile(p) ==
    /\ selected # None
    /\ memory' = [memory EXCEPT !.profile[selected][p] = settings]
    /\ \E ok \in BOOLEAN :
        /\ ConfigSaved(ok, [disk EXCEPT !.profile[selected][p] = settings])
        /\ cached' = IF ok THEN settings ELSE cached
        /\ loose' = ~ok
        /\ active' = IF ok THEN [active EXCEPT ![selected] = p] ELSE active
    /\ UNCHANGED <<selected, settings, edits>>

SaveToProfile ==
    ActiveProfile(memory, selected) # NoFile /\ SaveProfile(active[selected])

SaveAsProfile ==
    \E p \in Profiles :
        selected \in Profiled /\ memory.profile[selected][p] = NoFile /\ SaveProfile(p)

\* apply_profile_by_name
ApplyProfile ==
    \E p \in Profiles :
        /\ selected # None /\ memory.profile[selected][p] # NoFile
        /\ active' = [active EXCEPT ![selected] = p]
        /\ settings' = memory.profile[selected][p] /\ cached' = settings' /\ loose' = FALSE
        /\ UNCHANGED <<memory, disk, selected, intact, edits, faults>>

\* delete_settings_profile: when config.yaml cannot be written it returns early.
DeleteSettingsProfile ==
    \E p \in Profiles, ok \in BOOLEAN :
        /\ selected # None /\ memory.profile[selected][p] # NoFile
        /\ memory' = [memory EXCEPT !.profile[selected][p] = NoFile]
        /\ ConfigSaved(ok, [disk EXCEPT !.profile[selected][p] = NoFile])
        /\ IF ok /\ active[selected] = p
           THEN /\ active' = [active EXCEPT ![selected] = None]
                /\ settings' = Resolve(memory', selected) /\ cached' = settings' /\ loose' = FALSE
           ELSE loose' = (loose \/ ~ok) /\ UNCHANGED <<active, settings, cached>>
        /\ UNCHANGED <<selected, edits>>

\* reset_to_defaults: nothing is written, the override stays.
ResetToDefaults ==
    /\ settings' = Factory /\ cached' = Factory /\ loose' = TRUE
    /\ active' = IF selected = None THEN active ELSE [active EXCEPT ![selected] = None]
    /\ UNCHANGED <<memory, disk, selected, intact, edits, faults>>

\* process_pending_deletion: the override goes, the model's profiles stay, and
\* another model, or none, is selected.
DeleteModel ==
    \E m \in Models, next \in Models \cup {None}, ok \in BOOLEAN :
        /\ selected = m /\ next # m
        /\ memory' = [memory EXCEPT !.over[m] = NoFile]
        /\ ConfigSaved(ok, [disk EXCEPT !.over[m] = NoFile])
        /\ selected' = next
        /\ IF next = None THEN cached' = memory.default /\ UNCHANGED <<settings, loose>>
           ELSE LoadSettings(memory', next)
        /\ UNCHANGED <<active, edits>>

-----------------------------------------------------------------------------
(* A new start reads what is on the disk.                                  *)

NewStart ==
    /\ memory' = disk'
    /\ selected' = None /\ active' = [m \in Models |-> None]
    /\ settings' = memory'.default /\ cached' = settings' /\ loose' = FALSE
    /\ UNCHANGED edits

\* The program leaves its loop: the configuration is saved once more.
Quit == (\E ok \in BOOLEAN : ConfigSavedAs(memory, ok, disk)) /\ NewStart

\* The program is killed, or panics.
Restart == UNCHANGED <<disk, intact, faults>> /\ NewStart

-----------------------------------------------------------------------------
Next ==
    \/ SelectModel \/ Deselect \/ EditField \/ EditAndSync
    \/ SaveModelSettings \/ SaveToProfile \/ SaveAsProfile \/ ApplyProfile
    \/ DeleteSettingsProfile \/ ResetToDefaults \/ DeleteModel
    \/ Quit \/ Restart

Spec == Init /\ [][Next]_vars

-----------------------------------------------------------------------------
(***************************************************************************)
(* Properties.                                                             *)
(***************************************************************************)

\* Settings that are not shown as changed are the ones the files hold: a
\* restart, the same model and the same profile bring them back, also when an
\* earlier write failed and a later one did not.  Excepted are settings just
\* reset, which are not stored by design, an Option that was cleared while the
\* default has a value, and a save or a delete that stopped half way.  A version
\* picked for a model whose override holds one is stored too, but as the default
\* of the other models: the override keeps the old one.
CleanIsStored ==
    selected # None /\ ~Dirty /\ intact /\ ~loose =>
        \A k \in Kinds :
            \/ settings[k] = ResolveWithProfile(disk, selected)[k]
            \/ k = "opt" /\ settings[k] = Unset
            \/ k = "version" /\ disk.over[selected][k] # Unset /\ settings[k] = disk.default[k]

\* The same of the versions, as of every other setting.  Fails: a version picked for a
\* model that has saved settings is gone when the model is selected again.
PickedIsStored ==
    selected # None /\ ~Dirty /\ intact /\ ~loose =>
        settings["version"] = ResolveWithProfile(disk, selected)["version"]

\* While a model is selected nothing the user does to it changes what is a
\* setting of another model alone.
OthersKeepTheirs ==
    [][\A m \in Models, k \in {"own", "opt"} :
            selected \in Models \ {m} /\ selected' = selected =>
                Resolve(memory', m)[k] = Resolve(memory, m)[k]]_vars

\* With an active settings profile a server is started with the settings the panel
\* shows, which are the profile's.
LoadsWhatIsShown ==
    selected # None /\ ActiveProfile(memory, selected) # NoFile => UsedByLoad = settings
=============================================================================
