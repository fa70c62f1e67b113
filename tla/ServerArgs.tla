------------------------------ MODULE ServerArgs ------------------------------
(***************************************************************************)
(* From the settings to what a llama-server is told: the arguments of a    *)
(* server with one model, and the --models-preset file with a section for  *)
(* each model that a router reads.  A setting is 0 at the value it is not  *)
(* told for, 1 or 2 otherwise; what llama-server does with a setting it is *)
(* not told is its own.  One backend and its builds, and models without an *)
(* active profile; the RPC workers and the tensor split they extend are    *)
(* left out.                                                               *)
(***************************************************************************)
EXTENDS Naturals

CONSTANTS
    ArgModels,  \* the models found
    Templated,  \* those whose architecture has a chat template
    OnByDefault,\* the flags llama-server has on by itself
    Touched,    \* bound: the settings the user changes
    MaxArgEdits \* bound: changes

NoModel == "no model"

\* build_generation_args, by when a setting becomes an argument.
Always == {"threads", "threads_batch", "context_length", "batch_size", "ubatch_size", "split_mode",
           "flash_attn", "temperature", "top_k", "top_p", "min_p", "typical_p"}
\* A flag that is on; off, the server keeps its own default.
Flags == {"cont_batching", "swa_full", "kv_cache_offload", "fit", "embedding", "jinja", "ignore_eos"}
\* A value other than the default, or an Option that has one.  rope_scale is 1 below 1.0 and
\* 2 above, rope_scaling 2 for yarn.
UnlessDefault == {"max_concurrent_predictions", "cache_type_k", "cache_type_v", "keep", "load_mode",
                  "numa", "gpu_layers_mode", "devices", "lora", "lora_scaled", "expert_count",
                  "chat_template_kwargs", "system_prompt", "seed", "max_tokens",
                  "samplers", "frequency_penalty", "rope_scale", "rope_freq_base",
                  "rope_freq_scale", "rpc"}
Options == {"max_concurrent_predictions", "cache_type_k", "cache_type_v", "lora", "lora_scaled",
            "chat_template", "chat_template_kwargs", "max_tokens", "frequency_penalty", "version"}
\* Told with the setting that gives it a meaning.
Follows == [f \in {"mirostat_lr", "mirostat_ent"} |-> "mirostat"]
Pairs == [f \in {"dry_base", "dry_allowed_length", "dry_penalty_last_n"} |-> "dry_multiplier"]
Leaders == {"mirostat", "dry_multiplier", "spec_type"}
\* Edited and shown, and in no argument.
Never == {"repeat_penalty", "repeat_last_n", "presence_penalty", "uniform_cache"}
Caches == {"cache_type_k", "cache_type_v"}
\* version: 0 none, which is the latest standard build; 1 a turboquant build; 2 a standard
\* build by its name.
Fields == Always \cup Flags \cup UnlessDefault \cup DOMAIN Follows \cup DOMAIN Pairs \cup Leaders
          \cup {"rope_scaling", "chat_template", "rope_yarn_enabled", "auto_chat_template"}
          \cup {"draft_tokens", "version"} \cup Never
Switches == Flags \cup {"rope_yarn_enabled", "auto_chat_template"}
Setting == [Fields -> 0 .. 2]

VARIABLES
    base,       \* the defaults of the configuration
    override,   \* the saved settings of each model that has some
    chosen,     \* the selected model
    panel,      \* app.settings
    shown,      \* model_settings_cache: the panel as it was loaded or saved
    running,    \* what runs, and what it was told
    argEdits

argVars == <<base, override, chosen, panel, shown, running, argEdits>>

Turbo(s, c) == s[c] = 2
Standard(s) == s["version"] # 1

\* Config::resolve_settings: an Option that is saved without a value overrides nothing.
Resolved(m) ==
    IF m \in DOMAIN override
    THEN [f \in Fields |-> IF f \in Options /\ override[m][f] = 0 THEN base[f] ELSE override[m][f]]
    ELSE base

Minimum(a, b) == IF a < b THEN a ELSE b

\* Yarn stretches the context by a scale above 1.0.
Stretched(s) == s["rope_yarn_enabled"] # 0 /\ s["rope_scale"] = 2
ContextLength(s) == IF Stretched(s) THEN s["context_length"] + 3 ELSE s["context_length"]

Yarn == 2
RopeScaling(s) == IF s["rope_yarn_enabled"] # 0 THEN Yarn ELSE s["rope_scaling"]

\* The template that is set, or else that of the architecture of the model.
Automatic == 3
ChatTemplate(s, m) ==
    IF s["chat_template"] # 0 THEN s["chat_template"]
    ELSE IF s["auto_chat_template"] # 0 /\ m \in Templated THEN Automatic
    ELSE 0

Told(s, m) ==
    Always \cup {f \in Flags \cup UnlessDefault \cup Leaders : s[f] # 0}
           \cup {f \in DOMAIN Follows : s[Follows[f]] # 0}
           \cup {f \in DOMAIN Pairs : s[Pairs[f]] # 0}
           \cup {f \in {"draft_tokens"} : s["spec_type"] # 0 /\ s[f] # 0}
           \cup {f \in {"rope_scaling"} : RopeScaling(s) # 0}
           \cup {f \in {"chat_template"} : ChatTemplate(s, m) # 0}

\* build_generation_args.  ubatch <= batch, or llama-server does not start.
Arguments(s, m) ==
    [f \in Told(s, m) |->
        CASE f = "ubatch_size" -> Minimum(s[f], s["batch_size"])
          [] f = "context_length" -> ContextLength(s)
          [] f = "rope_scaling" -> RopeScaling(s)
          [] f = "chat_template" -> ChatTemplate(s, m)
          [] OTHER -> s[f]]

\* spawn_server: a type only turboquant builds know becomes f16.
Sanitized(s) ==
    [f \in Fields |-> IF f \in Caches /\ Standard(s) /\ Turbo(s, f) THEN 1 ELSE s[f]]

\* build_router_preset: a section for each model.  The defaults come first, under no
\* header: they belong to no section.
RouterPreset == [m \in ArgModels |-> Arguments(Resolved(m), m)]

Idle == [mode |-> "none"]

ArgInit ==
    /\ base \in {[f \in Fields |-> 0], [f \in Fields |-> IF f \in Touched \ {"version"} THEN 1 ELSE 0]}
    /\ override = [m \in {} |-> base] /\ chosen = NoModel /\ panel = base /\ shown = panel
    /\ running = Idle /\ argEdits = 0

\* load_settings_for_model
SelectModel(m) ==
    /\ chosen' = m /\ panel' = Resolved(m) /\ shown' = panel'
    /\ UNCHANGED <<base, override, running, argEdits>>

\* Enter on a cache type goes through the turbo types on every build.
EditSetting(f, v) ==
    /\ argEdits < MaxArgEdits /\ argEdits' = argEdits + 1
    /\ f # "version" /\ (f \in Switches => v # 2)
    /\ panel' = [panel EXCEPT ![f] = v]
    /\ UNCHANGED <<base, override, chosen, shown, running>>

\* sync_global_settings with a model: the build is the only common setting here.
SaveForModel ==
    /\ chosen # NoModel
    /\ override' = [m \in DOMAIN override \cup {chosen} |-> IF m = chosen THEN panel ELSE override[m]]
    /\ shown' = panel
    /\ base' = [base EXCEPT !["version"] = panel["version"]]
    /\ UNCHANGED <<chosen, panel, running, argEdits>>

\* Enter in the backend picker: turbo types end with the build that knows them.
PickBackend(version) ==
    /\ argEdits < MaxArgEdits /\ argEdits' = argEdits + 1
    /\ panel' = [f \in Fields |->
                   IF f = "version" THEN version
                   ELSE IF f \in Caches /\ version # 1 /\ Turbo(panel, f) THEN 1 ELSE panel[f]]
    \* sync_global_settings, when a common setting differs
    /\ IF version = base["version"] THEN UNCHANGED <<base, shown>>
       ELSE /\ base' = [f \in Fields |->
                          IF f = "version" THEN version
                          ELSE IF chosen = NoModel
                                  /\ f \in {"threads", "threads_batch", "max_concurrent_predictions"}
                          THEN panel[f] ELSE base[f]]
            /\ shown' = IF chosen = NoModel THEN panel' ELSE [shown EXCEPT !["version"] = version]
    /\ UNCHANGED <<override, chosen, running>>

\* Mutant: the defaults are taken when nothing was changed.
LoadedDefaults == IF panel # shown THEN panel ELSE base

\* The panel when it was changed, or else what is saved.
LoadedSettings == IF panel # shown THEN panel ELSE Resolved(chosen)

SpawnServer ==
    /\ running = Idle /\ chosen # NoModel
    /\ running' = [mode |-> "Normal", version |-> LoadedSettings["version"], model |-> chosen,
                   asked |-> panel, defaults |-> base,
                   args |-> Arguments(Sanitized(LoadedSettings), chosen)]
    /\ UNCHANGED <<base, override, chosen, panel, shown, argEdits>>

SpawnRouter ==
    /\ running = Idle /\ chosen # NoModel
    /\ running' = [mode |-> "Router", version |-> LoadedSettings["version"],
                   asked |-> [m \in ArgModels |-> Resolved(m)], sections |-> RouterPreset,
                   defaults |-> base, loaded |-> {}]
    /\ UNCHANGED <<base, override, chosen, panel, shown, argEdits>>

\* The router starts a server of its own build with the arguments of the section.
LoadInRouter(m) ==
    /\ running.mode = "Router" /\ m \notin running.loaded
    /\ running' = [running EXCEPT !.loaded = @ \cup {m}]
    /\ UNCHANGED <<base, override, chosen, panel, shown, argEdits>>

StopServer ==
    /\ running # Idle /\ running' = Idle
    /\ UNCHANGED <<base, override, chosen, panel, shown, argEdits>>

ArgNext ==
    \/ \E m \in ArgModels : SelectModel(m) \/ LoadInRouter(m)
    \/ \E f \in Touched, v \in 0 .. 2 : EditSetting(f, v)
    \/ \E version \in 0 .. 2 : PickBackend(version)
    \/ SaveForModel \/ SpawnServer \/ SpawnRouter \/ StopServer

ArgSpec == ArgInit /\ [][ArgNext]_argVars
-----------------------------------------------------------------------------
ArgTypeOK ==
    /\ {base, panel, shown} \subseteq Setting /\ chosen \in ArgModels \cup {NoModel}
    /\ DOMAIN override \subseteq ArgModels /\ \A m \in DOMAIN override : override[m] \in Setting
    /\ running.mode \in {"none", "Normal", "Router"} /\ argEdits \in 0 .. MaxArgEdits

\* What the servers that run were told, and what the settings said.
Serving ==
    CASE running.mode = "none" -> {}
      [] running.mode = "Normal" ->
           {[model |-> running.model, args |-> running.args, asked |-> running.asked,
             defaults |-> running.defaults]}
      [] running.mode = "Router" ->
           {[model |-> m, args |-> running.sections[m], asked |-> running.asked[m],
             defaults |-> running.defaults] : m \in running.loaded}

\* What a server that was told a works with.
Works(a, f) ==
    IF f \in DOMAIN a THEN a[f] ELSE IF f \in Flags /\ f \in OnByDefault THEN 1 ELSE 0

\* As set; but where the panel has no value for an Option, which overrides nothing when it
\* is saved, a server may have that of the defaults.
Honoured(s, f) ==
    \/ Works(s.args, f) = s.asked[f]
    \/ f \in Options /\ s.asked[f] = 0 /\ Works(s.args, f) = s.defaults[f]

\* Each server, alone or of the router, works with the settings of its own model: with what
\* its panel shows where it was started alone, with what is saved in a router.  The context
\* and the scaling are those yarn makes of them, the template is that of the architecture
\* where none is set, the batch sizes fit each other, and a turbo type is replaced by f16
\* at most.  Excepted are Options that are cleared over a default (ClearedIsCleared), and
\* flags that are off, which are not told (FlagsAreAsSet).  (server.rs:214, 665,
\* models.rs:169)
RunsAsSet ==
    \A s \in Serving :
        /\ \A f \in (Always \cup UnlessDefault \cup Leaders)
                     \ (Caches \cup {"context_length", "ubatch_size"}) :
              Honoured(s, f)
        /\ \A f \in Flags : s.asked[f] # 0 => Works(s.args, f) = s.asked[f]
        /\ Works(s.args, "context_length") = ContextLength(s.asked)
        /\ Works(s.args, "rope_scaling") = RopeScaling(s.asked)
        /\ Honoured(s, "chat_template")
           \/ Works(s.args, "chat_template") = ChatTemplate(s.asked, s.model)
        /\ Works(s.args, "ubatch_size") <= Works(s.args, "batch_size")
        /\ \A c \in Caches :
              \/ Honoured(s, c)
              \/ Turbo(s.asked, c) /\ Works(s.args, c) = 1
              \/ s.asked[c] = 0 /\ Turbo(s.defaults, c) /\ Works(s.args, c) = 1
        /\ Works(s.args, "mirostat") # 0 => Works(s.args, "mirostat_lr") = s.asked["mirostat_lr"]

\* An Option that the panel shows without a value is told to no server.
ClearedIsCleared ==
    \A s \in Serving, f \in Options \ {"version", "chat_template"} :
        s.asked[f] = 0 => Works(s.args, f) = 0

\* A flag that is off is off in the server.
FlagsAreAsSet == \A s \in Serving, f \in Flags : s.asked[f] = 0 => Works(s.args, f) = 0

\* A server runs the build its panel shows.
BuildIsShown == running.mode = "Normal" => running.version = running.asked["version"]

\* A single server of a standard build is never told a turbo type, wherever the settings
\* came from: it would not start.  (server.rs:742-748)
StandardServerStarts ==
    running.mode = "Normal" /\ running.version # 1 =>
        \A c \in Caches : Works(running.args, c) # 2

\* The same of what a router starts.  Fails: sections are not sanitized, and saved
\* settings of a model keep the types of the build they were saved with.
RouterModelStarts ==
    running.mode = "Router" /\ running.version # 1 =>
        \A m \in running.loaded, c \in Caches : Works(running.sections[m], c) # 2
=============================================================================
