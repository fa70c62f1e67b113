-------------------------------- MODULE Fields --------------------------------
(***************************************************************************)
(* The panel of the LLM settings: its rows, the keys that move along them, *)
(* step, toggle or type a value, and the buffer of what is typed, which    *)
(* belongs to the panel and not to a row.  Fractions are in hundredths.    *)
(***************************************************************************)
EXTENDS Integers, Sequences, SequencesExt

CONSTANTS
    Rows,        \* bound: the rows the panel has
    Layers,      \* model_total_layers of the model, a small number
    Trained,     \* model_n_ctx_train of the model, 0 for none
    Typed,       \* bound: the characters that are typed, a digit and the minus sign
    MaxTyped,    \* bound: characters in the buffer
    MaxFieldKeys \* bound: keys of the user

NoValue == -9999      \* an Option without a value
Endless == 1000000  \* no upper limit
AutoLayers == -1
AllLayers == 999

\* all_fields: the rows in their order.  An ultra row is hidden in the expert mode; one that
\* can be toggled is an expert row as well, and is never shown.
AllFields ==
    <<"system_prompt_preset_name", "context_length", "cont_batching", "rope_yarn_enabled",
      "yarn_params", "keep", "chat_template", "load_mode", "numa", "gpu_layers_mode", "split_mode",
      "tensor_split", "devices", "fit", "flash_attn", "kv_cache_offload", "cache_type_k",
      "cache_type_v", "expert_count", "batch_size", "ubatch_size", "uniform_cache", "cache_reuse",
      "swa_full", "max_concurrent_predictions", "seed", "temperature", "top_k", "top_p", "min_p",
      "typical_p", "ignore_eos", "max_tokens", "repeat_penalty", "repeat_last_n",
      "presence_penalty", "frequency_penalty", "is_mtp", "draft_tokens", "tags",
      "backend_version", "webui", "cache_prompt">>
Expert == {"rope_yarn_enabled", "yarn_params", "keep", "chat_template", "load_mode", "numa",
           "split_mode", "tensor_split", "devices", "cache_type_k", "cache_type_v", "expert_count",
           "cache_reuse", "swa_full", "max_concurrent_predictions", "presence_penalty",
           "frequency_penalty", "is_mtp", "draft_tokens", "ignore_eos", "webui", "cache_prompt"}
Ultra == {"typical_p", "ignore_eos", "webui", "cache_prompt"}

Flips == {"cont_batching", "rope_yarn_enabled", "fit", "flash_attn", "kv_cache_offload",
          "uniform_cache", "swa_full"}
FlipsByCtrlE == Flips \cup {"ignore_eos", "webui", "cache_prompt", "chat_template", "is_mtp"}
Opens == {"system_prompt_preset_name", "yarn_params", "chat_template", "devices",
          "max_concurrent_predictions", "is_mtp", "tags", "backend_version"}
Rings == [load_mode |-> 5, numa |-> 4, split_mode |-> 4]
TensorSplit == 3
QuantTypes == {"cache_type_k", "cache_type_v"}

N(step, lo, hi, typedLo, typedHi, sort) ==
    [step |-> step, lo |-> lo, hi |-> hi, typedLo |-> typedLo, typedHi |-> typedHi, sort |-> sort]

\* The adjust and apply_edit of a row that holds a number.
NumberRows ==
    [context_length |-> N(128, 128, IF Trained > 0 THEN Trained ELSE Endless, 128, Endless, "unsigned"),
     keep           |-> N(1, 0, Endless, -Endless, Endless, "signed"),
     expert_count   |-> N(1, -1, 99, -1, 99, "signed"),
     batch_size     |-> N(64, 1, Endless, 1, Endless, "unsigned"),
     ubatch_size    |-> N(64, 1, Endless, 1, Endless, "unsigned"),
     cache_reuse    |-> N(16, 0, Endless, 0, Endless, "unsigned"),
     max_concurrent_predictions |-> N(1, 1, 10, 1, 10, "unsigned"),
     seed           |-> N(1, -1, Endless, -Endless, Endless, "signed"),
     temperature    |-> N(5, 0, 200, 0, 200, "float"),
     top_k          |-> N(1, 1, Endless, 0, Endless, "signed"),
     top_p          |-> N(5, 0, 100, 0, 100, "float"),
     min_p          |-> N(5, 0, 100, 0, 100, "float"),
     typical_p      |-> N(5, 0, 100, 0, 100, "float"),
     repeat_penalty |-> N(5, 100, 200, 0, 200, "float"),
     repeat_last_n  |-> N(1, 0, Endless, 0, Endless, "signed"),
     presence_penalty  |-> N(5, -200, 200, -200, 200, "float"),
     frequency_penalty |-> N(5, -200, 200, -200, 200, "float"),
     draft_tokens   |-> N(1, 0, 16, 0, 16, "unsigned")]
\* What Ctrl+E turns an Option without a value into.
Options == [max_concurrent_predictions |-> 1, max_tokens |-> 2048,
            presence_penalty |-> 0, frequency_penalty |-> 0, cache_type_k |-> 1, cache_type_v |-> 1]

VARIABLES
    set,        \* app.settings
    rowAt,      \* settings_selected_idx
    expertMode, \* expert_mode
    typed,      \* settings_edit_buffer
    turbo,      \* is_turboquant_backend()
    entered,    \* history: whether the last key was Enter
    fieldKeys   \* keys so far

fieldVars == <<set, rowAt, expertMode, typed, turbo, entered, fieldKeys>>

Clamp(v, lo, hi) == IF v < lo THEN lo ELSE IF v > hi THEN hi ELSE v

\* filtered_fields
IsShown(f, expert, s) ==
    \/ IF expert THEN f \notin Ultra ELSE f \notin Expert
    \/ f = "tensor_split" /\ "split_mode" \in Rows /\ s["split_mode"] = TensorSplit

Listed(rows) ==
    LET listed[n \in Nat] ==
            IF n = 0 THEN <<>>
            ELSE IF AllFields[n] \in rows THEN Append(listed[n - 1], AllFields[n])
            ELSE listed[n - 1]
    IN listed[Len(AllFields)]

FilteredFields(expert, s) == Listed({f \in Rows : IsShown(f, expert, s)})

Shown == FilteredFields(expertMode, set)
Row == IF rowAt < Len(Shown) THEN Shown[rowAt + 1] ELSE "no row"

\* A number of layers as it is written.
Numerals == <<"0", "1", "2", "3", "4", "5", "6", "7", "8", "9">>
Written(n) ==
    LET numeral(power) == Numerals[((n \div power) % 10) + 1]
    IN IF n < 10 THEN <<numeral(1)>>
       ELSE IF n < 100 THEN <<numeral(10), numeral(1)>>
       ELSE <<numeral(100), numeral(10), numeral(1)>>

\* buf.parse()
Sign == IF typed # <<>> /\ typed[1] = "-" THEN -1 ELSE 1
Digits == IF Sign = -1 THEN Tail(typed) ELSE typed
IsNumber(sort) == Digits # <<>> /\ Range(Digits) \subseteq Range(Numerals)
                  /\ (Sign = 1 \/ sort # "unsigned")
Digit(c) == CHOOSE d \in 0 .. 9 : Numerals[d + 1] = c
Number ==
    LET value[n \in 0 .. Len(Digits)] == IF n = 0 THEN 0 ELSE 10 * value[n - 1] + Digit(Digits[n])
    IN Sign * value[Len(Digits)]

\* CacheQuantType 0 .. 11; 9 to 11 are the turbo types, 8 the last of the others.
NextType(t) == (t + 1) % 12
NextWithTurbo(t, on) == IF on THEN NextType(t) ELSE IF t >= 8 THEN 0 ELSE t + 1
PrevWithTurbo(t, on) == IF on THEN (t + 11) % 12 ELSE IF t = 0 \/ t > 8 THEN 8 ELSE t - 1

\* The arrows on the GPU layers: handle_settings_key, and gpu_layers_adjust when the
\* buffer was not empty or for Backspace.
StepLayers(n, d) ==
    CASE n = AutoLayers -> IF d = 1 THEN 1 ELSE Clamp(Layers, 1, 256)
      [] n = AllLayers -> IF d = 1 THEN AutoLayers ELSE Clamp(Layers, 1, 256)
      [] OTHER -> IF d = 1 THEN IF n = Layers THEN AllLayers ELSE n + 1
                  ELSE IF n = 0 THEN AutoLayers ELSE n - 1
AdjustLayers(n, d) ==
    CASE n = AutoLayers -> IF d = 1 THEN 1 ELSE n
      [] n = AllLayers -> IF d = 1 THEN AutoLayers ELSE n
      [] OTHER -> IF d = -1 /\ n = 0 THEN AutoLayers ELSE n + d

\* SettingField::adjust
Adjusted(f, d) ==
    LET v == set[f]
        some == IF v = NoValue THEN 0 ELSE v
    IN CASE f \in DOMAIN Rings -> (v + d) % Rings[f]
         [] f \in QuantTypes -> LET t == IF v = NoValue THEN 1 ELSE v
                                IN IF d = 1 THEN NextWithTurbo(t, turbo) ELSE PrevWithTurbo(t, turbo)
         [] f = "gpu_layers_mode" -> AdjustLayers(v, d)
         [] f = "max_tokens" -> IF some + 16 * d < 16 THEN 16 ELSE some + 16 * d
         [] f \in DOMAIN NumberRows ->
              IF f = "max_concurrent_predictions" /\ v = NoValue THEN 1
              ELSE Clamp(some + d * NumberRows[f].step, NumberRows[f].lo, NumberRows[f].hi)
         [] OTHER -> v

\* SettingField::apply_edit, for what the buffer holds.
Applied(f) ==
    CASE f = "max_tokens" -> IF ~IsNumber("signed") THEN set[f]
                             ELSE IF Number = 0 THEN NoValue
                             ELSE IF Number < 0 THEN Endless + Number   \* as u32
                             ELSE Number
      [] f = "tensor_split" -> 1
      [] f \in DOMAIN NumberRows ->
           LET n == NumberRows[f] IN
           IF ~IsNumber(n.sort) THEN set[f]
           ELSE Clamp(IF n.sort = "float" THEN 100 * Number ELSE Number, n.typedLo, n.typedHi)
      [] OTHER -> set[f]

\* Mutant: what is typed is not held to the range.
AppliedAsTyped(f) ==
    IF f \in DOMAIN NumberRows /\ IsNumber(NumberRows[f].sort)
    THEN IF NumberRows[f].sort = "float" THEN 100 * Number ELSE Number
    ELSE set[f]
-----------------------------------------------------------------------------
Lowest(f) == CASE f \in DOMAIN NumberRows -> NumberRows[f].lo [] f = "max_tokens" -> 16 [] OTHER -> 0
Highest(f) == CASE f \in DOMAIN NumberRows ->
                     IF NumberRows[f].hi < Endless THEN NumberRows[f].hi ELSE NumberRows[f].lo
                [] f \in DOMAIN Options \ DOMAIN NumberRows -> NoValue
                [] f = "gpu_layers_mode" -> AutoLayers
                [] f = "split_mode" -> TensorSplit
                [] OTHER -> Lowest(f)

FieldInit ==
    /\ set \in {[f \in Rows |-> Lowest(f)], [f \in Rows |-> Highest(f)]}
    /\ rowAt = 0 /\ expertMode = FALSE /\ typed = <<>> /\ turbo \in BOOLEAN
    /\ entered = FALSE /\ fieldKeys = 0

PressedEnter(is) ==
    /\ fieldKeys < MaxFieldKeys /\ fieldKeys' = fieldKeys + 1
    /\ entered' = is /\ UNCHANGED turbo
Pressed == PressedEnter(FALSE)
Set(f, v) == set' = [set EXCEPT ![f] = v]

\* Up, Down, Ctrl+U and Ctrl+D leave what is typed, or move by d.
Move(d) ==
    /\ Pressed
    /\ IF typed # <<>> THEN typed' = <<>> /\ UNCHANGED rowAt
       ELSE rowAt' = Clamp(rowAt + d, 0, Len(Shown) - 1) /\ UNCHANGED typed
    /\ UNCHANGED <<set, expertMode>>

\* PageUp and PageDown move whatever is typed.
Page(d) ==
    /\ Pressed /\ rowAt' = Clamp(rowAt + d, 0, Len(Shown) - 1)
    /\ UNCHANGED <<set, expertMode, typed>>

\* Ctrl+X
ToggleExpert ==
    /\ Pressed /\ expertMode' = ~expertMode
    /\ rowAt' = Clamp(rowAt, 0, Len(FilteredFields(~expertMode, set)) - 1)
    /\ UNCHANGED <<set, typed>>

\* Mutant: the row is not looked at again.
ToggleExpertOnly ==
    /\ Pressed /\ expertMode' = ~expertMode
    /\ UNCHANGED <<set, typed, rowAt>>

\* Ctrl+E
ToggleField ==
    /\ Pressed
    /\ LET v == set[Row] IN
       CASE Row \in DOMAIN Options -> Set(Row, IF v = NoValue THEN Options[Row] ELSE NoValue)
         [] Row = "expert_count" -> Set(Row, CASE v = 0 -> 1 [] v = -1 -> 0 [] OTHER -> -1)
         [] Row = "tensor_split" -> Set(Row, 0)
         [] Row \in FlipsByCtrlE -> Set(Row, 1 - v)
         [] OTHER -> UNCHANGED set
    /\ UNCHANGED <<rowAt, expertMode, typed>>

\* Left and Backspace (erases TRUE) take back a character, Right does not look at what is
\* typed; with nothing typed they step.  On the GPU layers any key drops what is typed.
Arrow(d, erases) ==
    /\ Pressed
    /\ CASE Row = "no row" -> UNCHANGED set /\ typed' = (IF d = -1 /\ typed # <<>> THEN Front(typed) ELSE typed)
         [] Row = "gpu_layers_mode" ->
              /\ typed' = <<>>
              /\ Set(Row, IF typed = <<>> /\ ~erases THEN StepLayers(set[Row], d) ELSE AdjustLayers(set[Row], d))
         [] OTHER -> IF d = -1 /\ typed # <<>> THEN typed' = Front(typed) /\ UNCHANGED set
                     ELSE Set(Row, Adjusted(Row, d)) /\ UNCHANGED typed
    /\ UNCHANGED <<rowAt, expertMode>>

\* A digit or the minus sign.
Type(c) ==
    /\ Pressed /\ Len(typed) < MaxTyped
    /\ typed' = IF Row = "gpu_layers_mode" THEN <<c>> ELSE Append(typed, c)
    /\ UNCHANGED <<set, rowAt, expertMode>>

\* Enter flips, goes to the next type, opens the row's picker, or takes what is typed.
Enter ==
    /\ PressedEnter(TRUE)
    /\ CASE Row = "gpu_layers_mode" ->
              IF typed # <<>> THEN typed' = <<>> /\ UNCHANGED set
              ELSE IF set[Row] \in {AutoLayers, AllLayers}
              THEN Set(Row, Clamp(Layers, 1, 256)) /\ UNCHANGED typed
              ELSE typed' = Written(set[Row]) /\ UNCHANGED set
         [] Row \in Flips -> Set(Row, 1 - set[Row]) /\ UNCHANGED typed
         [] Row \in QuantTypes ->
              Set(Row, NextType(IF set[Row] = NoValue THEN 1 ELSE set[Row])) /\ UNCHANGED typed
         [] OTHER -> IF Row \in Opens \/ typed = <<>> THEN UNCHANGED <<set, typed>>
                     ELSE /\ typed' = <<>>
                          /\ IF Row = "no row" THEN UNCHANGED set ELSE Set(Row, Applied(Row))
    /\ UNCHANGED <<rowAt, expertMode>>

Escape ==
    /\ Pressed /\ typed # <<>> /\ typed' = <<>>
    /\ UNCHANGED <<set, rowAt, expertMode>>

FieldNext ==
    \/ \E d \in {-10, -1, 1, 10} : Move(d)
    \/ \E d \in {-5, 5} : Page(d)
    \/ ToggleExpert \/ ToggleField \/ Enter \/ Escape
    \/ Arrow(1, FALSE) \/ Arrow(-1, FALSE) \/ Arrow(-1, TRUE)
    \/ \E c \in Typed : Type(c)

FieldSpec == FieldInit /\ [][FieldNext]_fieldVars
-----------------------------------------------------------------------------
FieldTypeOK ==
    /\ DOMAIN set = Rows /\ rowAt \in Nat /\ expertMode \in BOOLEAN /\ {turbo, entered} \subseteq BOOLEAN
    /\ typed \in Seq(Typed \cup Range(Numerals)) /\ Len(typed) <= MaxTyped

\* Whichever keys led there, each number is one its row may have, stepped to or typed,
\* and the selected row is one of those shown, in both modes.  (settings.rs:311, key.rs:87)
PanelIsSound ==
    /\ \A f \in DOMAIN NumberRows \cap Rows :
          LET n == NumberRows[f] IN
          \/ f \in DOMAIN Options /\ set[f] = NoValue
          \/ set[f] \in n.lo .. n.hi \/ set[f] \in n.typedLo .. n.typedHi
    /\ \A f \in DOMAIN Rings \cap Rows : set[f] \in 0 .. Rings[f] - 1
    /\ Row # "no row"

\* Enter takes the number of layers that was typed.  Fails: any key on that row drops
\* what is typed, so no number ever is.
TypedLayersAreTaken ==
    [][Row = "gpu_layers_mode" /\ IsNumber("unsigned") /\ entered' => set'[Row] = Number]_fieldVars
=============================================================================
