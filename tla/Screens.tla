-------------------------------- MODULE Screens --------------------------------
(***************************************************************************)
(* What is on the screen of the terminal program and who gets the keys.    *)
(* Beside the panels there are an overlay (GlobalMode), a list picker, the *)
(* tags, the output of a benchmark's test and the help: each is opened and *)
(* closed on its own, handle_key asks them in one order, render_overlays   *)
(* in another.                                                             *)
(***************************************************************************)
EXTENDS Naturals

\* Overlays that the key Esc closes, whatever they hold.
Pickers == {"About", "BackendPicker", "ChatTemplatePicker", "CmdLine", "CommandPalette",
            "DashboardUrl", "GgufNaming", "GpuDevicePicker", "HostPicker",
            "MaxConcurrentPicker", "ModelSettingsPicker", "Onboarding", "ProfilePicker",
            "SearchInput"}

\* Overlays in which a field, a value or a matrix is opened first.
Editors == {"ApiEndpointPicker", "BenchTuneSetup", "DashboardPicker",
            "LlamaServerOptionsPicker", "PromptPicker", "WebSearchPicker", "YarnRoPESettings"}

Modes == Pickers \cup Editors \cup
         {"Normal", "Confirmation", "DeleteBackend", "ChatTemplateFilePicker",
          "DirectoryPicker", "ProfileCreate", "RpcManager"}

\* "other" are those that take a few keys of their own or none.
Panels == {"Models", "ServerSettings", "LlmSettings", "other"}

VARIABLES
    screen,     \* see TypeOK
    bench       \* whether a sweep may start: BenchTuneSetup was confirmed

vars == <<screen, bench>>

TypeOK ==
    /\ screen \in [mode : Modes,            \* a confirmation is of two kinds
                   inner : BOOLEAN,         \* an editor has a field open
                   rpc : {"view", "worker", "split"},   \* editing_rpc_worker, or its tensor split
                   list : {"closed", "choose", "edit"},
                   tags : BOOLEAN,
                   help : BOOLEAN,
                   output : BOOLEAN,        \* bench_tune_output_view
                   log : BOOLEAN,           \* log_expanded
                   filter : BOOLEAN,        \* filtering_local
                   models : {"Empty", "List", "Search", "Files", "BenchTune"},
                   focus : Panels]
    /\ bench \in BOOLEAN

\* The first start of a program that has no models, and a later one that has.
Init ==
    /\ screen \in [mode : {"Normal", "Onboarding"}, inner : {FALSE}, rpc : {"view"},
                   list : {"closed"}, tags : {FALSE}, help : {FALSE}, output : {FALSE},
                   log : {FALSE}, filter : {FALSE}, models : {"Empty", "List"},
                   focus : {"Models"}]
    /\ bench = FALSE

\* The manager of the RPC workers forgets which one was edited, not which split.
Opened(mode) ==
    [screen EXCEPT !.mode = mode, !.inner = FALSE,
                   !.rpc = IF mode = "RpcManager" /\ @ = "worker" THEN "view" ELSE @]

-----------------------------------------------------------------------------
(* The order of handle_key and the order of render_overlays.                *)

Handled(s) == s.mode \notin {"Normal", "DirectoryPicker"}

\* Who gets a key that opens nothing.
Taker(s) ==
    CASE s.list # "closed"                  -> "list"
      [] s.list = "closed" /\ Handled(s)    -> s.mode
      [] s.list = "closed" /\ ~Handled(s) ->
           CASE s.tags                                              -> "tags"
             [] ~s.tags /\ s.models \in {"Search", "Files"}         -> s.models
             [] ~s.tags /\ s.models \notin {"Search", "Files"} ->
                  CASE s.output                                     -> "output"
                    [] ~s.output /\ s.models = "BenchTune"          -> "BenchTune"
                    [] ~s.output /\ s.models # "BenchTune" ->
                         IF s.help /\ ~s.filter THEN "help" ELSE s.focus

OverTags == {"CmdLine", "Confirmation", "DeleteBackend", "HostPicker", "ProfilePicker",
             "PromptPicker"}
UnderOutput == {"GgufNaming", "Onboarding", "WebSearchPicker", "LlamaServerOptionsPicker",
                "ModelSettingsPicker", "ProfileCreate", "CommandPalette"}

\* What is drawn over the panels.
Drawn(s) ==
    CASE s.help                                                 -> "help"
      [] ~s.help /\ s.list # "closed"                           -> "list"
      [] ~s.help /\ s.list = "closed" ->
           CASE s.mode \in OverTags                             -> s.mode
             [] s.mode \notin OverTags /\ s.tags                -> "tags"
             [] s.mode \notin OverTags /\ ~s.tags ->
                  IF s.output /\ (s.mode \in UnderOutput \/ ~Handled(s)) THEN "output"
                  ELSE IF Handled(s) THEN s.mode ELSE "panels"

-----------------------------------------------------------------------------
(* Esc.                                                                     *)

\* The list picker: an open value first.
EscList(s) == [s EXCEPT !.list = IF @ = "edit" THEN "choose" ELSE "closed"]

EscConfirmation(s) ==
    [s EXCEPT !.mode = IF @ = "DeleteBackend" THEN "BackendPicker" ELSE "Normal"]

\* Mutant: the field that is open does not close.
EscKeepsField(s) == IF s.inner THEN s ELSE [s EXCEPT !.mode = "Normal"]

EscEditor(s) == IF s.inner THEN [s EXCEPT !.inner = FALSE] ELSE [s EXCEPT !.mode = "Normal"]

EscRpc(s) == IF s.rpc # "view" THEN [s EXCEPT !.rpc = "view"] ELSE [s EXCEPT !.mode = "Normal"]

EscOverlay(s) ==
    CASE s.mode \in Pickers                         -> [s EXCEPT !.mode = "Normal"]
      [] s.mode \in Editors                         -> EscEditor(s)
      [] s.mode \in {"Confirmation", "DeleteBackend"} -> EscConfirmation(s)
      [] s.mode = "ChatTemplateFilePicker"          -> [s EXCEPT !.mode = "ChatTemplatePicker"]
      [] s.mode = "ProfileCreate"                   -> [s EXCEPT !.mode = "ModelSettingsPicker"]
      [] s.mode = "RpcManager"                      -> EscRpc(s)

\* The models panel: back from the files to the search, and to the list.
EscSearch(s) == [s EXCEPT !.models = IF @ = "Files" THEN "Search" ELSE "List"]
EscBench(s) == [s EXCEPT !.models = "List"]
EscOutput(s) == [s EXCEPT !.output = FALSE]
EscTags(s) == [s EXCEPT !.tags = FALSE]

EscPanel(s) ==
    IF s.focus = "Models" /\ s.models # "Empty" THEN [s EXCEPT !.filter = FALSE] ELSE s

EscOf(s) ==
    CASE Taker(s) = "list"  -> EscList(s)
      [] Taker(s) = "tags"  -> EscTags(s)
      [] Taker(s) = s.mode  -> EscOverlay(s)
      [] Taker(s) \notin {"list", "tags", s.mode} ->
           IF s.log /\ ~s.filter THEN [s EXCEPT !.log = FALSE]
           ELSE CASE Taker(s) \in {"Search", "Files"} -> EscSearch(s)
                  [] Taker(s) = "output"              -> EscOutput(s)
                  [] Taker(s) = "BenchTune"           -> EscBench(s)
                  [] Taker(s) = "help"                -> [s EXCEPT !.help = FALSE]
                  [] OTHER                            -> EscPanel(s)

Esc == screen' = EscOf(screen) /\ UNCHANGED bench

-----------------------------------------------------------------------------
(* Opening.                                                                 *)

\* Ctrl+U, Ctrl+G, Ctrl+P and Ctrl+O replace whatever overlay there is; the rest of
\* the screen stays.
GlobalShortcut ==
    /\ \E mode \in {"DashboardUrl", "GgufNaming", "ProfilePicker", "Onboarding"} :
           screen' = Opened(mode)
    /\ UNCHANGED bench

\* Ctrl+Space, and "/" while searching, are only looked at without an overlay.
OpenPalette == screen.mode = "Normal" /\ screen' = Opened("CommandPalette") /\ UNCHANGED bench
SearchAgain ==
    /\ screen.mode = "Normal" /\ screen.models = "Search"
    /\ screen' = Opened("SearchInput")
    /\ UNCHANGED bench

ToPanel(s) == s.list = "closed" /\ ~Handled(s) /\ ~s.tags

Searching(s) ==
    [s EXCEPT !.focus = "Models", !.models = "Search", !.mode = "SearchInput",
              !.inner = FALSE, !.log = FALSE]

\* The keys that come before the panels, and before the help.
Shortcut ==
    /\ ToPanel(screen)
    /\ \/ \E mode \in {"Confirmation", "CmdLine", "About"} : screen' = Opened(mode)
       \/ screen' = [screen EXCEPT !.help = ~@]
       \/ screen' = Searching(screen)
    /\ UNCHANGED bench

\* The wheel moves through these, and a click is lost.
Clicked(s) ==
    s.list = "closed" /\ s.mode \notin {"BackendPicker", "HostPicker", "PromptPicker", "ProfilePicker"}

\* F-keys, with Ctrl over any overlay; Tab; a click, over most.
Focus ==
    /\ \E panel \in Panels :
        /\ panel \in {"ServerSettings", "LlmSettings"} \/ Clicked(screen)
        /\ screen' = [screen EXCEPT !.focus = panel]
    /\ UNCHANGED bench

\* "t" opens the tags, also under the help.
OpenTags ==
    /\ ToPanel(screen) /\ screen.focus = "LlmSettings"
    /\ screen' = [screen EXCEPT !.tags = TRUE]
    /\ UNCHANGED bench

FromModels ==
    /\ Taker(screen) = "Models" /\ UNCHANGED bench
    /\ IF screen.models = "Empty"
       THEN \/ screen' = [screen EXCEPT !.models = "Search", !.log = FALSE]
            \/ screen' = Opened("DirectoryPicker")
       ELSE IF screen.filter THEN screen' = [screen EXCEPT !.filter = FALSE]
       ELSE \/ screen' = [screen EXCEPT !.filter = TRUE]
            \/ \E mode \in {"Confirmation", "BenchTuneSetup"} : screen' = Opened(mode)

FromServerSettings ==
    /\ Taker(screen) = "ServerSettings" /\ UNCHANGED bench
    /\ \E mode \in {"HostPicker", "BackendPicker", "ApiEndpointPicker", "DashboardPicker",
                    "LlamaServerOptionsPicker", "RpcManager", "WebSearchPicker"} :
           screen' = Opened(mode)

FromLlmSettings ==
    /\ Taker(screen) = "LlmSettings" /\ UNCHANGED bench
    /\ \/ \E mode \in {"PromptPicker", "ChatTemplatePicker", "GpuDevicePicker",
                       "MaxConcurrentPicker", "YarnRoPESettings", "ModelSettingsPicker",
                       "Confirmation"} : screen' = Opened(mode)
       \/ screen' = [screen EXCEPT !.list = "choose"]

FromLog ==
    /\ Taker(screen) = "other" /\ ~screen.log
    /\ screen' = [screen EXCEPT !.log = TRUE]
    /\ UNCHANGED bench

FromSearch ==
    /\ Taker(screen) = "Search" /\ screen' = [screen EXCEPT !.models = "Files"]
    /\ UNCHANGED bench

-----------------------------------------------------------------------------
(* The overlays.                                                            *)

ListEnter ==
    /\ Taker(screen) = "list"
    /\ \/ screen' = [screen EXCEPT !.list = "closed"]
       \/ screen.list = "choose" /\ screen' = [screen EXCEPT !.list = "edit"]
    /\ UNCHANGED bench

\* Enter on the last tag, or with nothing typed.
TagsEnter == Taker(screen) = "tags" /\ screen' = EscTags(screen) /\ UNCHANGED bench

\* execute_action: the palette closes first.
PaletteEnter ==
    /\ Taker(screen) = "CommandPalette" /\ UNCHANGED bench
    /\ \/ \E mode \in {"Normal", "About", "RpcManager", "CmdLine", "DashboardUrl",
                       "ProfilePicker", "Onboarding", "WebSearchPicker", "GgufNaming",
                       "Confirmation"} :
              screen' = Opened(mode)
       \/ \E panel \in Panels : screen' = [Opened("Normal") EXCEPT !.focus = panel]
       \/ screen' = [Opened("Normal") EXCEPT !.help = TRUE]
       \/ screen' = Searching(screen)

EditField ==
    /\ Taker(screen) \in Editors /\ screen' = [screen EXCEPT !.inner = ~@]
    /\ UNCHANGED bench

EditWorker ==
    /\ Taker(screen) = "RpcManager"
    /\ \E edited \in {"view", "worker", "split"} :
        /\ edited = "view" \/ screen.rpc = "view"
        /\ screen' = [screen EXCEPT !.rpc = edited]
    /\ UNCHANGED bench

\* A choice, Enter for most of them, closes a picker.  The matrix of BenchTuneSetup
\* has a "q" to leave both.
Choose ==
    /\ \/ /\ Taker(screen) \in Pickers \cup {"Confirmation", "ChatTemplateFilePicker"}
          /\ Taker(screen) \notin {"About", "CmdLine", "DashboardUrl"}
       \/ Taker(screen) = "PromptPicker" /\ ~screen.inner
       \/ Taker(screen) = "BenchTuneSetup" /\ screen.inner
    /\ screen' = Opened("Normal")
    /\ UNCHANGED bench

ConfirmBackend ==
    /\ Taker(screen) = "DeleteBackend" /\ screen' = Opened("BackendPicker")
    /\ UNCHANGED bench

DeleteVersion ==
    /\ Taker(screen) = "BackendPicker" /\ screen' = Opened("DeleteBackend")
    /\ UNCHANGED bench

TemplateFiles ==
    /\ Taker(screen) = "ChatTemplatePicker" /\ screen' = Opened("ChatTemplateFilePicker")
    /\ UNCHANGED bench

\* "+ New profile" and its confirmation; deleting a profile asks first.
SettingsProfiles ==
    /\ UNCHANGED bench
    /\ \/ /\ Taker(screen) = "ModelSettingsPicker"
          /\ \E mode \in {"ProfileCreate", "Confirmation"} : screen' = Opened(mode)
       \/ Taker(screen) = "ProfileCreate" /\ screen' = Opened("ModelSettingsPicker")

BenchTuneSetupEnter ==
    /\ Taker(screen) = "BenchTuneSetup" /\ screen' = Opened("Normal") /\ bench' = TRUE

\* The spawn was resolved: whatever is on the screen, the models panel shows the sweep.
SweepStarts ==
    /\ bench /\ bench' = FALSE /\ screen' = [screen EXCEPT !.models = "BenchTune"]

ShowOutput ==
    /\ Taker(screen) = "BenchTune" /\ screen' = [screen EXCEPT !.output = TRUE]
    /\ UNCHANGED bench

Next ==
    \/ Esc \/ GlobalShortcut \/ OpenPalette \/ SearchAgain \/ Shortcut \/ Focus \/ OpenTags
    \/ FromModels \/ FromServerSettings \/ FromLlmSettings \/ FromLog \/ FromSearch
    \/ ListEnter \/ TagsEnter \/ PaletteEnter \/ EditField \/ EditWorker \/ Choose
    \/ ConfirmBackend \/ DeleteVersion \/ TemplateFiles \/ SettingsProfiles
    \/ BenchTuneSetupEnter \/ SweepStarts \/ ShowOutput

Spec == Init /\ [][Next]_vars

-----------------------------------------------------------------------------
(***************************************************************************)
(* Properties.                                                             *)
(***************************************************************************)

\* The screen after Esc was pressed n times.
AfterEsc[n \in Nat] == IF n = 0 THEN screen ELSE EscOf(AfterEsc[n - 1])

\* Whatever was opened over whatever else, Esc alone leads back to the panels: no
\* two of them hand the key to each other for ever.  Left open are the filter of the
\* models while another panel has the focus and, with it, the log and the help.
EscLeaves ==
    LET last == AfterEsc[12]
    IN /\ last.mode \in {"Normal", "DirectoryPicker"}
       /\ last.list = "closed" /\ ~last.tags /\ ~last.output
       /\ last.models \in {"Empty", "List"}
       /\ last.log \/ last.help => last.filter /\ last.focus # "Models"

\* "Skip normal key handling when panel help is showing": while the help is shown
\* no key reaches what is under it, but for the filter of the models.
HelpTakesTheKeys == Drawn(screen) = "help" /\ ~screen.filter => Taker(screen) = "help"
=============================================================================
