-------------------------------- MODULE Presets --------------------------------
(***************************************************************************)
(* The system prompt presets: a NamedStore, a directory of files with a    *)
(* map in memory that is built from it at the start, and the two places    *)
(* that edit it, the presets panel, which knows a preset by its index in   *)
(* the merged list, and the prompt picker, which has a copy of the names.  *)
(* User presets are called "Custom 1", "Custom 2", ...: here 1, 2, ...;    *)
(* the built-in ones are negative.                                         *)
(***************************************************************************)
EXTENDS Integers, Sequences, FiniteSets, SequencesExt

CONSTANTS
    Builtins,   \* the number of built-in presets
    MaxPresets, \* bound: user presets at a time
    Texts,      \* what the user types
    MaxFaults   \* bound: file operations that fail

Blank == "blank"        \* the content of a new preset
Builtin == "builtin"    \* the content of a built-in one
PresetNames == 1 .. MaxPresets + 1

VARIABLES
    store,      \* NamedStore.cache: the contents of the user presets
    order,      \* their order in the HashMap
    presetFiles,      \* the directory
    presetPanel,      \* the panel: the index selected and the index being edited
    picker,     \* the picker: entries, selected, editing, or nothing when it is closed
    buffer,     \* the text of the editor that is open
    subject,    \* history: the preset the editor was opened for
    failures

vars == <<store, order, presetFiles, presetPanel, picker, buffer, subject, failures>>

NotEditing == 0
NoOne == 0
Closed == {}

BuiltinNames == [i \in 1 .. Builtins |-> -i]

\* NamedStore::all, and merged_presets: the built-in ones first, then the map.
Merged == BuiltinNames \o order
Content(name) == IF name < 0 THEN Builtin ELSE IF name \in DOMAIN store THEN store[name] ELSE Blank

Init ==
    /\ order \in {o \in SetToAllKPermutations(PresetNames) : Len(o) < MaxPresets}
    /\ store = [n \in Range(order) |-> Blank] /\ presetFiles = store
    \* the cursor is where it was in the settings panel, which may be longer
    /\ presetPanel \in [at : {1, Builtins + MaxPresets + 1}, editing : {NotEditing}]
    /\ picker = Closed /\ buffer = Blank /\ subject = NoOne /\ failures = 0

TypeOK ==
    /\ store \in [Range(order) -> Texts \cup {Blank, Builtin}]
    /\ DOMAIN presetFiles \subseteq PresetNames /\ Len(Merged) = Builtins + Cardinality(DOMAIN store)
    /\ presetPanel.at > 0 /\ presetPanel.editing >= NotEditing /\ Cardinality(picker) <= 1
    /\ \A p \in picker : p.selected \in DOMAIN p.entries

-----------------------------------------------------------------------------
(* The store.                                                               *)

WriteFails == failures < MaxFaults /\ failures' = failures + 1

\* A new key goes anywhere in the map, and may move the others.
Inserted(name) ==
    IF name \in DOMAIN store THEN order' = order
    ELSE order' \in SetToSeqs(DOMAIN store \cup {name})

\* A map with what another one has written over it, and with one more entry.
Over(new, old) ==
    [n \in DOMAIN new \cup DOMAIN old |-> IF n \in DOMAIN new THEN new[n] ELSE old[n]]
With(map, name, text) == Over([n \in {name} |-> text], map)
Without(map, name) == Restrict(map, DOMAIN map \ {name})

\* save_yaml and the insertion: the map has the preset even when the file has not.
Save(name, text) ==
    /\ Inserted(name)
    /\ store' = With(store, name, text)

\* Config::save writes every user preset of the map; it removes no file.
AllWritten == Over(store', presetFiles)
NoneWritten == presetFiles

Write(written) ==
    \/ presetFiles' = written /\ UNCHANGED failures
    \/ WriteFails /\ presetFiles' = NoneWritten

\* Mutant: the file stays where it is.
ForgetOnly(name) ==
    /\ store' = Without(store, name) /\ order' = Remove(order, name)
    /\ Write(AllWritten)

\* move_to_unused, whatever comes of it, and the map; then Config::save.
Delete(name) ==
    /\ store' = Without(store, name) /\ order' = Remove(order, name)
    /\ Write(Over(store', Without(presetFiles, name)))

NextName == Cardinality(DOMAIN store) + 1

-----------------------------------------------------------------------------
(* The panel.                                                               *)

InPanel == picker = Closed
Listing == InPanel /\ presetPanel.editing = NotEditing

MoveInPanel ==
    /\ Listing
    /\ \E to \in {presetPanel.at - 1, presetPanel.at + 1} :
           presetPanel' = [presetPanel EXCEPT !.at = IF to > Len(Merged) THEN Len(Merged) ELSE IF to < 1 THEN 1 ELSE to]
    /\ UNCHANGED <<store, order, presetFiles, picker, buffer, subject, failures>>

EditInPanel ==
    /\ Listing /\ presetPanel.at <= Len(Merged)
    /\ buffer' = Content(Merged[presetPanel.at]) /\ subject' = Merged[presetPanel.at]
    /\ presetPanel' = [presetPanel EXCEPT !.editing = presetPanel.at]
    /\ UNCHANGED <<store, order, presetFiles, picker, failures>>

\* 'n': the name is the number of user presets plus one, taken or not, and the
\* last of the merged list is opened.
CreateInPanel ==
    /\ Listing /\ Len(order) < MaxPresets
    /\ Save(NextName, Blank)
    /\ Write(With(presetFiles, NextName, Blank))
    /\ presetPanel' = [at |-> Builtins + Len(order'), editing |-> Builtins + Len(order')]
    /\ buffer' = Blank /\ subject' = NextName
    /\ UNCHANGED picker

\* Ctrl+S never reaches the panel, which would save the preset: it saves the settings of the
\* model, and the configuration with every preset of the map.  The text stays open.
SaveSettings ==
    /\ InPanel /\ UNCHANGED <<store, order, presetPanel, picker, buffer, subject>>
    /\ Write(AllWritten)

\* 'd': an index past the end ends the program.
DeleteInPanel ==
    /\ Listing /\ presetPanel.at > Builtins /\ presetPanel.at <= Len(Merged)
    /\ Delete(Merged[presetPanel.at])
    /\ presetPanel' = [presetPanel EXCEPT !.at = IF @ > Builtins + Len(order') THEN Builtins + Len(order') ELSE @]
    /\ UNCHANGED <<picker, buffer, subject>>

-----------------------------------------------------------------------------
(* The picker.                                                              *)

OpenPicker ==
    /\ Listing
    /\ picker' = {[entries |-> Merged, selected |-> 1, editing |-> FALSE]}
    /\ UNCHANGED <<store, order, presetFiles, presetPanel, buffer, subject, failures>>

\* Mutant: the end of the entries is not looked at.
MovePastTheEnd ==
    /\ \E p \in picker, to \in 1 .. Builtins + MaxPresets :
           ~p.editing /\ picker' = {[p EXCEPT !.selected = to]}
    /\ UNCHANGED <<store, order, presetFiles, presetPanel, buffer, subject, failures>>

MoveInPicker ==
    /\ \E p \in picker, to \in 1 .. Builtins + MaxPresets :
           ~p.editing /\ to \in DOMAIN p.entries /\ picker' = {[p EXCEPT !.selected = to]}
    /\ UNCHANGED <<store, order, presetFiles, presetPanel, buffer, subject, failures>>

\* The wheel of the mouse, while the preset is edited as well.
WheelInPicker ==
    /\ \E p \in picker : \E to \in DOMAIN p.entries : picker' = {[p EXCEPT !.selected = to]}
    /\ UNCHANGED <<store, order, presetFiles, presetPanel, buffer, subject, failures>>

EditInPicker ==
    /\ \E p \in picker :
        /\ ~p.editing /\ picker' = {[p EXCEPT !.editing = TRUE]}
        /\ buffer' = Content(p.entries[p.selected]) /\ subject' = p.entries[p.selected]
    /\ UNCHANGED <<store, order, presetFiles, presetPanel, failures>>

\* 'n': the name is added to the entries though it may be there.
CreateInPicker ==
    /\ \E p \in picker :
        /\ ~p.editing /\ Len(p.entries) < Builtins + MaxPresets
        /\ picker' = {[entries |-> Append(p.entries, NextName),
                       selected |-> Len(p.entries) + 1, editing |-> TRUE]}
    /\ Save(NextName, Blank)
    /\ Write(With(presetFiles, NextName, Blank))
    /\ buffer' = Blank /\ subject' = NextName
    /\ UNCHANGED presetPanel

\* Ctrl+S: the preset is found by its name, if it is still there.
SaveInPicker ==
    /\ \E p \in picker :
        /\ p.editing /\ picker' = {[p EXCEPT !.editing = FALSE]}
        /\ LET name == p.entries[p.selected]
           IN IF name \notin DOMAIN store
              THEN UNCHANGED <<store, order, presetFiles, failures>>
              ELSE Save(name, buffer) /\ Write(AllWritten)
    /\ subject' = NoOne
    /\ UNCHANGED <<presetPanel, buffer>>

\* 'd' and 'y': built-in presets are refused.
DeleteInPicker ==
    /\ \E p \in picker :
        /\ ~p.editing /\ p.selected > Builtins
        /\ LET left == RemoveAt(p.entries, p.selected)
           IN picker' = {[p EXCEPT !.entries = left,
                                   !.selected = IF @ > Len(left) THEN Len(left) ELSE @]}
        /\ Delete(p.entries[p.selected])
    /\ UNCHANGED <<presetPanel, buffer, subject>>

ClosePicker ==
    /\ \E p \in picker : ~p.editing
    /\ picker' = Closed
    /\ UNCHANGED <<store, order, presetFiles, presetPanel, buffer, subject, failures>>

-----------------------------------------------------------------------------
Editing == presetPanel.editing # NotEditing \/ \E p \in picker : p.editing

Type ==
    /\ Editing /\ buffer' \in Texts
    /\ UNCHANGED <<store, order, presetFiles, presetPanel, picker, subject, failures>>

Escape ==
    /\ Editing
    /\ presetPanel' = [presetPanel EXCEPT !.editing = NotEditing]
    /\ picker' = {[p EXCEPT !.editing = FALSE] : p \in picker}
    /\ subject' = NoOne
    /\ UNCHANGED <<store, order, presetFiles, buffer, failures>>

\* The end of the program, an index past the end among them, and a new start.
Restart ==
    /\ store' = presetFiles /\ order' \in SetToSeqs(DOMAIN presetFiles)
    /\ presetPanel' = [at |-> 1, editing |-> NotEditing] /\ picker' = Closed
    /\ buffer' = Blank /\ subject' = NoOne
    /\ UNCHANGED <<presetFiles, failures>>

Next ==
    \/ MoveInPanel \/ EditInPanel \/ CreateInPanel \/ SaveSettings \/ DeleteInPanel
    \/ OpenPicker \/ MoveInPicker \/ WheelInPicker \/ EditInPicker \/ CreateInPicker
    \/ SaveInPicker \/ DeleteInPicker \/ ClosePicker \/ Type \/ Escape \/ Restart

Spec == Init /\ [][Next]_vars

-----------------------------------------------------------------------------
(***************************************************************************)
(* Properties.                                                             *)
(***************************************************************************)

\* What a restart would find is what the program shows, as long as no file
\* operation failed: nothing deleted returns and nothing edited is lost.
FilesAgree == failures = 0 => presetFiles = store

\* Saving changes the preset the editor was opened for and no other.
EditsItsSubject ==
    [][\A n \in DOMAIN store \cap DOMAIN store' :
            Editing /\ store'[n] # store[n] => n = subject \/ store' = presetFiles]_vars
=============================================================================
