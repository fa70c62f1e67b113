--------------------------- MODULE SettingsProofs ---------------------------
(***************************************************************************)
(* Type correctness of Settings; that no edit, save, reset or deletion of  *)
(* one model changes a setting of another; and that settings shown as      *)
(* unchanged are the stored ones: for every set of models, profiles and    *)
(* values, and any number of edits and failed writes.  The same question   *)
(* about the copies of the settings of the web search.  And that the       *)
(* editors of MCTerminal, the setup of a sweep, the panel of the settings  *)
(* and the lists, leave what they edit sound, and that the names of files  *)
(* come back.                                                              *)
(***************************************************************************)
EXTENDS MCTerminal, SequenceTheorems, FiniteSetTheorems, WellFoundedInduction, TLAPS

\* What the proofs need of the constants: "none" names no model and no profile, and
\* the values of the files of an earlier use are values.
ProperConstants ==
    /\ None \notin Models /\ Models # {}
    /\ {0, 1} \subseteq Values
    /\ MaxEdits \in Nat /\ MaxFaults \in Nat

-----------------------------------------------------------------------------
(* What the operators return.                                              *)

\* The factory settings are settings.
LEMMA FactoryType == ASSUME ProperConstants PROVE Factory \in Record
  BY DEF ProperConstants, Factory, Record, Kinds, Options

\* So is what a missing file stands for.
LEMMA NoFileType == NoFile \in Record
  BY DEF NoFile, Record

\* Applying an override to settings gives settings.
LEMMA ApplyType ==
    ASSUME NEW o \in Record, NEW under \in Record PROVE Apply(o, under) \in Record
  BY DEF Apply, Record

\* Resolving gives settings, for no model too.
LEMMA ResolveType ==
    ASSUME NEW c \in Config, NEW m \in Models \cup {None} PROVE Resolve(c, m) \in Record
<1>1. c.default \in Record
  BY DEF Config
<1>2. CASE m = None
  BY <1>1, <1>2 DEF Resolve
<1>3. CASE m # None
  <2>1. c.over[m] \in Record
    BY <1>3 DEF Config
  <2>2. Apply(c.over[m], c.default) \in Record
    BY <1>1, <2>1, ApplyType
  <2> QED
    BY <1>1, <2>2 DEF Resolve
<1> QED
  BY <1>2, <1>3

\* A profile, active or not, gives settings.
LEMMA ProfileType ==
    ASSUME TypeOK, NEW c \in Config, NEW m \in Models \cup {None}
    PROVE  ActiveProfile(c, m) \in Record
<1>1. CASE m = None \/ active[m] = None
  BY <1>1, NoFileType DEF ActiveProfile
<1>2. CASE ~(m = None \/ active[m] = None)
  <2>1. m \in Models /\ active[m] \in Profiles
    BY <1>2 DEF TypeOK
  <2>2. c.profile[m][active[m]] \in Record
    BY <2>1 DEF Config
  <2> QED
    BY <1>2, <2>2 DEF ActiveProfile
<1> QED
  BY <1>1, <1>2

\* What is loaded for a model is settings.
LEMMA ResolvedType ==
    ASSUME TypeOK, NEW c \in Config, NEW m \in Models \cup {None}
    PROVE  ResolveWithProfile(c, m) \in Record
  BY ProfileType, ResolveType DEF ResolveWithProfile

\* What the files become, whichever write fails.
LEMMA SavedType ==
    ASSUME ProperConstants, NEW c \in Config, NEW kept \in Config, NEW ok \in BOOLEAN, TypeOK,
           ConfigSavedAs(c, ok, kept)
    PROVE  disk' \in Config /\ intact' \in BOOLEAN /\ faults' \in 0 .. MaxFaults
<1>1. Written(c, kept) \in Config
  <2>1. [m \in Models |-> IF c.over[m] # NoFile THEN c.over[m] ELSE kept.over[m]] \in [Models -> Record]
    BY DEF Config
  <2>2. Written(c, kept) = [kept EXCEPT !.default = c.default,
                               !.over = [m \in Models |-> IF c.over[m] # NoFile THEN c.over[m]
                                                          ELSE kept.over[m]]]
    BY DEF Written, Config
  <2>3. c.default \in Record
    BY DEF Config
  <2> QED
    BY <2>1, <2>2, <2>3 DEF Config
<1>2. [kept EXCEPT !.default = c.default] \in Config
  BY DEF Config
<1>3. WriteFails => faults' \in 0 .. MaxFaults
  BY DEF WriteFails, TypeOK, ProperConstants
<1>4. faults \in 0 .. MaxFaults
  BY DEF TypeOK
<1> QED
  BY <1>1, <1>2, <1>3, <1>4 DEF ConfigSavedAs

-----------------------------------------------------------------------------
(* Type correctness.                                                       *)

\* The files of a first and of an earlier use are well typed.
LEMMA InitTyped == ASSUME ProperConstants, Init PROVE TypeOK
<1>1. Empty \in Config
  BY FactoryType, NoFileType DEF Empty, Config
<1>2. Used \in Config
  <2> DEFINE some == CHOOSE m \in Models : TRUE
             over == [Factory EXCEPT !["own"] = 1, !["version"] = 1,
                                     !["common"] = Unset]
             default == [Factory EXCEPT !["opt"] = 1, !["version"] = 1]
  <2>1. over \in Record /\ default \in Record
    BY FactoryType DEF ProperConstants, Record, Kinds
  <2>2. some \in Models
    BY DEF ProperConstants
  <2>3. Used = [Empty EXCEPT !.default = default, !.over = [Empty.over EXCEPT ![some] = over]]
    BY DEF Used, Empty
  <2> HIDE DEF some, over, default
  <2>4. [Empty.over EXCEPT ![some] = over] \in [Models -> Record]
    BY <1>1, <2>1, <2>2 DEF Config
  <2> QED
    BY <1>1, <2>1, <2>3, <2>4 DEF Config
<1>3. memory \in Config /\ memory.default \in Record
  BY <1>1, <1>2 DEF Init, Config
<1>4. settings \in Record /\ cached \in Record /\ disk \in Config
  BY <1>3 DEF Init
<1>5. active \in [Models -> Profiles \cup {None}]
  BY DEF Init
<1>6. edits \in 0 .. MaxEdits /\ faults \in 0 .. MaxFaults
  BY DEF Init, ProperConstants
<1> QED
  BY <1>3, <1>4, <1>5, <1>6 DEF Init, TypeOK

\* A change of one field.
LEMMA ChangeType ==
    ASSUME ProperConstants, TypeOK, NEW k \in Kinds, Change(k)
    PROVE  settings' \in Record /\ edits' \in 0 .. MaxEdits
<1>1. edits' \in 0 .. MaxEdits
  BY DEF Change, TypeOK, ProperConstants
<1>2. PICK v \in Values \cup {Unset} : settings' = [settings EXCEPT ![k] = v]
  BY DEF Change
<1>3. settings' \in Record
  BY <1>2 DEF TypeOK, Record
<1> QED
  BY <1>1, <1>3

\* What selecting, applying and starting again load.
LEMMA LoadsTyped ==
    ASSUME ProperConstants, TypeOK, SelectModel \/ Deselect \/ ApplyProfile \/ ResetToDefaults
    PROVE  TypeOK'
<1>1. CASE SelectModel
  <2>1. PICK m \in Models : selected' = m /\ LoadSettings(memory, m)
    BY <1>1 DEF SelectModel
  <2>2. settings' \in Record /\ cached' \in Record /\ loose' = FALSE
    BY <2>1, ResolvedType DEF LoadSettings, TypeOK
  <2> QED
    BY <1>1, <2>1, <2>2 DEF SelectModel, TypeOK
<1>2. CASE Deselect
  <2>1. memory.default \in Record
    BY DEF TypeOK, Config
  <2> QED
    BY <1>2, <2>1 DEF Deselect, TypeOK
<1>3. CASE ApplyProfile
  <2>1. PICK p \in Profiles :
          /\ selected # None /\ active' = [active EXCEPT ![selected] = p]
          /\ settings' = memory.profile[selected][p] /\ cached' = settings' /\ loose' = FALSE
          /\ UNCHANGED <<memory, disk, selected, intact, edits, faults>>
    BY <1>3 DEF ApplyProfile
  <2>2. selected \in Models
    BY <2>1 DEF TypeOK
  <2>3. memory.profile[selected][p] \in Record
    BY <2>2 DEF TypeOK, Config
  <2>4. active' \in [Models -> Profiles \cup {None}]
    BY <2>1, <2>2 DEF TypeOK
  <2> QED
    BY <2>1, <2>3, <2>4 DEF TypeOK
<1>4. CASE ResetToDefaults
  <2>1. active' \in [Models -> Profiles \cup {None}]
    BY <1>4 DEF ResetToDefaults, TypeOK
  <2> QED
    BY <1>4, <2>1, FactoryType DEF ResetToDefaults, TypeOK
<1> QED
  BY <1>1, <1>2, <1>3, <1>4

\* Edits and their synchronisation with the defaults.
LEMMA SyncTyped ==
    ASSUME ProperConstants, TypeOK, NEW s \in Record, SyncGlobalSettings(s)
    PROVE  /\ memory' \in Config /\ disk' \in Config /\ cached' \in Record
           /\ intact' \in BOOLEAN /\ faults' \in 0 .. MaxFaults
<1>1. CASE UNCHANGED <<memory, disk, cached, intact, faults>>
  BY <1>1 DEF TypeOK
<1>2. CASE /\ memory' = [memory EXCEPT !.default = SyncedDefault(s), !.over = SyncedOverride(s)]
           /\ cached' = IF selected = None THEN s ELSE SyncedCache(s)
           /\ \E ok \in BOOLEAN : ConfigSaved(ok, disk)
  <2>1. SyncedDefault(s) \in Record
    BY DEF SyncedDefault, Record, TypeOK, Config
  <2>2. s["shared"] \in Values \cup {Unset} /\ SyncedCache(s) \in Record
    BY DEF SyncedCache, Record, Kinds, TypeOK
  <2>3. SyncedOverride(s) \in [Models -> Record]
    BY <2>2 DEF SyncedOverride, Record, TypeOK, Config
  <2>4. memory' \in Config
    BY <1>2, <2>1, <2>3 DEF TypeOK, Config
  <2>5. cached' \in Record
    BY <1>2, <2>2
  <2>6. PICK ok \in BOOLEAN : ConfigSavedAs(memory', ok, disk)
    BY <1>2 DEF ConfigSaved
  <2>7. disk \in Config
    BY DEF TypeOK
  <2> QED
    BY <2>4, <2>5, <2>6, <2>7, SavedType
<1> QED
  BY <1>1, <1>2 DEF SyncGlobalSettings

\* Edits in the panels.
LEMMA EditsTyped == ASSUME ProperConstants, TypeOK, EditField \/ EditAndSync PROVE TypeOK'
<1>1. CASE EditField
  <2>1. settings' \in Record /\ edits' \in 0 .. MaxEdits
    BY <1>1, ChangeType DEF EditField
  <2> QED
    BY <1>1, <2>1 DEF EditField, TypeOK
<1>2. CASE EditAndSync
  <2>1. settings' \in Record /\ edits' \in 0 .. MaxEdits
    BY <1>2, ChangeType DEF EditAndSync
  <2>2. /\ memory' \in Config /\ disk' \in Config /\ cached' \in Record
        /\ intact' \in BOOLEAN /\ faults' \in 0 .. MaxFaults
    BY <1>2, <2>1, SyncTyped DEF EditAndSync
  <2> QED
    BY <1>2, <2>1, <2>2 DEF EditAndSync, TypeOK
<1> QED
  BY <1>1, <1>2

\* Saves.
LEMMA SaveModelTyped == ASSUME ProperConstants, TypeOK, SaveModelSettings PROVE TypeOK'
<1> DEFINE over == [memory.over EXCEPT ![selected] = [settings EXCEPT !["common"] = Unset]]
           synced == [default |-> SyncedDefault(settings), over |-> over, profile |-> memory.profile]
           before == [disk EXCEPT !.over[selected] = over[selected]]
<1>1. selected \in Models
  BY DEF SaveModelSettings, TypeOK
<1>2. [settings EXCEPT !["common"] = Unset] \in Record
  BY DEF TypeOK, Record
<1>3. over \in [Models -> Record] /\ over[selected] \in Record
  BY <1>1, <1>2 DEF TypeOK, Config
<1>4. SyncedDefault(settings) \in Record
  BY DEF SyncedDefault, Record, TypeOK, Config
<1>5. synced \in Config /\ [memory EXCEPT !.over = over] \in Config
  <2> HIDE DEF over
  <2> QED
    BY <1>3, <1>4 DEF TypeOK, Config
<1>6. before \in Config
  <2> HIDE DEF over
  <2> QED
    BY <1>1, <1>3 DEF TypeOK, Config
<1>7. PICK ok \in BOOLEAN :
        /\ memory' = IF ok THEN synced ELSE [memory EXCEPT !.over = over]
        /\ cached' = IF ok THEN settings ELSE cached
        /\ loose' = ~ok
        /\ ConfigSavedAs(memory', ok, before)
  BY DEF SaveModelSettings, ConfigSaved
<1> HIDE DEF over, synced, before
<1>8. memory' \in Config
  BY <1>5, <1>7
<1>9. disk' \in Config /\ intact' \in BOOLEAN /\ faults' \in 0 .. MaxFaults
  BY <1>6, <1>7, <1>8, SavedType
<1>10. cached' \in Record /\ loose' \in BOOLEAN
  BY <1>7 DEF TypeOK
<1> QED
  BY <1>8, <1>9, <1>10 DEF SaveModelSettings, TypeOK

\* A configuration with another profile of the selected model is one.
LEMMA WithProfile ==
    ASSUME NEW c \in Config, NEW m \in Models, NEW p \in Profiles, NEW r \in Record
    PROVE  [c EXCEPT !.profile[m][p] = r] \in Config
<1>1. [c.profile[m] EXCEPT ![p] = r] \in [Profiles -> Record]
  BY DEF Config
<1>2. [c.profile EXCEPT ![m] = [c.profile[m] EXCEPT ![p] = r]] \in [Models -> [Profiles -> Record]]
  BY <1>1 DEF Config
<1> QED
  BY <1>2 DEF Config

\* Saving to the active profile, or to a new one.
LEMMA SaveProfileTyped ==
    ASSUME ProperConstants, TypeOK, SaveToProfile \/ SaveAsProfile PROVE TypeOK'
<1>1. ASSUME NEW p \in Profiles, SaveProfile(p) PROVE TypeOK'
  <2>1. selected \in Models /\ settings \in Record
    BY <1>1 DEF SaveProfile, TypeOK
  <2>2. PICK ok \in BOOLEAN :
          /\ ConfigSavedAs(memory', ok, [disk EXCEPT !.profile[selected][p] = settings])
          /\ cached' = IF ok THEN settings ELSE cached
          /\ loose' = ~ok
          /\ active' = IF ok THEN [active EXCEPT ![selected] = p] ELSE active
    BY <1>1 DEF SaveProfile, ConfigSaved
  <2>3. memory' \in Config /\ [disk EXCEPT !.profile[selected][p] = settings] \in Config
    BY <1>1, <2>1, WithProfile DEF SaveProfile, TypeOK
  <2>4. disk' \in Config /\ intact' \in BOOLEAN /\ faults' \in 0 .. MaxFaults
    BY <2>2, <2>3, SavedType
  <2>5. cached' \in Record /\ loose' \in BOOLEAN /\ active' \in [Models -> Profiles \cup {None}]
    BY <2>1, <2>2 DEF TypeOK
  <2> QED
    BY <1>1, <2>3, <2>4, <2>5 DEF SaveProfile, TypeOK
<1>2. CASE SaveAsProfile
  BY <1>1, <1>2 DEF SaveAsProfile
<1>3. CASE SaveToProfile
  <2>1. selected # None /\ active[selected] # None
    BY <1>3 DEF SaveToProfile, ActiveProfile
  <2>2. active[selected] \in Profiles
    BY <2>1 DEF TypeOK
  <2> QED
    BY <1>1, <1>3, <2>2 DEF SaveToProfile
<1> QED
  BY <1>2, <1>3

\* Deletions.
LEMMA DeletesTyped ==
    ASSUME ProperConstants, TypeOK, DeleteSettingsProfile \/ DeleteModel PROVE TypeOK'
<1>1. CASE DeleteSettingsProfile
  <2>1. PICK p \in Profiles, ok \in BOOLEAN :
          /\ selected # None
          /\ memory' = [memory EXCEPT !.profile[selected][p] = NoFile]
          /\ ConfigSavedAs(memory', ok, [disk EXCEPT !.profile[selected][p] = NoFile])
          /\ IF ok /\ active[selected] = p
             THEN /\ active' = [active EXCEPT ![selected] = None]
                  /\ settings' = Resolve(memory', selected) /\ cached' = settings' /\ loose' = FALSE
             ELSE loose' = (loose \/ ~ok) /\ UNCHANGED <<active, settings, cached>>
    BY <1>1 DEF DeleteSettingsProfile, ConfigSaved
  <2>2. selected \in Models
    BY <2>1 DEF TypeOK
  <2>3. memory' \in Config /\ [disk EXCEPT !.profile[selected][p] = NoFile] \in Config
    BY <2>1, <2>2, WithProfile, NoFileType DEF TypeOK
  <2>4. disk' \in Config /\ intact' \in BOOLEAN /\ faults' \in 0 .. MaxFaults
    BY <2>1, <2>3, SavedType
  <2>5. Resolve(memory', selected) \in Record
    BY <2>2, <2>3, ResolveType
  <2>6. /\ settings' \in Record /\ cached' \in Record /\ loose' \in BOOLEAN
        /\ active' \in [Models -> Profiles \cup {None}]
    BY <2>1, <2>2, <2>5 DEF TypeOK
  <2> QED
    BY <1>1, <2>3, <2>4, <2>6 DEF DeleteSettingsProfile, TypeOK
<1>2. CASE DeleteModel
  <2>1. PICK m \in Models, next \in Models \cup {None}, ok \in BOOLEAN :
          /\ memory' = [memory EXCEPT !.over[m] = NoFile]
          /\ ConfigSavedAs(memory', ok, [disk EXCEPT !.over[m] = NoFile])
          /\ selected' = next
          /\ IF next = None THEN cached' = memory.default /\ UNCHANGED <<settings, loose>>
             ELSE LoadSettings(memory', next)
    BY <1>2 DEF DeleteModel, ConfigSaved
  <2>2. memory' \in Config /\ [disk EXCEPT !.over[m] = NoFile] \in Config
    BY <2>1, NoFileType DEF TypeOK, Config
  <2>3. disk' \in Config /\ intact' \in BOOLEAN /\ faults' \in 0 .. MaxFaults
    BY <2>1, <2>2, SavedType
  <2>4. CASE next = None
    BY <1>2, <2>1, <2>2, <2>3, <2>4 DEF DeleteModel, TypeOK, Config
  <2>5. CASE next # None
    <3>1. ResolveWithProfile(memory', next) \in Record
      BY <2>2, ResolvedType
    <3>2. settings' \in Record /\ cached' \in Record /\ loose' = FALSE
      BY <2>1, <2>5, <3>1 DEF LoadSettings
    <3> QED
      BY <1>2, <2>1, <2>2, <2>3, <3>2 DEF DeleteModel, TypeOK
  <2> QED
    BY <2>4, <2>5
<1> QED
  BY <1>1, <1>2

\* A new start reads the files.
LEMMA StartsTyped == ASSUME ProperConstants, TypeOK, Quit \/ Restart PROVE TypeOK'
<1>1. disk' \in Config /\ intact' \in BOOLEAN /\ faults' \in 0 .. MaxFaults
  <2>1. CASE Quit
    <3>1. PICK ok \in BOOLEAN : ConfigSavedAs(memory, ok, disk)
      BY <2>1 DEF Quit
    <3> QED
      BY <3>1, SavedType DEF TypeOK
  <2>2. CASE Restart
    BY <2>2 DEF Restart, TypeOK
  <2> QED
    BY <2>1, <2>2
<1>2. NewStart
  BY DEF Quit, Restart
<1>3. memory'.default \in Record /\ memory' \in Config
  BY <1>1, <1>2 DEF NewStart, Config
<1>4. active' \in [Models -> Profiles \cup {None}]
  BY <1>2 DEF NewStart
<1> QED
  BY <1>1, <1>2, <1>3, <1>4 DEF NewStart, TypeOK

\* Every step keeps the types.
LEMMA NextTyped == ASSUME ProperConstants, TypeOK, [Next]_vars PROVE TypeOK'
<1>1. CASE UNCHANGED vars
  BY <1>1 DEF vars, TypeOK
<1> QED
  BY <1>1, LoadsTyped, EditsTyped, SaveModelTyped, SaveProfileTyped, DeletesTyped, StartsTyped DEF Next

-----------------------------------------------------------------------------
(* What a step does to the settings of the other models.                   *)

\* Resolving a model depends on the defaults of the field and on its override.
LEMMA ResolveDependsOn ==
    ASSUME NEW c \in Config, NEW d \in Config, NEW m \in Models, NEW k \in Kinds,
           c.over[m] = d.over[m], c.default[k] = d.default[k]
    PROVE  Resolve(c, m)[k] = Resolve(d, m)[k]
  BY DEF Resolve, Apply

\* The field k of every model but the selected one resolves as before.
Keeps(k) == \A m \in Models \ {selected} : Resolve(memory', m)[k] = Resolve(memory, m)[k]

\* Synchronising copies shared and common fields, none of a model alone.
LEMMA SyncKeeps ==
    ASSUME ProperConstants, TypeOK, selected \in Models, NEW s \in Record, SyncGlobalSettings(s),
           NEW k \in {"own", "opt"}
    PROVE  Keeps(k)
<1>1. memory' \in Config
  BY SyncTyped
<1>2. CASE memory' = memory
  BY <1>2 DEF Keeps
<1>3. CASE memory' = [memory EXCEPT !.default = SyncedDefault(s), !.over = SyncedOverride(s)]
  <2>1. selected # None
    BY DEF ProperConstants
  <2>2. memory'.default[k] = memory.default[k]
    BY <1>3, <2>1 DEF SyncedDefault, Global, TypeOK, Config, Kinds
  <2>3. \A m \in Models \ {selected} : memory'.over[m] = memory.over[m]
    BY <1>3 DEF SyncedOverride, TypeOK, Config
  <2> QED
    BY <1>1, <2>2, <2>3, ResolveDependsOn DEF Keeps, TypeOK, Kinds
<1> QED
  BY <1>2, <1>3 DEF SyncGlobalSettings

\* Saving writes the override of the selected model, and no default of its kind.
LEMMA SaveKeeps ==
    ASSUME ProperConstants, TypeOK, selected \in Models, SaveModelSettings,
           NEW k \in {"own", "opt"}
    PROVE  Keeps(k)
<1>1. memory' \in Config
  BY SaveModelTyped DEF TypeOK
<1>2. selected # None
  BY DEF ProperConstants
<1>3. memory'.default[k] = memory.default[k]
  BY <1>2 DEF SaveModelSettings, SyncedDefault, Global, TypeOK, Config, Kinds
<1>4. \A m \in Models \ {selected} : memory'.over[m] = memory.over[m]
  BY DEF SaveModelSettings, TypeOK, Config
<1> QED
  BY <1>1, <1>3, <1>4, ResolveDependsOn DEF Keeps, TypeOK, Kinds

\* Profiles are no part of what Resolve looks at.
LEMMA ProfilesKeep ==
    ASSUME ProperConstants, TypeOK, SaveToProfile \/ SaveAsProfile \/ DeleteSettingsProfile,
           NEW k \in {"own", "opt"}
    PROVE  Keeps(k)
<1>1. memory'.default = memory.default /\ memory'.over = memory.over
  BY DEF SaveToProfile, SaveAsProfile, SaveProfile, DeleteSettingsProfile, TypeOK, Config
<1> QED
  BY <1>1 DEF Keeps, Resolve

\* One step of the program, with the selection as it is.
LEMMA StepKeeps ==
    ASSUME ProperConstants, TypeOK, [Next]_vars, selected \in Models, selected' = selected,
           NEW k \in {"own", "opt"}
    PROVE  Keeps(k)
<1>1. CASE memory' = memory
  BY <1>1 DEF Keeps
<1>2. CASE EditAndSync
  <2>1. settings' \in Record
    BY <1>2, ChangeType DEF EditAndSync
  <2> QED
    BY <1>2, <2>1, SyncKeeps DEF EditAndSync
<1>3. CASE SaveModelSettings
  BY <1>3, SaveKeeps
<1>4. CASE SaveToProfile \/ SaveAsProfile \/ DeleteSettingsProfile
  BY <1>4, ProfilesKeep
<1>5. ~DeleteModel
  BY DEF DeleteModel
<1>6. ~(Quit \/ Restart)
  BY DEF Quit, Restart, NewStart, ProperConstants
<1>7. SelectModel \/ Deselect \/ EditField \/ ApplyProfile \/ ResetToDefaults \/ UNCHANGED vars
          => memory' = memory
  BY DEF SelectModel, Deselect, EditField, ApplyProfile, ResetToDefaults, vars
<1> QED
  BY <1>1, <1>2, <1>3, <1>4, <1>5, <1>6, <1>7 DEF Next

-----------------------------------------------------------------------------
\* Every variable keeps its type, whichever writes fail.
THEOREM TypeCorrect == ASSUME ProperConstants PROVE Spec => []TypeOK
<1>1. Init => TypeOK
  BY InitTyped
<1>2. TypeOK /\ [Next]_vars => TypeOK'
  BY NextTyped
<1> QED
  BY <1>1, <1>2, PTL DEF Spec

\* While a model is selected, no edit, synchronisation, save, profile, reset or failed
\* write changes what is a setting of another model alone: the defaults and the
\* overrides the others resolve from stay as they are.  (helpers.rs:195, sync_ops.rs)
THEOREM OthersAreKept == ASSUME ProperConstants PROVE Spec => OthersKeepTheirs
<1> DEFINE Step == \A m \in Models, k \in {"own", "opt"} :
                       selected \in Models \ {m} /\ selected' = selected =>
                           Resolve(memory', m)[k] = Resolve(memory, m)[k]
<1>1. TypeOK /\ [Next]_vars => Step
  BY StepKeeps DEF Keeps
<1>2. TypeOK /\ [Next]_vars => [Step]_vars
  BY <1>1
<1> HIDE DEF Step
<1>3. Spec => []TypeOK
  BY TypeCorrect
<1>4. Spec => [][Step]_vars
  BY <1>2, <1>3, PTL DEF Spec
<1> QED
  BY <1>4 DEF OthersKeepTheirs, Step
-----------------------------------------------------------------------------
(* What is shown as saved is stored.                                       *)

\* "none" names no profile, and Unset, which stands for no value, is none.
ProperNames == None \notin Profiles /\ Unset \notin Values

\* The files hold no override that memory does not; the profiles are the same in both,
\* for their files are written first; and everything is once the files are whole.
FilesFollow ==
    /\ disk.profile = memory.profile
    /\ \A m \in Models : memory.over[m] = NoFile => disk.over[m] = NoFile
    /\ intact => disk = memory

\* What is no Option has a value everywhere but in an override.
Plain == Kinds \ Options
\* Settings that have one.
Set(r) == \A k \in Plain : r[k] # Unset

\* Wherever settings are kept, what is no Option has a value.
PlainAreSet ==
    /\ Set(settings) /\ Set(memory.default) /\ Set(disk.default)
    /\ \A m \in Models, p \in Profiles :
           memory.profile[m][p] # NoFile => Set(memory.profile[m][p])

\* The snapshot of a model without a profile is what its files resolve to, but for an
\* Option that was cleared and a version that went past the override to the defaults.
SnapshotIsLoaded ==
    selected # None /\ ~loose /\ ActiveProfile(memory, selected) = NoFile =>
        \A k \in Kinds :
            \/ cached[k] = Resolve(memory, selected)[k]
            \/ k = "opt" /\ cached[k] = Unset
            \/ k = "version" /\ memory.over[selected][k] # Unset /\ cached[k] = memory.default[k]

\* The invariant of the store.
StoreInv == TypeOK /\ FilesFollow /\ PlainAreSet /\ SnapshotIsLoaded

\* It is more than the property: with the files whole, what is resolved from memory is
\* resolved from them.
LEMMA StoredIsClean == ASSUME StoreInv PROVE CleanIsStored
<1> SUFFICES ASSUME selected # None, ~Dirty, intact, ~loose, NEW k \in Kinds
             PROVE  \/ settings[k] = ResolveWithProfile(disk, selected)[k]
                    \/ k = "opt" /\ settings[k] = Unset
                    \/ k = "version" /\ disk.over[selected][k] # Unset
                                     /\ settings[k] = disk.default[k]
  BY DEF CleanIsStored
<1>1. disk = memory
  BY DEF StoreInv, FilesFollow
<1>2. CASE ActiveProfile(memory, selected) # NoFile
  BY <1>1, <1>2 DEF Dirty, ResolveWithProfile
<1>3. CASE ActiveProfile(memory, selected) = NoFile
  <2>1. settings = cached
    BY <1>3 DEF Dirty
  <2> QED
    BY <1>1, <1>3, <2>1 DEF StoreInv, SnapshotIsLoaded, ResolveWithProfile
<1> QED
  BY <1>2, <1>3

\* What Config::save leaves, when the caller's file is written before it.
LEMMA FilesAfterSave ==
    ASSUME NEW c \in Config, NEW kept \in Config, NEW ok \in BOOLEAN,
           ConfigSavedAs(c, ok, kept), kept.profile = c.profile,
           \A m \in Models : c.over[m] = NoFile => kept.over[m] = NoFile
    PROVE  /\ disk'.profile = c.profile
           /\ \A m \in Models : c.over[m] = NoFile => disk'.over[m] = NoFile
           /\ intact' => disk' = c
           /\ disk'.default = c.default \/ disk'.default = kept.default
<1> DEFINE over == [m \in Models |-> IF c.over[m] # NoFile THEN c.over[m] ELSE kept.over[m]]
<1>1. Written(c, kept) = [kept EXCEPT !.default = c.default, !.over = over]
  BY DEF Written, Config
<1>2. over = c.over
  BY DEF Config
<1>3. Written(c, kept) = c
  <2> HIDE DEF over
  <2> QED
    BY <1>1, <1>2 DEF Config
<1> QED
  BY <1>3 DEF ConfigSavedAs, Config

\* A record whose plain settings are set is no missing file.
LEMMA SetIsFile == ASSUME NEW r, Set(r) PROVE r # NoFile
  BY DEF Set, Plain, Kinds, Options, NoFile

\* Factory settings are set.
LEMMA FactorySet == ASSUME ProperConstants, ProperNames PROVE Set(Factory)
  BY DEF ProperConstants, ProperNames, Set, Plain, Kinds, Options, Factory

\* A change of one field sets it.
LEMMA ChangeSet ==
    ASSUME ProperNames, StoreInv, NEW k \in Kinds, Change(k)
    PROVE  Set(settings')
  BY DEF StoreInv, PlainAreSet, Set, Plain, Options, Change, ProperNames, TypeOK, Record

\* What is resolved is set, and so is what is loaded.
LEMMA LoadedSet ==
    ASSUME ProperConstants, StoreInv, NEW m \in Models PROVE Set(ResolveWithProfile(memory, m))
<1>1. Set(memory.default)
  BY DEF StoreInv, PlainAreSet
<1>2. Set(Resolve(memory, m))
  BY <1>1 DEF Resolve, Apply, Set, Plain
<1>3. ActiveProfile(memory, m) # NoFile => Set(ActiveProfile(memory, m))
  <2> SUFFICES ASSUME m # None, active[m] # None, memory.profile[m][active[m]] # NoFile
               PROVE  Set(memory.profile[m][active[m]])
    BY DEF ActiveProfile
  <2>1. active[m] \in Profiles
    BY DEF StoreInv, TypeOK
  <2> QED
    BY <2>1 DEF StoreInv, PlainAreSet
<1> QED
  BY <1>2, <1>3 DEF ResolveWithProfile

\* The first start: memory has read the files, and no model is selected.
LEMMA InitStored == ASSUME ProperConstants, ProperNames, Init PROVE StoreInv
<1>1. TypeOK
  BY InitTyped
<1>2. Set(memory.default) /\ memory.profile = Empty.profile
  <2>1. CASE memory = Empty
    BY <2>1, FactorySet DEF Empty
  <2>2. CASE memory = Used
    <3> DEFINE some == CHOOSE m \in Models : TRUE
               over == [Factory EXCEPT !["own"] = 1, !["version"] = 1,
                                       !["common"] = Unset]
    <3>1. memory = [Empty EXCEPT !.default["opt"] = 1, !.default["version"] = 1,
                                 !.over[some] = over]
      BY <2>2 DEF Used
    <3> HIDE DEF some, over
    <3>2. /\ memory.default = [Factory EXCEPT !["opt"] = 1, !["version"] = 1]
          /\ memory.profile = Empty.profile
      BY <3>1 DEF Empty
    <3>3. Set([Factory EXCEPT !["opt"] = 1, !["version"] = 1])
      BY FactorySet DEF Set, Plain, Options, Factory
    <3> QED
      BY <3>2, <3>3
  <2> QED
    BY <2>1, <2>2 DEF Init
<1>3. FilesFollow /\ SnapshotIsLoaded
  BY DEF Init, FilesFollow, SnapshotIsLoaded
<1>4. PlainAreSet
  BY <1>2 DEF Init, PlainAreSet, Empty
<1> QED
  BY <1>1, <1>3, <1>4 DEF StoreInv

\* Selecting, applying a profile, resetting and editing write nothing.
LEMMA LoadsStored ==
    ASSUME ProperConstants, ProperNames, StoreInv,
           SelectModel \/ Deselect \/ ApplyProfile \/ ResetToDefaults \/ EditField
    PROVE  StoreInv'
<1>1. TypeOK'
  BY LoadsTyped, EditsTyped DEF StoreInv
<1>2. UNCHANGED <<memory, disk, intact>>
  BY DEF SelectModel, Deselect, ApplyProfile, ResetToDefaults, EditField
<1>3. FilesFollow'
  BY <1>2 DEF StoreInv, FilesFollow
<1>4. Set(settings') => PlainAreSet'
  BY <1>2 DEF StoreInv, PlainAreSet, Set
<1>5. CASE SelectModel
  <2>1. PICK m \in Models : selected' = m /\ LoadSettings(memory, m) /\ UNCHANGED <<memory, active>>
    BY <1>5 DEF SelectModel
  <2>2. Set(settings')
    BY <2>1, LoadedSet DEF LoadSettings, Set
  <2>3. SnapshotIsLoaded'
    BY <2>1 DEF SnapshotIsLoaded, LoadSettings, ResolveWithProfile, ActiveProfile, Resolve
  <2> QED
    BY <1>1, <1>3, <1>4, <2>2, <2>3 DEF StoreInv
<1>6. CASE Deselect
  <2>1. Set(settings') /\ SnapshotIsLoaded'
    BY <1>6 DEF Deselect, StoreInv, PlainAreSet, SnapshotIsLoaded
  <2> QED
    BY <1>1, <1>3, <1>4, <2>1 DEF StoreInv
<1>7. CASE ApplyProfile
  <2>1. PICK p \in Profiles :
          /\ selected # None /\ memory.profile[selected][p] # NoFile
          /\ active' = [active EXCEPT ![selected] = p]
          /\ settings' = memory.profile[selected][p]
          /\ UNCHANGED <<memory, selected>>
    BY <1>7 DEF ApplyProfile
  <2>2. selected \in Models
    BY <2>1 DEF StoreInv, TypeOK
  <2>3. Set(settings')
    BY <2>1, <2>2 DEF StoreInv, PlainAreSet
  <2>4. ActiveProfile(memory, selected)' # NoFile
    BY <2>1, <2>2 DEF ActiveProfile, ProperNames, StoreInv, TypeOK
  <2>5. SnapshotIsLoaded'
    BY <2>4 DEF SnapshotIsLoaded
  <2> QED
    BY <1>1, <1>3, <1>4, <2>3, <2>5 DEF StoreInv
<1>8. CASE ResetToDefaults
  <2>1. Set(settings') /\ SnapshotIsLoaded'
    BY <1>8, FactorySet DEF ResetToDefaults, SnapshotIsLoaded
  <2> QED
    BY <1>1, <1>3, <1>4, <2>1 DEF StoreInv
<1>9. CASE EditField
  <2>1. Set(settings')
    BY <1>9, ChangeSet DEF EditField
  <2>2. SnapshotIsLoaded'
    BY <1>9 DEF EditField, StoreInv, SnapshotIsLoaded, ActiveProfile, Resolve
  <2> QED
    BY <1>1, <1>3, <1>4, <2>1, <2>2 DEF StoreInv
<1> QED
  BY <1>5, <1>6, <1>7, <1>8, <1>9

\* A field that is synchronised goes to the defaults, to the override that exists and
\* to the snapshot.
LEMMA SyncStored ==
    ASSUME ProperConstants, ProperNames, StoreInv, EditAndSync PROVE StoreInv'
<1>1. TypeOK'
  BY EditsTyped DEF StoreInv
<1>2. Set(settings') /\ settings' \in Record
  BY <1>1, ChangeSet DEF EditAndSync, TypeOK
<1>3. CASE UNCHANGED <<memory, disk, cached, intact>>
  BY <1>1, <1>2, <1>3 DEF EditAndSync, StoreInv, FilesFollow, PlainAreSet, SnapshotIsLoaded,
                          ActiveProfile, Resolve, Set
<1>4. CASE /\ memory' = [memory EXCEPT !.default = SyncedDefault(settings'),
                                       !.over = SyncedOverride(settings')]
           /\ cached' = IF selected = None THEN settings' ELSE SyncedCache(settings')
           /\ \E ok \in BOOLEAN : ConfigSaved(ok, disk)
  <2>1. PICK ok \in BOOLEAN : ConfigSavedAs(memory', ok, disk)
    BY <1>4 DEF ConfigSaved
  <2>2. /\ memory'.default = SyncedDefault(settings')
        /\ memory'.over = SyncedOverride(settings') /\ memory'.profile = memory.profile
    BY <1>4 DEF StoreInv, TypeOK, Config
  <2>3. \A m \in Models : memory'.over[m] = NoFile <=> memory.over[m] = NoFile
    <3> SUFFICES ASSUME NEW m \in Models, m = selected, memory.over[m] # NoFile
                 PROVE  memory'.over[m] # NoFile
      BY <2>2 DEF SyncedOverride
    <3>1. memory'.over[m]["shared"] = settings'["shared"]
      BY <2>2 DEF SyncedOverride, StoreInv, TypeOK, Config, Record, Kinds
    <3> QED
      BY <1>2, <3>1 DEF Set, Plain, Kinds, Options, NoFile
  <2>4. /\ disk'.profile = memory'.profile
        /\ \A m \in Models : memory'.over[m] = NoFile => disk'.over[m] = NoFile
        /\ intact' => disk' = memory'
        /\ disk'.default = memory'.default \/ disk'.default = disk.default
    <3>1. memory' \in Config /\ disk \in Config
      BY <1>1 DEF StoreInv, TypeOK
    <3> QED
      BY <2>1, <2>2, <2>3, <3>1, FilesAfterSave DEF StoreInv, FilesFollow
  <2>5. FilesFollow'
    BY <2>4 DEF FilesFollow
  <2>6. Set(memory'.default)
    BY <1>2, <2>2 DEF SyncedDefault, StoreInv, PlainAreSet, Set, Plain
  <2>7. PlainAreSet'
    BY <1>2, <2>2, <2>4, <2>6 DEF StoreInv, PlainAreSet, Set
  <2>8. SnapshotIsLoaded'
    <3> SUFFICES ASSUME selected # None, ~loose, ActiveProfile(memory, selected) = NoFile,
                        NEW k \in Kinds
                 PROVE  \/ cached'[k] = Resolve(memory', selected)[k]
                        \/ k = "opt" /\ cached'[k] = Unset
                        \/ k = "version" /\ memory'.over[selected][k] # Unset
                                         /\ cached'[k] = memory'.default[k]
      BY <2>2 DEF EditAndSync, SnapshotIsLoaded, ActiveProfile, Resolve
    <3>1. selected \in Models /\ cached \in Record
      BY DEF StoreInv, TypeOK
    <3>2. CASE k \in Global
      <4>1. cached'[k] = settings'[k] /\ memory'.default[k] = settings'[k]
        BY <1>4, <2>2, <3>1, <3>2 DEF SyncedDefault, SyncedCache
      <4>2. memory.over[selected] # NoFile /\ k = "shared" =>
                memory'.over[selected][k] = settings'[k]
        BY <2>2, <3>1, <3>2 DEF SyncedOverride, StoreInv, TypeOK, Config, Record, Kinds
      <4> QED
        BY <2>3, <3>1, <3>2, <4>1, <4>2 DEF Resolve, Apply, Global, Kinds
    <3>3. CASE k \notin Global
      <4>1. cached'[k] = cached[k] /\ memory'.default[k] = memory.default[k]
        BY <1>4, <2>2, <3>1, <3>3 DEF SyncedDefault, SyncedCache
      <4>2. memory'.over[selected][k] = memory.over[selected][k]
        BY <2>2, <3>1, <3>3 DEF SyncedOverride, Global, StoreInv, TypeOK, Config, Record
      <4>3. Resolve(memory', selected)[k] = Resolve(memory, selected)[k]
        BY <2>3, <3>1, <4>1, <4>2 DEF Resolve, Apply
      <4> QED
        BY <3>3, <4>1, <4>3 DEF StoreInv, SnapshotIsLoaded, Global
    <3> QED
      BY <3>2, <3>3
  <2> QED
    BY <1>1, <2>5, <2>7, <2>8 DEF StoreInv
<1> QED
  BY <1>3, <1>4 DEF EditAndSync, SyncGlobalSettings

\* A save of the model's override: the snapshot follows when config.yaml does.
LEMMA SaveModelStored ==
    ASSUME ProperConstants, ProperNames, StoreInv, SaveModelSettings PROVE StoreInv'
<1> DEFINE own == [settings EXCEPT !["common"] = Unset]
           over == [memory.over EXCEPT ![selected] = own]
           synced == [default |-> SyncedDefault(settings), over |-> over, profile |-> memory.profile]
           before == [disk EXCEPT !.over[selected] = own]
<1>1. TypeOK'
  BY SaveModelTyped DEF StoreInv
<1>2. selected \in Models /\ selected # None
  BY DEF SaveModelSettings, StoreInv, TypeOK
<1>3. over[selected] = own
  BY <1>2 DEF StoreInv, TypeOK, Config
<1>4. PICK ok \in BOOLEAN :
        /\ memory' = IF ok THEN synced ELSE [memory EXCEPT !.over = over]
        /\ cached' = IF ok THEN settings ELSE cached
        /\ loose' = ~ok
        /\ ConfigSavedAs(memory', ok, before)
  BY <1>3 DEF SaveModelSettings, ConfigSaved
<1>5. UNCHANGED <<selected, active, settings>>
  BY DEF SaveModelSettings
<1>6. own \in Record
  BY DEF StoreInv, TypeOK, Record
<1>7. \A k \in Plain \ {"common"} : own[k] = settings[k] /\ own[k] # Unset
  BY DEF StoreInv, PlainAreSet, Set, Plain, TypeOK, Record
<1>8. /\ own["opt"] = settings["opt"] /\ own["version"] = settings["version"]
      /\ own # NoFile
  BY <1>7 DEF StoreInv, TypeOK, Record, Kinds, Options, Plain, NoFile
<1> HIDE DEF own
<1>9. /\ memory'.over = over /\ memory'.profile = memory.profile
      /\ memory'.default = IF ok THEN SyncedDefault(settings) ELSE memory.default
  BY <1>4 DEF StoreInv, TypeOK, Config
<1>10. before \in Config /\ before.profile = disk.profile /\ before.default = disk.default
       /\ before.over = [disk.over EXCEPT ![selected] = own]
  BY <1>2, <1>6 DEF StoreInv, TypeOK, Config
<1> HIDE DEF synced, before
<1>11. \A m \in Models : memory'.over[m] = NoFile => before.over[m] = NoFile
  BY <1>2, <1>8, <1>9, <1>10 DEF StoreInv, FilesFollow, TypeOK, Config
<1>12. /\ disk'.profile = memory'.profile
       /\ \A m \in Models : memory'.over[m] = NoFile => disk'.over[m] = NoFile
       /\ intact' => disk' = memory'
       /\ disk'.default = memory'.default \/ disk'.default = before.default
  <2>1. memory' \in Config
    BY <1>1 DEF TypeOK
  <2> QED
    BY <1>4, <1>9, <1>10, <1>11, <2>1, FilesAfterSave DEF StoreInv, FilesFollow
<1>13. FilesFollow'
  BY <1>12 DEF FilesFollow
<1>14. Set(memory'.default)
  BY <1>9 DEF SyncedDefault, StoreInv, PlainAreSet, Set, Plain
<1>15. PlainAreSet'
  BY <1>5, <1>9, <1>10, <1>12, <1>14 DEF StoreInv, PlainAreSet, Set
<1>16. SnapshotIsLoaded'
  <2> SUFFICES ASSUME ok, NEW k \in Kinds
               PROVE  \/ cached'[k] = Resolve(memory', selected)[k]
                      \/ k = "opt" /\ cached'[k] = Unset
    BY <1>4, <1>5 DEF SnapshotIsLoaded, Resolve
  <2>1. Resolve(memory', selected) = Apply(own, SyncedDefault(settings))
    BY <1>2, <1>3, <1>8, <1>9 DEF Resolve
  <2>2. cached' = settings
    BY <1>4
  <2>3. CASE k \in {"common", "version"}
    <3>1. Apply(own, SyncedDefault(settings))[k] = settings[k]
      BY <1>8, <2>3 DEF Apply, SyncedDefault, Global
    <3> QED
      BY <2>1, <2>2, <3>1
  <2>4. CASE k \notin {"common", "version"}
    <3>1. own[k] = settings[k] /\ (k # "opt" => own[k] # Unset)
      BY <1>7, <1>8, <2>4 DEF Plain, Options
    <3> QED
      BY <2>1, <2>2, <2>4, <3>1 DEF Apply
  <2> QED
    BY <2>3, <2>4
<1> QED
  BY <1>1, <1>13, <1>15, <1>16 DEF StoreInv

\* A save to a profile: its file first, then config.yaml; the profile is active when
\* both could be written.
LEMMA SaveProfileStored ==
    ASSUME ProperConstants, ProperNames, StoreInv, SaveToProfile \/ SaveAsProfile
    PROVE  StoreInv'
<1>1. TypeOK'
  BY SaveProfileTyped DEF StoreInv
<1>2. PICK p \in Profiles : SaveProfile(p)
  <2>1. ActiveProfile(memory, selected) # NoFile => active[selected] \in Profiles
    BY DEF ActiveProfile, StoreInv, TypeOK
  <2> QED
    BY <2>1 DEF SaveToProfile, SaveAsProfile
<1>3. selected \in Models /\ selected # None
  BY <1>2 DEF SaveProfile, StoreInv, TypeOK
<1> DEFINE before == [disk EXCEPT !.profile[selected][p] = settings]
<1>4. PICK ok \in BOOLEAN :
        /\ ConfigSavedAs(memory', ok, before)
        /\ loose' = ~ok
        /\ active' = IF ok THEN [active EXCEPT ![selected] = p] ELSE active
  BY <1>2 DEF SaveProfile, ConfigSaved
<1>5. /\ memory' = [memory EXCEPT !.profile[selected][p] = settings]
      /\ UNCHANGED <<selected, settings>>
  BY <1>2 DEF SaveProfile
<1>6. memory \in Config /\ disk \in Config /\ settings \in Record /\ memory' \in Config
  BY <1>1 DEF StoreInv, TypeOK
<1>7. /\ memory'.default = memory.default /\ memory'.over = memory.over
      /\ memory'.profile = [memory.profile EXCEPT ![selected][p] = settings]
      /\ \A n \in Models, q \in Profiles :
             memory'.profile[n][q] = IF n = selected /\ q = p THEN settings
                                     ELSE memory.profile[n][q]
  BY <1>3, <1>5, <1>6 DEF Config
<1>8. /\ before \in Config /\ before.default = disk.default /\ before.over = disk.over
      /\ before.profile = [disk.profile EXCEPT ![selected][p] = settings]
  BY <1>3, <1>6, WithProfile DEF Config
<1> HIDE DEF before
<1>9. /\ disk'.profile = memory'.profile
      /\ \A m \in Models : memory'.over[m] = NoFile => disk'.over[m] = NoFile
      /\ intact' => disk' = memory'
      /\ disk'.default = memory'.default \/ disk'.default = before.default
  BY <1>4, <1>6, <1>7, <1>8, FilesAfterSave DEF StoreInv, FilesFollow
<1>10. FilesFollow'
  BY <1>9 DEF FilesFollow
<1>11. PlainAreSet'
  BY <1>5, <1>7, <1>8, <1>9 DEF StoreInv, PlainAreSet, Set
<1>12. SnapshotIsLoaded'
  <2> SUFFICES ASSUME ok PROVE ActiveProfile(memory, selected)' # NoFile
    BY <1>4 DEF SnapshotIsLoaded
  <2>1. active'[selected] = p /\ p # None
    BY <1>3, <1>4 DEF StoreInv, TypeOK, ProperNames
  <2>2. memory'.profile[selected][p] = settings /\ settings # NoFile
    BY <1>3, <1>7, SetIsFile DEF StoreInv, PlainAreSet
  <2> QED
    BY <1>3, <1>5, <2>1, <2>2 DEF ActiveProfile
<1> QED
  BY <1>1, <1>10, <1>11, <1>12 DEF StoreInv

\* A profile that is deleted: the model falls back on its override when it was active.
LEMMA DeleteProfileStored ==
    ASSUME ProperConstants, ProperNames, StoreInv, DeleteSettingsProfile PROVE StoreInv'
<1>1. TypeOK'
  BY DeletesTyped DEF StoreInv
<1>2. PICK p \in Profiles, ok \in BOOLEAN :
        /\ selected # None
        /\ memory' = [memory EXCEPT !.profile[selected][p] = NoFile]
        /\ ConfigSavedAs(memory', ok, [disk EXCEPT !.profile[selected][p] = NoFile])
        /\ IF ok /\ active[selected] = p
           THEN /\ active' = [active EXCEPT ![selected] = None]
                /\ settings' = Resolve(memory', selected) /\ cached' = settings' /\ loose' = FALSE
           ELSE loose' = (loose \/ ~ok) /\ UNCHANGED <<active, settings, cached>>
        /\ UNCHANGED selected
  BY DEF DeleteSettingsProfile, ConfigSaved
<1> DEFINE before == [disk EXCEPT !.profile[selected][p] = NoFile]
<1>3. selected \in Models
  BY <1>2 DEF StoreInv, TypeOK
<1>4. memory \in Config /\ disk \in Config /\ memory' \in Config
  BY <1>1 DEF StoreInv, TypeOK
<1>5. /\ memory'.default = memory.default /\ memory'.over = memory.over
      /\ memory'.profile = [memory.profile EXCEPT ![selected][p] = NoFile]
      /\ \A n \in Models, q \in Profiles :
             memory'.profile[n][q] = IF n = selected /\ q = p THEN NoFile
                                     ELSE memory.profile[n][q]
  BY <1>2, <1>3, <1>4 DEF Config
<1>6. /\ before \in Config /\ before.default = disk.default /\ before.over = disk.over
      /\ before.profile = [disk.profile EXCEPT ![selected][p] = NoFile]
  BY <1>3, <1>4, NoFileType, WithProfile DEF Config
<1>7. ConfigSavedAs(memory', ok, before)
  BY <1>2
<1> HIDE DEF before
<1>8. /\ disk'.profile = memory'.profile
      /\ \A m \in Models : memory'.over[m] = NoFile => disk'.over[m] = NoFile
      /\ intact' => disk' = memory'
      /\ disk'.default = memory'.default \/ disk'.default = before.default
  BY <1>4, <1>5, <1>6, <1>7, FilesAfterSave DEF StoreInv, FilesFollow
<1>9. FilesFollow'
  BY <1>8 DEF FilesFollow
<1>10. Resolve(memory', selected) = Resolve(memory, selected)
  BY <1>5 DEF Resolve
<1>11. Set(settings')
  <2>1. Set(Resolve(memory', selected))
    BY <1>10 DEF Resolve, Apply, Set, Plain, StoreInv, PlainAreSet
  <2> QED
    BY <1>2, <2>1 DEF StoreInv, PlainAreSet, Set
<1>12. PlainAreSet'
  BY <1>5, <1>6, <1>8, <1>11 DEF StoreInv, PlainAreSet, Set
<1>13. SnapshotIsLoaded'
  <2>1. CASE ok /\ active[selected] = p
    BY <1>2, <2>1 DEF SnapshotIsLoaded, Resolve
  <2>2. CASE ~ok
    BY <1>2, <2>2 DEF SnapshotIsLoaded
  <2>3. CASE ok /\ active[selected] # p
    <3>1. UNCHANGED <<active, cached, selected, loose>>
      BY <1>2, <2>3 DEF StoreInv, TypeOK
    <3>2. ActiveProfile(memory, selected)' = ActiveProfile(memory, selected)
      <4>1. active[selected] # None => active[selected] \in Profiles
        BY <1>3 DEF StoreInv, TypeOK
      <4> QED
        BY <1>3, <1>5, <2>3, <3>1, <4>1 DEF ActiveProfile
    <3> QED
      BY <1>5, <1>10, <3>1, <3>2 DEF StoreInv, SnapshotIsLoaded, Resolve
  <2> QED
    BY <2>1, <2>2, <2>3
<1> QED
  BY <1>1, <1>9, <1>12, <1>13 DEF StoreInv

\* A model that is deleted: the next one is loaded from what is left.
LEMMA DeleteModelStored ==
    ASSUME ProperConstants, ProperNames, StoreInv, DeleteModel PROVE StoreInv'
<1>1. TypeOK'
  BY DeletesTyped DEF StoreInv
<1>2. PICK m \in Models, next \in Models \cup {None}, ok \in BOOLEAN :
        /\ memory' = [memory EXCEPT !.over[m] = NoFile]
        /\ ConfigSavedAs(memory', ok, [disk EXCEPT !.over[m] = NoFile])
        /\ selected' = next
        /\ IF next = None THEN cached' = memory.default /\ UNCHANGED <<settings, loose>>
           ELSE LoadSettings(memory', next)
        /\ UNCHANGED active
  BY DEF DeleteModel, ConfigSaved
<1> DEFINE before == [disk EXCEPT !.over[m] = NoFile]
<1>3. memory \in Config /\ disk \in Config /\ memory' \in Config
  BY <1>1 DEF StoreInv, TypeOK
<1>4. /\ memory'.default = memory.default /\ memory'.profile = memory.profile
      /\ memory'.over = [memory.over EXCEPT ![m] = NoFile]
  BY <1>2, <1>3 DEF Config
<1>5. /\ before \in Config /\ before.default = disk.default /\ before.profile = disk.profile
      /\ before.over = [disk.over EXCEPT ![m] = NoFile]
  BY <1>3, NoFileType DEF Config
<1>6. ConfigSavedAs(memory', ok, before)
  BY <1>2
<1> HIDE DEF before
<1>7. \A n \in Models : memory'.over[n] = NoFile => before.over[n] = NoFile
  BY <1>3, <1>4, <1>5 DEF StoreInv, FilesFollow, Config
<1>8. /\ disk'.profile = memory'.profile
      /\ \A n \in Models : memory'.over[n] = NoFile => disk'.over[n] = NoFile
      /\ intact' => disk' = memory'
      /\ disk'.default = memory'.default \/ disk'.default = before.default
  <2>1. before.profile = memory'.profile
    BY <1>4, <1>5 DEF StoreInv, FilesFollow
  <2> QED
    BY <1>3, <1>5, <1>6, <1>7, <2>1, FilesAfterSave
<1>9. FilesFollow'
  BY <1>8 DEF FilesFollow
<1>10. Set(settings')
  <2>1. CASE next = None
    BY <1>2, <2>1 DEF StoreInv, PlainAreSet, Set
  <2>2. CASE next # None
    <3>1. settings' = ResolveWithProfile(memory', next)
      BY <1>2, <2>2 DEF LoadSettings
    <3>2. ActiveProfile(memory', next) = ActiveProfile(memory, next)
      BY <1>4 DEF ActiveProfile
    <3>3. Set(Resolve(memory', next))
      BY <1>4 DEF Resolve, Apply, Set, Plain, StoreInv, PlainAreSet
    <3>4. ActiveProfile(memory, next) # NoFile => Set(ActiveProfile(memory, next))
      BY <2>2, LoadedSet DEF ResolveWithProfile
    <3> QED
      BY <3>1, <3>2, <3>3, <3>4 DEF ResolveWithProfile
  <2> QED
    BY <2>1, <2>2
<1>11. PlainAreSet'
  BY <1>4, <1>5, <1>8, <1>10 DEF StoreInv, PlainAreSet, Set
<1>12. SnapshotIsLoaded'
  <2>1. CASE next = None
    BY <1>2, <2>1 DEF SnapshotIsLoaded
  <2>2. CASE next # None
    BY <1>2, <2>2 DEF SnapshotIsLoaded, LoadSettings, ResolveWithProfile, ActiveProfile, Resolve
  <2> QED
    BY <2>1, <2>2
<1> QED
  BY <1>1, <1>9, <1>11, <1>12 DEF StoreInv

\* A new start has in memory what the files hold.
LEMMA StartsStored ==
    ASSUME ProperConstants, ProperNames, StoreInv, Quit \/ Restart PROVE StoreInv'
<1>1. TypeOK'
  BY StartsTyped DEF StoreInv
<1>2. disk'.profile = memory.profile /\ Set(disk'.default)
  <2>1. CASE Quit
    <3>1. PICK ok \in BOOLEAN : ConfigSavedAs(memory, ok, disk)
      BY <2>1 DEF Quit
    <3>2. /\ disk'.profile = memory.profile
          /\ disk'.default = memory.default \/ disk'.default = disk.default
      BY <3>1, FilesAfterSave DEF StoreInv, TypeOK, FilesFollow
    <3> QED
      BY <3>2 DEF StoreInv, PlainAreSet, Set
  <2>2. CASE Restart
    BY <2>2 DEF Restart, StoreInv, FilesFollow, PlainAreSet, Set
  <2> QED
    BY <2>1, <2>2
<1>3. /\ memory' = disk' /\ selected' = None /\ settings' = memory'.default
  BY DEF Quit, Restart, NewStart
<1>4. FilesFollow' /\ SnapshotIsLoaded'
  BY <1>3 DEF FilesFollow, SnapshotIsLoaded
<1>5. PlainAreSet'
  BY <1>2, <1>3 DEF StoreInv, PlainAreSet, Set
<1> QED
  BY <1>1, <1>4, <1>5 DEF StoreInv

\* Every step keeps the invariant.
LEMMA NextStored ==
    ASSUME ProperConstants, ProperNames, StoreInv, [Next]_vars PROVE StoreInv'
<1>1. CASE UNCHANGED vars
  BY <1>1 DEF vars, StoreInv, TypeOK, FilesFollow, PlainAreSet, SnapshotIsLoaded, Set,
              ActiveProfile, Resolve
<1> QED
  BY <1>1, LoadsStored, SyncStored, SaveModelStored, SaveProfileStored, DeleteProfileStored,
     DeleteModelStored, StartsStored DEF Next

\* Settings the panel shows as unchanged are the ones a restart finds, whichever writes
\* failed before, as long as a later one did not; with the exceptions of CleanIsStored,
\* the versions that update_fields does not write to an override among them.
\* (app_impl.rs, helpers.rs:195, sync_ops.rs)
THEOREM WhatIsCleanIsStored ==
    ASSUME ProperConstants, ProperNames PROVE Spec => []CleanIsStored
<1>1. Init => StoreInv
  BY InitStored
<1>2. StoreInv /\ [Next]_vars => StoreInv'
  BY NextStored
<1>3. StoreInv => CleanIsStored
  BY StoredIsClean
<1> QED
  BY <1>1, <1>2, <1>3, PTL DEF Spec

-----------------------------------------------------------------------------
(* The web search.                                                         *)

\* The types, without the bound on the number of edits.
SearchTyped ==
    /\ conf \in SearchSettings /\ saved \in SearchSettings /\ shared \in SearchSettings
    /\ started \in BOOLEAN /\ check \in BOOLEAN /\ refuted \in BOOLEAN
    /\ pick \in {Closed} \cup [open : {TRUE}, on : BOOLEAN, url : Urls \cup {"", Hosted},
                               editing : BOOLEAN]
    /\ clones \subseteq SearchSettings

\* What the picker is opened with and what its keys make of it are two copies of the
\* same settings, until a check switches only one of them off; and the proxy, once
\* started, has a third.  All three must be followed through every step.
SearchInv == SearchTyped /\ ProxyIsTold

-----------------------------------------------------------------------------
\* The record of a closed picker says so.
LEMMA ClosedIsNotOpen == ~Closed.open
  BY DEF Closed

\* A picker that is open has the fields of an open one.
LEMMA OpenPick ==
    ASSUME SearchTyped, pick.open
    PROVE  pick \in [open : {TRUE}, on : BOOLEAN, url : Urls \cup {"", Hosted}, editing : BOOLEAN]
<1>1. pick # Closed
  BY ClosedIsNotOpen
<1> QED
  BY <1>1 DEF SearchTyped

\* The picker is closed and the proxy not started at first.
LEMMA SearchStarts == SearchInit => SearchInv
<1> SUFFICES ASSUME SearchInit PROVE SearchInv
  OBVIOUS
<1>1. shared \in SearchSettings
  BY DEF SearchInit, SearchSettings
<1>2. SearchTyped
  BY <1>1 DEF SearchInit, SearchTyped
<1>3. ~pick.open
  BY ClosedIsNotOpen DEF SearchInit
<1> QED
  BY <1>2, <1>3 DEF SearchInit, SearchInv, ProxyIsTold

-----------------------------------------------------------------------------
(* The keys of the picker.                                                 *)

\* The picker copies the configuration.
LEMMA OpenKeeps == SearchInv /\ OpenPicker => SearchInv'
<1> SUFFICES ASSUME SearchInv, OpenPicker PROVE SearchInv'
  OBVIOUS
<1>1. pick' = [open |-> TRUE, on |-> conf.on, url |-> conf.url, editing |-> FALSE]
  BY DEF OpenPicker, Opened
<1>2. conf.on \in BOOLEAN /\ conf.url \in Urls \cup {"", Hosted}
  BY DEF SearchInv, SearchTyped, SearchSettings
<1>3. check' \in BOOLEAN
  BY DEF OpenPicker, SearchInv, SearchTyped
<1>4. /\ pick' \in [open : {TRUE}, on : BOOLEAN, url : Urls \cup {"", Hosted}, editing : BOOLEAN]
      /\ pick'.on = conf.on /\ pick'.url = conf.url
  BY <1>1, <1>2
<1>5. SearchTyped'
  BY <1>3, <1>4 DEF OpenPicker, SearchInv, SearchTyped
<1>6. ProxyIsTold'
  BY <1>4 DEF OpenPicker, SearchInv, ProxyIsTold
<1> QED
  BY <1>5, <1>6 DEF SearchInv

\* The toggle goes to all three copies.
LEMMA ToggleKeeps == SearchInv /\ Toggle => SearchInv'
<1> SUFFICES ASSUME SearchInv, Toggle PROVE SearchInv'
  OBVIOUS
<1>1. pick \in [open : {TRUE}, on : BOOLEAN, url : Urls \cup {"", Hosted}, editing : BOOLEAN]
  BY OpenPick DEF SearchInv, Toggle, Resting
<1>2. pick' = [pick EXCEPT !.on = ~@] /\ conf' = [conf EXCEPT !.on = pick'.on] /\ shared' = conf'
  BY DEF Toggle
<1>3. /\ pick' \in [open : {TRUE}, on : BOOLEAN, url : Urls \cup {"", Hosted}, editing : BOOLEAN]
      /\ pick'.url = pick.url
  BY <1>1, <1>2
<1>4. conf' \in SearchSettings /\ conf'.on = pick'.on /\ conf'.url = conf.url
  BY <1>2, <1>3 DEF SearchInv, SearchTyped, SearchSettings
<1>5. check' \in BOOLEAN
  BY DEF Toggle, SearchInv, SearchTyped
<1>6. SearchTyped'
  BY <1>2, <1>3, <1>4, <1>5 DEF Toggle, SearchInv, SearchTyped
<1>7. ProxyIsTold'
  BY <1>1, <1>2, <1>3, <1>4 DEF Toggle, SearchInv, ProxyIsTold
<1> QED
  BY <1>6, <1>7 DEF SearchInv

\* So does the engine.
LEMMA ChooseKeeps == SearchInv /\ ChooseEngine => SearchInv'
<1> SUFFICES ASSUME SearchInv, ChooseEngine PROVE SearchInv'
  OBVIOUS
<1>1. pick \in [open : {TRUE}, on : BOOLEAN, url : Urls \cup {"", Hosted}, editing : BOOLEAN]
  BY OpenPick DEF SearchInv, ChooseEngine, Resting
<1>2. PICK url \in {pick.url, Hosted} :
          /\ pick' = [pick EXCEPT !.url = url]
          /\ conf' = IF url = Hosted THEN [conf EXCEPT !.url = Hosted] ELSE conf
  BY DEF ChooseEngine
<1>3. /\ pick' \in [open : {TRUE}, on : BOOLEAN, url : Urls \cup {"", Hosted}, editing : BOOLEAN]
      /\ pick'.on = pick.on /\ pick'.url = url
  BY <1>1, <1>2
<1>4. conf' \in SearchSettings /\ conf'.on = conf.on /\ conf'.url = IF url = Hosted THEN url ELSE conf.url
  BY <1>2 DEF SearchInv, SearchTyped, SearchSettings
<1>5. SearchTyped'
  BY <1>3, <1>4 DEF ChooseEngine, SearchInv, SearchTyped
<1>6. ProxyIsTold'
  BY <1>1, <1>2, <1>3, <1>4 DEF ChooseEngine, SearchInv, ProxyIsTold
<1> QED
  BY <1>5, <1>6 DEF SearchInv

\* A typed URL: the proxy gets the picker's switch, which is the configuration's.
LEMMA CommitKeeps == SearchInv /\ CommitUrl => SearchInv'
<1> SUFFICES ASSUME SearchInv, CommitUrl PROVE SearchInv'
  OBVIOUS
<1>1. pick \in [open : {TRUE}, on : BOOLEAN, url : Urls \cup {"", Hosted}, editing : BOOLEAN]
  BY OpenPick DEF SearchInv, CommitUrl
<1>2. PICK url \in Urls \cup {""} :
          /\ pick' = [pick EXCEPT !.url = url, !.editing = FALSE]
          /\ conf' = [conf EXCEPT !.url = url]
          /\ shared' = [on |-> pick.on, url |-> url]
  BY DEF CommitUrl
<1>3. /\ pick' \in [open : {TRUE}, on : BOOLEAN, url : Urls \cup {"", Hosted}, editing : BOOLEAN]
      /\ pick'.on = pick.on /\ pick'.url = url
  BY <1>1, <1>2
<1>4. /\ conf' \in SearchSettings /\ conf'.on = conf.on /\ conf'.url = url
      /\ conf' = [on |-> conf.on, url |-> url]
  BY <1>2 DEF SearchInv, SearchTyped, SearchSettings
<1>5. shared' \in SearchSettings
  BY <1>1, <1>2 DEF SearchSettings
<1>6. SearchTyped'
  BY <1>3, <1>4, <1>5 DEF CommitUrl, SearchInv, SearchTyped
<1>7. ProxyIsTold'
  <2>1. refuted' = refuted /\ (~refuted => pick.on = conf.on)
    BY DEF CommitUrl, SearchInv, ProxyIsTold
  <2>2. ~refuted => shared' = conf'
    BY <1>2, <1>4, <2>1
  <2> QED
    BY <1>3, <1>4, <2>1, <2>2 DEF ProxyIsTold
<1> QED
  BY <1>6, <1>7 DEF SearchInv

\* The keys that change what the picker shows of itself only.
LEMMA OtherKeysKeep == SearchInv /\ (EditUrl \/ EscEdit \/ CheckAgain \/ ClosePicker) => SearchInv'
<1> SUFFICES ASSUME SearchInv, EditUrl \/ EscEdit \/ CheckAgain \/ ClosePicker PROVE SearchInv'
  OBVIOUS
<1>1. ASSUME NEW b \in BOOLEAN, pick.open, pick' = [pick EXCEPT !.editing = b],
             UNCHANGED <<conf, saved, shared, started, check, clones, refuted>>
      PROVE  SearchInv'
  <2>1. pick \in [open : {TRUE}, on : BOOLEAN, url : Urls \cup {"", Hosted}, editing : BOOLEAN]
    BY <1>1, OpenPick DEF SearchInv
  <2>2. /\ pick' \in [open : {TRUE}, on : BOOLEAN, url : Urls \cup {"", Hosted}, editing : BOOLEAN]
        /\ pick'.on = pick.on /\ pick'.url = pick.url
    BY <1>1, <2>1
  <2>3. SearchTyped'
    BY <1>1, <2>2 DEF SearchInv, SearchTyped
  <2>4. ProxyIsTold'
    BY <1>1, <2>1, <2>2 DEF SearchInv, ProxyIsTold
  <2> QED
    BY <2>3, <2>4 DEF SearchInv
<1>2. CASE EditUrl
  BY <1>1, <1>2 DEF EditUrl, Resting
<1>3. CASE EscEdit
  BY <1>1, <1>3 DEF EscEdit
<1>4. CASE CheckAgain
  BY <1>4 DEF CheckAgain, SearchInv, SearchTyped, ProxyIsTold
<1>5. CASE ClosePicker
  BY <1>5 DEF ClosePicker, SearchInv, SearchTyped, ProxyIsTold, Closed
<1> QED
  BY <1>2, <1>3, <1>4, <1>5

-----------------------------------------------------------------------------
(* What goes on around it.                                                 *)

\* A late check reaches the open picker at most, and is remembered.
LEMMA CheckKeeps == SearchInv /\ CheckEnds => SearchInv'
<1> SUFFICES ASSUME SearchInv, CheckEnds PROVE SearchInv'
  OBVIOUS
<1>1. CASE UNCHANGED <<pick, refuted>>
  BY <1>1 DEF CheckEnds, CheckFails, SearchInv, SearchTyped, ProxyIsTold
<1>2. CASE pick.open /\ pick' = [pick EXCEPT !.on = FALSE] /\ refuted' = TRUE
  <2>1. pick' \in [open : {TRUE}, on : BOOLEAN, url : Urls \cup {"", Hosted}, editing : BOOLEAN]
    BY <1>2, OpenPick DEF SearchInv
  <2>2. SearchTyped'
    BY <1>2, <2>1 DEF CheckEnds, CheckFails, SearchInv, SearchTyped
  <2>3. ProxyIsTold'
    BY <1>2 DEF ProxyIsTold
  <2> QED
    BY <2>2, <2>3 DEF SearchInv
<1> QED
  BY <1>1, <1>2 DEF CheckEnds, CheckFails

\* A completed load and its check only reach the file.
LEMMA LoadsKeep == SearchInv /\ (ProxyStarts \/ LoadCompletes \/ LoadCheckEnds \/ Save) => SearchInv'
<1> SUFFICES ASSUME SearchInv, ProxyStarts \/ LoadCompletes \/ LoadCheckEnds \/ Save PROVE SearchInv'
  OBVIOUS
<1>1. CASE ProxyStarts
  BY <1>1 DEF ProxyStarts, SearchInv, SearchTyped, ProxyIsTold
<1>2. CASE LoadCompletes
  BY <1>2 DEF LoadCompletes, SearchInv, SearchTyped, ProxyIsTold
<1>3. CASE LoadCheckEnds
  <2>1. PICK c \in clones : clones' = clones \ {c} /\ saved' \in {saved, [c EXCEPT !.on = FALSE]}
    BY <1>3 DEF LoadCheckEnds
  <2>2. [c EXCEPT !.on = FALSE] \in SearchSettings
    BY DEF SearchInv, SearchTyped, SearchSettings
  <2> QED
    BY <1>3, <2>1, <2>2 DEF LoadCheckEnds, SearchInv, SearchTyped, ProxyIsTold
<1>4. CASE Save
  BY <1>4 DEF Save, SearchInv, SearchTyped, ProxyIsTold
<1> QED
  BY <1>1, <1>2, <1>3, <1>4

\* A new start closes the picker and knows no proxy.
LEMMA RestartKeeps == SearchInv /\ SearchRestart => SearchInv'
<1> SUFFICES ASSUME SearchInv, SearchRestart PROVE SearchInv'
  OBVIOUS
<1>1. shared' \in SearchSettings
  BY DEF SearchRestart, SearchSettings
<1>2. pick' = Closed /\ ~pick'.open
  BY DEF SearchRestart, Closed
<1> QED
  BY <1>1, <1>2 DEF SearchRestart, SearchInv, SearchTyped, ProxyIsTold

\* Every step keeps the invariant.
LEMMA SearchKeeps == SearchInv /\ [SearchNext]_searchVars => SearchInv'
<1>1. CASE UNCHANGED searchVars
  BY <1>1 DEF searchVars, SearchInv, SearchTyped, ProxyIsTold
<1> QED
  BY <1>1, OpenKeeps, ToggleKeeps, ChooseKeeps, CommitKeeps, OtherKeysKeep, CheckKeeps,
     LoadsKeep, RestartKeeps DEF SearchNext

-----------------------------------------------------------------------------
\* As long as no check failed under an open picker, the picker shows what the
\* configuration has and the proxy answers with it, whatever was typed, chosen,
\* started, checked late or written by a task of an earlier load.  (async_ops.rs:290)
THEOREM ProxyKnowsTheSearch == SearchSpec => []ProxyIsTold
<1>1. SearchInit => SearchInv
  BY SearchStarts
<1>2. SearchInv /\ [SearchNext]_searchVars => SearchInv'
  BY SearchKeeps
<1>3. SearchInv => ProxyIsTold
  BY DEF SearchInv
<1> QED
  BY <1>1, <1>2, <1>3, PTL DEF SearchSpec

\* Every variable keeps its type.
THEOREM SearchIsTyped == SearchSpec => []SearchTyped
<1>1. SearchInv => SearchTyped
  BY DEF SearchInv
<1> QED
  BY SearchStarts, SearchKeeps, <1>1, PTL DEF SearchSpec

-----------------------------------------------------------------------------
(* Induction and recursion over the numbers.                               *)

\* Induction: the theorem of the library takes the statement as an operator, this one takes
\* the set of the numbers it holds of.
LEMMA SetInduction ==
    ASSUME NEW S, 0 \in S, \A n \in Nat : n \in S => n + 1 \in S
    PROVE  Nat \subseteq S
<1> DEFINE T == {n \in Nat : n \notin S}
<1> SUFFICES ASSUME T # {} PROVE FALSE
  OBVIOUS
<1>1. T \subseteq Nat
  OBVIOUS
<1>2. PICK d \in T : \A e \in T : ~(<<e, d>> \in OpToRel(<, Nat))
  <2> HIDE DEF T
  <2> QED
    BY <1>1, NatLessThanWellFounded, WFMin
<1>3. \A a, b \in Nat : <<b, a>> \in OpToRel(<, Nat) <=> b < a
  BY DEF OpToRel
<1>4. d \in Nat /\ d # 0 /\ d \notin S
  OBVIOUS
<1>5. d - 1 \in Nat /\ d - 1 < d
  BY <1>4
<1>6. d - 1 \notin T
  BY <1>1, <1>2, <1>3, <1>5
<1>7. d - 1 \in S
  BY <1>5, <1>6
<1>8. (d - 1) + 1 \in S
  BY <1>5, <1>7
<1> QED
  BY <1>4, <1>8

\* The first n + 1 values of the function that starts at x and goes from the (i - 1)th to
\* the ith value by step[i].
Approximations(n, C, x, step) ==
    {g \in [0 .. n -> C] : g[0] = x /\ \A i \in 1 .. n : g[i] = step[i][g[i - 1]]}

\* There are such values,
LEMMA ApproximationExists ==
    ASSUME NEW C, NEW x \in C, NEW step \in [Nat -> [C -> C]]
    PROVE  \A n \in Nat : \E g : g \in Approximations(n, C, x, step)
<1> DEFINE S == {n \in Nat : \E g : g \in Approximations(n, C, x, step)}
<1>1. 0 \in S
  <2> DEFINE g == [i \in 0 .. 0 |-> x]
  <2>1. g \in [0 .. 0 -> C] /\ g[0] = x /\ \A i \in 1 .. 0 : g[i] = step[i][g[i - 1]]
    OBVIOUS
  <2>2. g \in Approximations(0, C, x, step)
    BY <2>1 DEF Approximations
  <2> QED
    BY <2>2
<1>2. ASSUME NEW n \in Nat, n \in S PROVE n + 1 \in S
  <2>1. PICK g \in Approximations(n, C, x, step) : TRUE
    BY <1>2
  <2>2. g \in [0 .. n -> C] /\ g[0] = x /\ \A i \in 1 .. n : g[i] = step[i][g[i - 1]]
    BY <2>1 DEF Approximations
  <2> DEFINE h == [i \in 0 .. n + 1 |-> IF i = n + 1 THEN step[n + 1][g[n]] ELSE g[i]]
  <2>3. step[n + 1][g[n]] \in C
    BY <2>2
  <2>4. h \in [0 .. n + 1 -> C] /\ h[0] = x
    BY <2>2, <2>3
  <2>5. ASSUME NEW i \in 1 .. n + 1 PROVE h[i] = step[i][h[i - 1]]
    <3>1. i - 1 \in 0 .. n /\ h[i - 1] = g[i - 1]
      OBVIOUS
    <3>2. CASE i = n + 1
      BY <3>1, <3>2
    <3>3. CASE i # n + 1
      BY <2>2, <3>1, <3>3
    <3> QED
      BY <3>2, <3>3
  <2>6. h \in Approximations(n + 1, C, x, step)
    <3> HIDE DEF h
    <3> QED
      BY <2>4, <2>5 DEF Approximations
  <2> QED
    BY <2>6
<1> HIDE DEF S
<1>3. Nat \subseteq S
  BY <1>1, <1>2, SetInduction
<1> QED
  BY <1>3 DEF S

\* of which more begin with the same.
LEMMA ApproximationsAgree ==
    ASSUME NEW C, NEW x \in C, NEW step \in [Nat -> [C -> C]],
           NEW n \in Nat, NEW g \in Approximations(n, C, x, step),
           NEW h \in Approximations(n + 1, C, x, step)
    PROVE  g[n] = h[n]
<1>1. g \in [0 .. n -> C] /\ g[0] = x /\ \A i \in 1 .. n : g[i] = step[i][g[i - 1]]
  BY DEF Approximations
<1>2. h \in [0 .. n + 1 -> C] /\ h[0] = x /\ \A i \in 1 .. n + 1 : h[i] = step[i][h[i - 1]]
  BY DEF Approximations
<1> DEFINE S == {i \in Nat : i <= n => g[i] = h[i]}
<1>3. 0 \in S
  BY <1>1, <1>2
<1>4. ASSUME NEW i \in Nat, i \in S PROVE i + 1 \in S
  <2> SUFFICES ASSUME i + 1 <= n PROVE g[i + 1] = h[i + 1]
    OBVIOUS
  <2>1. g[i] = h[i] /\ i + 1 \in 1 .. n /\ i + 1 \in 1 .. n + 1 /\ (i + 1) - 1 = i
    BY <1>4
  <2>2. g[i + 1] = step[i + 1][g[i]]
    BY <1>1, <2>1
  <2>3. h[i + 1] = step[i + 1][h[i]]
    BY <1>2, <2>1
  <2> QED
    BY <2>1, <2>2, <2>3
<1> HIDE DEF S
<1>5. n \in S
  BY <1>3, <1>4, SetInduction
<1> QED
  BY <1>5 DEF S

\* The function they are the beginning of.
Follows(f, C, x, step) ==
    f \in [Nat -> C] /\ f[0] = x /\ \A n \in Nat : f[n + 1] = step[n + 1][f[n]]

\* Hence what is defined by recursion over the numbers is there.
LEMMA Recursion ==
    ASSUME NEW C, NEW x \in C, NEW step \in [Nat -> [C -> C]]
    PROVE  \E f : Follows(f, C, x, step)
<1> DEFINE G(n) == CHOOSE g : g \in Approximations(n, C, x, step)
<1>1. \A n \in Nat : G(n) \in Approximations(n, C, x, step)
  BY ApproximationExists
<1> HIDE DEF G
<1>2. \A n \in Nat : G(n) \in [0 .. n -> C] /\ G(n)[0] = x
                     /\ \A i \in 1 .. n : G(n)[i] = step[i][G(n)[i - 1]]
  BY <1>1 DEF Approximations
<1>3. \A n \in Nat : G(n)[n] = G(n + 1)[n]
  <2> SUFFICES ASSUME NEW n \in Nat PROVE G(n)[n] = G(n + 1)[n]
    OBVIOUS
  <2>1. n + 1 \in Nat /\ G(n) \in Approximations(n, C, x, step)
        /\ G(n + 1) \in Approximations(n + 1, C, x, step)
    BY <1>1
  <2> QED
    BY <2>1, ApproximationsAgree
<1> DEFINE f == [n \in Nat |-> G(n)[n]]
<1>4. f \in [Nat -> C] /\ f[0] = x
  BY <1>2
<1>5. ASSUME NEW n \in Nat PROVE f[n + 1] = step[n + 1][f[n]]
  <2>1. f[n + 1] = G(n + 1)[n + 1] /\ f[n] = G(n)[n]
    OBVIOUS
  <2>2. n + 1 \in Nat /\ n + 1 \in 1 .. n + 1 /\ (n + 1) - 1 = n
    OBVIOUS
  <2>3. G(n + 1)[n + 1] = step[n + 1][G(n + 1)[n]]
    BY <1>2, <2>2
  <2> QED
    BY <1>3, <2>1, <2>3
<1>6. Follows(f, C, x, step)
  <2> HIDE DEF f
  <2> QED
    BY <1>4, <1>5 DEF Follows
<1> QED
  BY <1>6

-----------------------------------------------------------------------------
(* The workers and the tags.                                               *)

\* Only the lengths of the lists and the places in them matter.
ListsTyped ==
    /\ workers \in Seq(L!Worker) /\ workerAt \in Nat
    /\ changing \in [index : Nat, parts : Nat, shares : 0 .. 2]
    /\ splitting \in [index : Nat, shares : 0 .. 2]
    /\ tags \in Seq(Names) /\ tagAt \in Nat /\ tagText \in Seq(Names)

\* The selected worker is the first of an empty list, so that the first worker that is
\* added is the selected one; and a worker is edited only where one is.
WorkerIsThere ==
    /\ workerAt >= 1 /\ (workerAt = 1 \/ workerAt <= Len(workers))
    /\ changing.index \in {L!Nowhere, workerAt, Len(workers) + 1}
    /\ splitting.index \in {L!Nowhere, workerAt}
    /\ splitting # L!NotSplitting => splitting.index \in DOMAIN workers

\* The cursor of the tags is on one of them, or there is none.
TagIsOne == tags # <<>> => tagAt \in {L!Nowhere} \cup DOMAIN tags

\* The invariant of the lists.
ListsInv == ListsTyped /\ WorkerIsThere /\ TagIsOne

\* A list without one of its entries.
LEMMA Removed ==
    ASSUME NEW S, NEW s \in Seq(S), NEW i \in 1 .. Len(s)
    PROVE  L!RemoveAt(s, i) \in Seq(S) /\ Len(L!RemoveAt(s, i)) = Len(s) - 1
<1> DEFINE before == SubSeq(s, 1, i - 1)
           after == SubSeq(s, i + 1, Len(s))
<1>1. /\ before \in Seq(S) /\ Len(before) = i - 1
      /\ after \in Seq(S) /\ Len(after) = Len(s) - i
  BY SubSeqProperties, ElementOfSeq
<1>2. L!RemoveAt(s, i) = before \o after
  BY DEF L!RemoveAt
<1> HIDE DEF before, after
<1>3. before \o after \in Seq(S) /\ Len(before \o after) = (i - 1) + (Len(s) - i)
  <2>1. before \o after \in Seq(S) /\ Len(before \o after) = Len(before) + Len(after)
    BY <1>1, ConcatProperties, Zenon
  <2> QED
    BY <1>1, <2>1
<1>4. Len(s) \in Nat /\ (i - 1) + (Len(s) - i) = Len(s) - 1
  BY LenProperties
<1> QED
  BY <1>2, <1>3, <1>4

\* A list of one or two entries.
LEMMA ShortList ==
    ASSUME NEW S, NEW a \in S
    PROVE  <<a>> \in Seq(S) /\ \A b \in S : <<a, b>> \in Seq(S)
  OBVIOUS

\* The keys that move in the list of workers or open an editor.
LEMMA ViewingKeeps ==
    ASSUME ListsInv,
           \/ L!WorkerUp \/ L!WorkerDown \/ L!ToggleWorker \/ L!NewWorker \/ L!EditWorker
           \/ L!EditSplit
    PROVE  ListsInv'
<1>1. /\ changing.index = L!Nowhere /\ splitting.index = L!Nowhere
      /\ UNCHANGED <<tags, tagAt, tagText>>
  BY DEF L!WorkerUp, L!WorkerDown, L!ToggleWorker, L!NewWorker, L!EditWorker, L!EditSplit,
         L!ViewingWorkers, L!NotChanging, L!NotSplitting, L!tagVars
<1>2. CASE L!WorkerUp
  BY <1>1, <1>2 DEF L!WorkerUp, L!AtLeastOne, ListsInv, ListsTyped, WorkerIsThere, TagIsOne, L!Nowhere
<1>3. CASE L!WorkerDown
  BY <1>1, <1>3 DEF L!WorkerDown, L!Lower, ListsInv, ListsTyped, WorkerIsThere, TagIsOne, L!Nowhere
<1>4. CASE L!ToggleWorker
  <2>1. workers[workerAt] \in L!Worker /\ workerAt \in DOMAIN workers
    BY <1>4 DEF L!ToggleWorker, ListsInv, ListsTyped
  <2>2. [workers[workerAt] EXCEPT !.selected = ~@] \in L!Worker
    BY <2>1 DEF L!Worker
  <2>3. workers' \in Seq(L!Worker) /\ Len(workers') = Len(workers)
    BY <1>4, <2>2 DEF L!ToggleWorker, ListsInv, ListsTyped
  <2> QED
    BY <1>1, <1>4, <2>3 DEF L!ToggleWorker, ListsInv, ListsTyped, WorkerIsThere, TagIsOne
<1>5. CASE L!NewWorker
  BY <1>1, <1>5 DEF L!NewWorker, L!NotChanging, L!Nowhere, ListsInv, ListsTyped, WorkerIsThere, TagIsOne
<1>6. CASE L!EditWorker \/ L!EditSplit
  <2>1. workers[workerAt] \in L!Worker /\ workerAt \in DOMAIN workers
    BY <1>6 DEF L!EditWorker, L!EditSplit, ListsInv, ListsTyped
  <2>2. workers[workerAt].shares \in 0 .. 2
    BY <2>1 DEF L!Worker
  <2> QED
    BY <1>1, <1>6, <2>1, <2>2 DEF L!EditWorker, L!EditSplit, L!AtLeastOne, ListsInv, ListsTyped,
       WorkerIsThere, TagIsOne
<1> QED
  BY <1>2, <1>3, <1>4, <1>5, <1>6

\* The keys of the two editors of a worker.
LEMMA WorkerEditorsKeep ==
    ASSUME ListsInv,
           \/ L!EnterSplit \/ L!EscapeWorker
           \/ \E parts \in 1 .. 5 : L!TypeWorker(parts)
           \/ \E valid \in BOOLEAN : L!EnterWorker(valid)
           \/ \E shares \in 0 .. 2 : L!TypeSplit(shares)
    PROVE  ListsInv'
<1>1. UNCHANGED <<workerAt, tags, tagAt, tagText>>
  BY DEF L!EnterSplit, L!EscapeWorker, L!TypeWorker, L!EnterWorker, L!TypeSplit, L!tagVars
<1>2. CASE L!EnterSplit
  <2>1. splitting.index \in 1 .. Len(workers)
    BY <1>2 DEF L!EnterSplit, ListsInv, ListsTyped, WorkerIsThere
  <2>2. workers' = [workers EXCEPT ![splitting.index].shares = splitting.shares]
    BY <1>2 DEF L!EnterSplit
  <2> DEFINE new == [workers[splitting.index] EXCEPT !.shares = splitting.shares]
  <2>3. new \in L!Worker
    <3>1. workers[splitting.index] \in L!Worker
      BY <2>1, ElementOfSeq DEF ListsInv, ListsTyped
    <3>2. splitting.shares \in 0 .. 2
      BY DEF ListsInv, ListsTyped
    <3> QED
      BY <3>1, <3>2 DEF L!Worker
  <2>5. workers' = [workers EXCEPT ![splitting.index] = new]
    BY <2>2
  <2> HIDE DEF new
  <2>4. workers' \in Seq(L!Worker) /\ Len(workers') = Len(workers)
    BY <2>1, <2>3, <2>5, ExceptSeq DEF ListsInv, ListsTyped
  <2> QED
    BY <1>1, <1>2, <2>4 DEF L!EnterSplit, L!NotSplitting, L!Nowhere, ListsInv, ListsTyped,
       WorkerIsThere, TagIsOne
<1>3. CASE L!EscapeWorker
  BY <1>1, <1>3 DEF L!EscapeWorker, L!NotSplitting, L!NotChanging, L!Nowhere, ListsInv, ListsTyped,
     WorkerIsThere, TagIsOne
<1>4. ASSUME NEW parts \in 1 .. 5, L!TypeWorker(parts) PROVE ListsInv'
  <2>1. /\ changing' = [changing EXCEPT !.parts = parts, !.shares = 1]
        /\ UNCHANGED <<workers, splitting>>
    BY <1>4 DEF L!TypeWorker
  <2>2. changing' \in [index : Nat, parts : Nat, shares : 0 .. 2] /\ changing'.index = changing.index
    <3>1. changing \in [index : Nat, parts : Nat, shares : 0 .. 2] /\ parts \in Nat /\ 1 \in 0 .. 2
      BY DEF ListsInv, ListsTyped
    <3>2. changing' = [index |-> changing.index, parts |-> parts, shares |-> 1]
      BY <2>1, <3>1
    <3> QED
      BY <3>1, <3>2
  <2> QED
    BY <1>1, <2>1, <2>2 DEF ListsInv, ListsTyped, WorkerIsThere, TagIsOne
<1>5. ASSUME NEW valid \in BOOLEAN, L!EnterWorker(valid) PROVE ListsInv'
  <2> DEFINE new == [selected |-> TRUE, shares |-> IF changing.parts = 4 THEN changing.shares ELSE 1]
  <2>1. new \in L!Worker
    BY DEF ListsInv, ListsTyped, L!Worker
  <2>2. \/ workers' = workers
        \/ changing.index \in DOMAIN workers /\ workers' = [workers EXCEPT ![changing.index] = new]
        \/ workers' = Append(workers, new)
    BY <1>5 DEF L!EnterWorker
  <2> HIDE DEF new
  <2>3. workers' \in Seq(L!Worker) /\ Len(workers') \in {Len(workers), Len(workers) + 1}
    <3>1. workers \in Seq(L!Worker)
      BY DEF ListsInv, ListsTyped
    <3> QED
      BY <2>1, <2>2, <3>1, ExceptSeq, AppendProperties, LenProperties
  <2>4. changing' = L!NotChanging /\ splitting' = splitting
    BY <1>5 DEF L!EnterWorker
  <2> QED
    BY <1>1, <2>3, <2>4 DEF L!NotChanging, L!Nowhere, ListsInv, ListsTyped, WorkerIsThere, TagIsOne
<1>6. ASSUME NEW shares \in 0 .. 2, L!TypeSplit(shares) PROVE ListsInv'
  BY <1>1, <1>6 DEF L!TypeSplit, ListsInv, ListsTyped, WorkerIsThere, TagIsOne
<1> QED
  BY <1>2, <1>3, <1>4, <1>5, <1>6

\* A worker is removed, and the next one or the last is selected.
LEMMA DeleteWorkerKeeps == ASSUME ListsInv, L!DeleteWorker PROVE ListsInv'
<1>1. workers # <<>> /\ workers \in Seq(L!Worker) /\ workerAt \in 1 .. Len(workers)
  BY DEF L!DeleteWorker, ListsInv, ListsTyped, WorkerIsThere
<1>2. workers' \in Seq(L!Worker) /\ Len(workers') = Len(workers) - 1
  BY <1>1, Removed DEF L!DeleteWorker
<1>3. /\ changing' = L!NotChanging /\ splitting' = L!NotSplitting
      /\ UNCHANGED <<tags, tagAt, tagText>>
  BY DEF L!DeleteWorker, L!ViewingWorkers, L!tagVars
<1>4. workerAt' = IF workerAt > Len(workers') /\ workers' # <<>> THEN Len(workers') ELSE workerAt
  BY DEF L!DeleteWorker
<1>5. workers' # <<>> <=> Len(workers') # 0
  BY <1>2, EmptySeq
<1>6. workerAt' \in Nat /\ workerAt' >= 1 /\ (workerAt' = 1 \/ workerAt' <= Len(workers'))
  BY <1>1, <1>2, <1>4, <1>5
<1> QED
  BY <1>2, <1>3, <1>6 DEF L!NotChanging, L!NotSplitting, L!Nowhere, ListsInv, ListsTyped,
     WorkerIsThere, TagIsOne

\* The keys of the tags.
LEMMA TagKeysKeep ==
    ASSUME ListsInv,
           \/ L!CloseTags \/ L!EnterTag \/ L!EditTag \/ L!DeleteTag \/ L!AddTag \/ L!TabTag
           \/ \E n \in Names : L!TypeTag(n)
           \/ \E d \in {"up", "down"} : L!MoveTag(d)
    PROVE  ListsInv'
<1>1. UNCHANGED <<workers, workerAt, changing, splitting>>
  BY DEF L!CloseTags, L!EnterTag, L!EditTag, L!DeleteTag, L!AddTag, L!TabTag, L!TypeTag, L!MoveTag,
         L!TagKey, L!workerVars
<1>2. ASSUME tags' \in Seq(Names), tagAt' \in Nat, tagText' \in Seq(Names), TagIsOne'
      PROVE  ListsInv'
  BY <1>1, <1>2 DEF ListsInv, ListsTyped, WorkerIsThere
<1>3. CASE L!CloseTags \/ L!AddTag \/ L!EditTag \/ \E n \in Names : L!TypeTag(n)
  <2>1. tags' = tags /\ tagAt' \in {tagAt, 0}
    BY <1>3 DEF L!CloseTags, L!AddTag, L!EditTag, L!TypeTag, L!Nowhere
  <2>2. tagText' \in Seq(Names)
    <3>1. \A i \in DOMAIN tags : tags[i] \in Names
      BY LenProperties, ElementOfSeq DEF ListsInv, ListsTyped
    <3>2. tagText' = <<>> \/ \E n \in Names : tagText' = <<n>>
      BY <1>3, <3>1 DEF L!CloseTags, L!AddTag, L!EditTag, L!TypeTag
    <3> QED
      BY <3>2, EmptySeq, ShortList
  <2> QED
    BY <1>2, <2>1, <2>2 DEF L!Nowhere, ListsInv, ListsTyped, TagIsOne
<1>4. CASE L!EnterTag
  <2>1. \/ tags' = tags \o tagText \/ tags' = tags
        \/ tagText # <<>> /\ tagAt \in DOMAIN tags /\ tags' = [tags EXCEPT ![tagAt] = tagText[1]]
    BY <1>4 DEF L!EnterTag
  <2>2. tagText # <<>> => tagText[1] \in Names
    BY EmptySeq, ElementOfSeq DEF ListsInv, ListsTyped
  <2>3. tags' \in Seq(Names)
    <3>1. tags \in Seq(Names) /\ tagText \in Seq(Names) /\ DOMAIN tags = 1 .. Len(tags)
      BY LenProperties DEF ListsInv, ListsTyped
    <3>2. tags \o tagText \in Seq(Names)
      BY <3>1, ConcatProperties
    <3>3. CASE tagText # <<>> /\ tagAt \in DOMAIN tags /\ tags' = [tags EXCEPT ![tagAt] = tagText[1]]
      BY <2>2, <3>1, <3>3, ExceptSeq
    <3> QED
      BY <2>1, <3>1, <3>2, <3>3
  <2>4. tagText' \in Seq(Names)
    BY <1>4, EmptySeq DEF L!EnterTag
  <2> QED
    BY <1>2, <1>4, <2>4, <2>3 DEF L!EnterTag, L!Nowhere, TagIsOne
<1>5. CASE L!DeleteTag
  <2>1. tags' \in Seq(Names)
    BY <1>5, Removed DEF L!DeleteTag, ListsInv, ListsTyped
  <2> QED
    BY <1>2, <1>5, <2>1 DEF L!DeleteTag, L!Nowhere, TagIsOne
<1>6. L!LastTag \in Nat /\ (tags # <<>> => L!LastTag = Len(tags))
  BY DEF L!LastTag, L!AtLeastOne, ListsInv, ListsTyped
<1>7. CASE L!TabTag
  BY <1>2, <1>6, <1>7 DEF L!TabTag, L!Nowhere, ListsInv, ListsTyped, TagIsOne
<1>8. ASSUME NEW d \in {"up", "down"}, L!MoveTag(d) PROVE ListsInv'
  <2>1. tags' = tags /\ tagText' = <<>>
    BY <1>8 DEF L!MoveTag
  <2>2. tagAt' \in {L!LastTag, L!AtLeastOne(tagAt - 1), L!Lower(tagAt + 1, L!LastTag), 1, tagAt}
        /\ (tagAt' = L!AtLeastOne(tagAt - 1) \/ tagAt' = L!Lower(tagAt + 1, L!LastTag)
             \/ tagAt' = tagAt \/ tagAt' \in {1, L!LastTag})
    BY <1>8 DEF L!MoveTag
  <2>3. tagAt' \in Nat /\ (tags # <<>> => tagAt' \in 0 .. Len(tags))
    BY <1>6, <2>2 DEF L!AtLeastOne, L!Lower, L!Nowhere, ListsInv, ListsTyped, TagIsOne
  <2> QED
    BY <1>2, <2>1, <2>3 DEF L!Nowhere, ListsInv, ListsTyped, TagIsOne
<1> QED
  BY <1>3, <1>4, <1>5, <1>7, <1>8

\* The lists are empty or short at first.
LEMMA ListsStart == L!ListInit => ListsInv
<1> SUFFICES ASSUME L!ListInit PROVE ListsInv
  OBVIOUS
<1>2. (CHOOSE n \in Names : TRUE) \in Names
  BY TagsAssumption
<1>3. tags \in Seq(Names)
  BY <1>2, EmptySeq, ShortList DEF L!ListInit
<1>4. /\ [selected |-> TRUE, shares |-> 1] \in L!Worker
      /\ [selected |-> FALSE, shares |-> 0] \in L!Worker
  BY DEF L!Worker
<1>5. workers \in Seq(L!Worker)
  BY <1>4, EmptySeq, ShortList DEF L!ListInit
<1> QED
  BY <1>3, <1>5 DEF L!ListInit, L!NotChanging, L!NotSplitting, L!Nowhere, ListsInv, ListsTyped,
     WorkerIsThere, TagIsOne

\* Every step keeps the invariant.
LEMMA ListsKeep == ListsInv /\ [L!ListNext]_lVars => ListsInv'
<1>1. CASE UNCHANGED lVars
  BY <1>1 DEF lVars, ListsInv, ListsTyped, WorkerIsThere, TagIsOne
<1> QED
  BY <1>1, ViewingKeeps, WorkerEditorsKeep, DeleteWorkerKeeps, TagKeysKeep DEF L!ListNext

\* An index that is kept so is one of an entry.
LEMMA PlacesAreOfEntries == ListsInv => L!IndexesAreOfEntries
  BY DEF ListsInv, ListsTyped, WorkerIsThere, TagIsOne, L!IndexesAreOfEntries

-----------------------------------------------------------------------------
(* The setup of a sweep.                                                   *)

\* What a range may be: its ends may cross, its step is one.
RangesOfSetup == [min : Int, max : Int, step : Nat \ {0}, on : BOOLEAN]

\* The cursor of the setup is on a parameter, and so is the editor of a range.
SetupInv ==
    /\ params \in [Params -> RangesOfSetup] /\ row \in Params
    /\ editing \in {B!Closed} \cup [param : Params, number : 0 .. 2]

\* Division rounds down.
LEMMA Quotient ==
    ASSUME NEW a \in Nat, NEW s \in Nat \ {0}
    PROVE  a \div s \in Nat /\ (a \div s) * s <= a /\ a < (a \div s) * s + s
  OBVIOUS

\* As many steps as it takes to come to the end and no more.
LEMMA StepsReach ==
    ASSUME NEW r \in RangesOfSetup, r.max - r.min > 0, r.step # Infinity
    PROVE  /\ B!StepCount(r) \in Nat /\ B!StepCount(r) # 0
           /\ r.min + B!StepCount(r) * r.step >= r.max
           /\ \A i \in 0 .. B!StepCount(r) - 1 : r.min + i * r.step < r.max
<1> DEFINE w == r.max - r.min
           s == r.step
           q == (w + s - 1) \div s
<1>1. w \in Nat /\ w # 0 /\ s \in Nat \ {0} /\ w + s - 1 \in Nat
  BY DEF RangesOfSetup
<1>2. B!StepCount(r) = q
  BY <1>1 DEF B!StepCount
<1> HIDE DEF w, s
<1>3. q \in Nat /\ q * s <= w + s - 1 /\ w + s - 1 < q * s + s
  BY <1>1, Quotient
<1> HIDE DEF q
<1>4. q * s >= w
  BY <1>1, <1>3
<1>5. q # 0
  BY <1>1, <1>3
<1>6. ASSUME NEW i \in 0 .. q - 1 PROVE i * s < w
  <2>1. i * s + s <= q * s
    <3>1. i + 1 \in Nat /\ i + 1 <= q
      BY <1>3
    <3>2. (i + 1) * s <= q * s
      BY <1>1, <1>3, <3>1
    <3>3. i * s + s = (i + 1) * s
      BY <1>1, <3>1
    <3> QED
      BY <3>2, <3>3
  <2>2. i * s \in Int
    BY <1>1, <1>3
  <2> QED
    BY <1>1, <1>3, <2>1, <2>2
<1>7. q * s \in Nat /\ \A i \in 0 .. q - 1 : i * s \in Int
  BY <1>1, <1>3
<1>8. r.min \in Int /\ r.max \in Int
  BY DEF RangesOfSetup
<1>9. r.min + q * s >= r.max
  BY <1>4, <1>7, <1>8 DEF w
<1>10. \A i \in 0 .. q - 1 : r.min + i * s < r.max
  BY <1>6, <1>7, <1>8 DEF w
<1> QED
  BY <1>2, <1>3, <1>5, <1>9, <1>10 DEF s

\* The numbers of a range that ends are its start and its steps, and the last its end.
LEMMA ValuesStep ==
    ASSUME NEW r \in RangesOfSetup
    PROVE  /\ B!StepCount(r) \in Nat
           /\ B!Value(r, B!StepCount(r)) = r.max
           /\ \A i \in 0 .. B!StepCount(r) - 1 :
                  i * r.step \in Int /\ B!Value(r, i) = r.min + i * r.step /\ B!Value(r, i) < r.max
<1> DEFINE n == B!StepCount(r)
<1>0. r.min \in Int /\ r.max \in Int /\ r.step \in Nat \ {0}
  BY DEF RangesOfSetup
<1>1. CASE r.max - r.min > 0 /\ r.step # Infinity
  <2>1. /\ n \in Nat /\ n * r.step \in Int /\ r.min + n * r.step >= r.max
        /\ \A i \in 0 .. n - 1 : r.min + i * r.step < r.max /\ i * r.step \in Int
    BY <1>0, <1>1, StepsReach
  <2> HIDE DEF n
  <2>2. \A i \in 0 .. n - 1 : B!Value(r, i) = r.min + i * r.step
    BY <1>0, <1>1, <2>1 DEF B!Value
  <2>3. B!Value(r, n) = r.max
    <3>1. \A a, b \in Int : a >= b => (IF a <= b THEN a ELSE b) = b
      OBVIOUS
    <3>2. B!Value(r, n) = IF r.min + n * r.step <= r.max THEN r.min + n * r.step ELSE r.max
      BY <1>1 DEF B!Value
    <3>3. r.min + n * r.step \in Int
      BY <1>0, <2>1
    <3> QED
      BY <1>0, <2>1, <3>1, <3>2, <3>3
  <2> QED
    BY <2>1, <2>2, <2>3 DEF n
<1>2. CASE ~(r.max - r.min > 0 /\ r.step # Infinity)
  <2>1. n = 0
    BY <1>0, <1>2 DEF B!StepCount
  <2>2. 0 * r.step = 0
    BY <1>0
  <2>3. B!Value(r, 0) = IF r.step # Infinity /\ r.min <= r.max THEN r.min ELSE r.max
    BY <1>0, <2>2 DEF B!Value
  <2>4. B!Value(r, 0) = r.max
    BY <1>0, <1>2, <2>3
  <2>5. 0 .. 0 - 1 = {}
    OBVIOUS
  <2> QED
    BY <2>1, <2>4, <2>5
<1> QED
  BY <1>1, <1>2

\* They rise.
LEMMA ValuesRise ==
    ASSUME NEW r \in RangesOfSetup,
           NEW i \in 0 .. B!StepCount(r), NEW j \in 0 .. B!StepCount(r), i < j
    PROVE  B!Value(r, i) \in Int /\ B!Value(r, j) \in Int /\ B!Value(r, i) < B!Value(r, j)
<1> DEFINE n == B!StepCount(r)
<1>0. r.min \in Int /\ r.max \in Int /\ r.step \in Nat \ {0} /\ n \in Nat
  BY ValuesStep DEF RangesOfSetup
<1>1. i \in 0 .. n - 1 /\ (j = n \/ j \in 0 .. n - 1)
  BY <1>0
<1>2. B!Value(r, i) = r.min + i * r.step /\ B!Value(r, i) < r.max /\ i * r.step \in Int
  BY <1>1, ValuesStep
<1>3. CASE j = n
  BY <1>0, <1>2, <1>3, ValuesStep
<1>4. CASE j \in 0 .. n - 1
  <2>1. B!Value(r, j) = r.min + j * r.step /\ j * r.step \in Int
    BY <1>4, ValuesStep
  <2>2. i * r.step < j * r.step
    BY <1>0, <1>1
  <2> QED
    BY <1>0, <1>2, <2>1, <2>2
<1> QED
  BY <1>1, <1>3, <1>4

\* A number without its fraction is in the bounds, and keeps its order.
LEMMA WholeRises ==
    ASSUME NEW a \in Int, NEW b \in Int, a <= b
    PROVE  /\ B!Whole(a) \in Nat /\ B!Whole(b) \in Nat
           /\ B!Whole(a) <= B!Whole(b)
<1>0. Unit \in Nat \ {0} /\ Largest \in Nat \ {0} /\ Largest * Unit \in Nat
  BY NumbersAssumption
<1> DEFINE top == Largest * Unit
<1>1. \A v \in Int : B!Whole(v) = IF v <= 0 THEN 0 ELSE IF v >= top THEN Largest ELSE v \div Unit
  <2> SUFFICES ASSUME NEW v \in Int
               PROVE  B!Whole(v) = IF v <= 0 THEN 0 ELSE IF v >= top THEN Largest ELSE v \div Unit
    OBVIOUS
  <2>1. top > 0
    BY <1>0
  <2> HIDE DEF top
  <2>2. top \in Nat
    BY <1>0 DEF top
  <2>3. CASE v <= 0
    BY <2>1, <2>2, <2>3 DEF B!Whole, top
  <2>4. CASE v >= top
    BY <2>1, <2>2, <2>4 DEF B!Whole, top
  <2>5. CASE 0 < v /\ v < top
    BY <2>1, <2>2, <2>5 DEF B!Whole, top
  <2> QED
    BY <2>2, <2>3, <2>4, <2>5
<1>2. \A v \in Int : v > 0 => v \div Unit \in Nat /\ (v \div Unit) * Unit <= v /\ v < (v \div Unit) * Unit + Unit
  BY <1>0, Quotient
<1>3. ASSUME NEW k \in Nat, NEW l \in Nat, NEW c \in Int, NEW d \in Int,
             k * Unit <= c, d < l * Unit + Unit, c <= d
      PROVE  k <= l
  <2>1. k * Unit < l * Unit + Unit
    <3>1. k * Unit \in Int /\ l * Unit \in Int
      BY <1>0
    <3> QED
      BY <1>0, <1>3, <3>1
  <2>2. l * Unit + Unit = (l + 1) * Unit
    BY <1>0
  <2>3. ~(k >= l + 1)
    <3>1. k >= l + 1 => k * Unit >= (l + 1) * Unit
      BY <1>0
    <3>2. k * Unit \in Int /\ (l + 1) * Unit \in Int
      BY <1>0
    <3> QED
      BY <2>1, <2>2, <3>1, <3>2
  <2> QED
    BY <2>3
<1>4. top \in Nat /\ top < Largest * Unit + Unit
  BY <1>0
<1>5. \A v \in Int : v > 0 /\ v < top => v \div Unit <= Largest
  <2> SUFFICES ASSUME NEW v \in Int, v > 0, v < top PROVE v \div Unit <= Largest
    OBVIOUS
  <2> HIDE DEF top
  <2> QED
    BY <1>0, <1>2, <1>3, <1>4
<1>6. a > 0 => a \div Unit <= b \div Unit
  BY <1>2, <1>3
<1>7. \A v \in {a, b} : v > 0 => v \div Unit \in Nat
  BY <1>2
<1> HIDE DEF top
<1> QED
  BY <1>0, <1>1, <1>4, <1>5, <1>6, <1>7

\* What is converted keeps its order, though not its distance.
LEMMA ConvertedRises ==
    ASSUME NEW p, NEW a \in Int, NEW b \in Int, a <= b
    PROVE  /\ B!Converted(p, a) \in Int /\ B!Converted(p, b) \in Int
           /\ B!Converted(p, a) <= B!Converted(p, b)
<1>0. Unit \in Nat \ {0}
  BY NumbersAssumption
<1>1. CASE p = Flash
  BY <1>0, <1>1 DEF B!Converted
<1>2. ASSUME p # Flash, p \in Signed PROVE B!Converted(p, a) <= B!Converted(p, b)
  <2>1. CASE b < 0
    <3>1. -b \in Int /\ -a \in Int /\ -b <= -a
      OBVIOUS
    <3>2. B!Whole(-b) \in Nat /\ B!Whole(-a) \in Nat /\ B!Whole(-b) <= B!Whole(-a)
      BY <3>1, WholeRises
    <3> QED
      BY <1>2, <2>1, <3>2 DEF B!Converted
  <2>2. CASE a < 0 /\ b >= 0
    <3>1. B!Whole(-a) \in Nat /\ B!Whole(b) \in Nat
      BY WholeRises
    <3> QED
      BY <1>2, <2>2, <3>1 DEF B!Converted
  <2>3. CASE a >= 0
    BY <1>2, <2>3, WholeRises DEF B!Converted
  <2> QED
    BY <2>1, <2>2, <2>3
<1>3. ASSUME p # Flash, p \notin Signed PROVE B!Converted(p, a) <= B!Converted(p, b)
  BY <1>3, WholeRises DEF B!Converted
<1>4. \A v \in Int : B!Whole(v) \in Nat
  BY WholeRises
<1>5. \A v \in Int : p # Flash => B!Converted(p, v) \in Int
  BY <1>4 DEF B!Converted
<1> QED
  BY <1>1, <1>2, <1>3, <1>5

\* Whole numbers within the bounds stay what they are.
LEMMA ConvertedIsExact ==
    ASSUME NEW p, NEW k \in Nat, k <= IF p = Flash THEN 1 ELSE Largest
    PROVE  B!Converted(p, k * Unit) = k
<1>0. Unit \in Nat \ {0} /\ Largest \in Nat \ {0} /\ k * Unit \in Nat /\ Largest * Unit \in Nat
  BY NumbersAssumption
<1>1. CASE p = Flash
  <2>1. k = 0 \/ k = 1
    BY <1>1
  <2>2. 0 * Unit = 0 /\ 1 * Unit = Unit
    BY <1>0
  <2> QED
    BY <1>0, <1>1, <2>1, <2>2 DEF B!Converted
<1>2. CASE p # Flash
  <2>0. B!Converted(p, k * Unit) = B!Whole(k * Unit)
    <3>1. ~(k * Unit < 0)
      BY <1>0
    <3> QED
      BY <1>2, <3>1 DEF B!Converted
  <2>1. k = 0 => k * Unit = 0
    BY <1>0
  <2>2. k # 0 => k * Unit > 0
    BY <1>0
  <2>3. k < Largest => k * Unit < Largest * Unit
    BY <1>0
  <2>4. (k * Unit) \div Unit = k
    BY <1>0
  <2>5. 0 < Largest * Unit
    BY <1>0
  <2>6. CASE k = 0
    <3>1. B!Whole(0) = 0
      <4>1. ~(0 >= Largest * Unit)
        BY <1>0, <2>5
      <4> QED
        BY <1>2, <4>1 DEF B!Whole
    <3> QED
      BY <2>0, <2>1, <2>6, <3>1
  <2>7. CASE k = Largest
    <3>1. ~(k * Unit <= 0) /\ k * Unit >= Largest * Unit
      BY <1>0, <2>2, <2>7
    <3> QED
      BY <1>2, <2>0, <2>7, <3>1, <1>0 DEF B!Whole
  <2>8. CASE k # 0 /\ k < Largest
    <3>1. 0 < k * Unit /\ k * Unit < Largest * Unit
      BY <2>2, <2>3, <2>8
    <3>2. ~(k * Unit <= 0) /\ ~(k * Unit >= Largest * Unit)
      BY <1>0, <3>1
    <3> HIDE <1>0
    <3> QED
      BY <1>2, <2>0, <2>4, <3>1, <3>2 DEF B!Whole
  <2> QED
    BY <1>0, <1>2, <2>0, <2>6, <2>7, <2>8
<1> QED
  BY <1>1, <1>2

\* A whole number is a number of units.
LEMMA WholeIs ==
    ASSUME NEW a \in Nat, a % Unit = 0
    PROVE  \E k \in Nat : a = k * Unit
<1>1. Unit \in Nat \ {0}
  BY NumbersAssumption
<1> DEFINE k == a \div Unit
<1>2. k \in Nat /\ a = k * Unit + (a % Unit)
  BY <1>1
<1> HIDE DEF k
<1>3. k * Unit \in Nat
  BY <1>1, <1>2
<1>4. a = k * Unit
  BY <1>2, <1>3
<1> QED
  BY <1>2, <1>4

\* Of a range of whole numbers that the parameter has, no two tests are one.
LEMMA ExactIsApart ==
    ASSUME NEW p, NEW r \in RangesOfSetup, B!Exact(p, r),
           NEW i \in 0 .. B!StepCount(r), NEW j \in 0 .. B!StepCount(r), i < j
    PROVE  B!Converted(p, B!Value(r, i)) # B!Converted(p, B!Value(r, j))
<1> DEFINE top == IF p = Flash THEN 1 ELSE Largest
           n == B!StepCount(r)
<1>0. Unit \in Nat \ {0} /\ top \in Nat /\ n \in Nat /\ top * Unit \in Nat
  <2>1. top \in Nat
    BY NumbersAssumption
  <2> HIDE DEF top
  <2> QED
    BY <2>1, NumbersAssumption, ValuesStep
<1>1. /\ r.min \in Nat /\ r.max \in Int /\ r.max <= top * Unit /\ r.step \in Nat \ {0}
      /\ r.min % Unit = 0 /\ r.max % Unit = 0 /\ r.step % Unit = 0
  BY DEF B!Exact, RangesOfSetup
<1>2. r.max \in Nat
  <2>1. r.min < r.max
    <3>1. n # 0
      BY <1>0
    <3>2. 0 \in 0 .. n - 1
      BY <1>0, <3>1
    <3>3. B!Value(r, 0) = r.min + 0 * r.step /\ B!Value(r, 0) < r.max
      BY <3>2, ValuesStep
    <3> QED
      BY <1>1, <3>3
  <2> QED
    BY <1>1, <2>1
<1>3. PICK m \in Nat, e \in Nat, s \in Nat : r.min = m * Unit /\ r.max = e * Unit /\ r.step = s * Unit
  <2>1. \E m \in Nat : r.min = m * Unit
    BY <1>1, WholeIs
  <2>2. \E e \in Nat : r.max = e * Unit
    BY <1>1, <1>2, WholeIs
  <2>3. \E s \in Nat : r.step = s * Unit
    BY <1>1, WholeIs
  <2> QED
    BY <2>1, <2>2, <2>3
<1>4. ASSUME NEW k \in Nat, k * Unit <= r.max PROVE k <= top
  <2>1. k * Unit <= top * Unit /\ k * Unit \in Int
    BY <1>0, <1>1, <1>4
  <2> HIDE DEF top
  <2> QED
    BY <1>0, <2>1
<1>5. ASSUME NEW x \in 0 .. n
      PROVE  \E k \in Nat : k <= top /\ B!Value(r, x) = k * Unit
  <2>1. CASE x = n
    <3>1. B!Value(r, x) = e * Unit
      BY <1>3, <2>1, ValuesStep
    <3>2. e <= top
      BY <1>1, <1>3, <1>4
    <3> QED
      BY <3>1, <3>2
  <2>2. CASE x # n
    <3>1. x \in 0 .. n - 1 /\ x \in Nat
      BY <1>0, <2>2
    <3>2. B!Value(r, x) = r.min + x * r.step /\ B!Value(r, x) < r.max
      BY <3>1, ValuesStep
    <3>3. m * Unit + x * (s * Unit) = (m + x * s) * Unit
      BY <1>0, <3>1
    <3>4. m + x * s \in Nat
      BY <3>1
    <3>5. (m + x * s) * Unit <= r.max
      BY <1>0, <1>1, <1>3, <3>2, <3>3, <3>4
    <3> QED
      BY <1>3, <1>4, <3>2, <3>3, <3>4, <3>5
  <2> QED
    BY <2>1, <2>2
<1>6. PICK k \in Nat : k <= top /\ B!Value(r, i) = k * Unit
  BY <1>5
<1>7. PICK l \in Nat : l <= top /\ B!Value(r, j) = l * Unit
  BY <1>5
<1>8. k * Unit < l * Unit
  BY <1>6, <1>7, ValuesRise
<1>9. k # l
  <2>1. k * Unit \in Int
    BY <1>0
  <2> QED
    BY <1>8, <2>1
<1> QED
  BY <1>6, <1>7, <1>9, ConvertedIsExact

\* Such a range is swept from its start, by its step, up to its end and not beyond.
LEMMA SetupSweeps == SetupInv => B!SweepsTheRange
<1> SUFFICES ASSUME SetupInv, NEW p \in Params
             PROVE  LET r == params[p]
                        values == B!RangeValues(p, r)
                    IN /\ r.step > 0
                       /\ ~B!Endless(r) =>
                            /\ values[Len(values)] = B!Converted(p, r.max)
                            /\ \A i, j \in DOMAIN values : i < j => values[i] <= values[j]
                            /\ B!Exact(p, r) => \A i, j \in DOMAIN values : i < j => values[i] # values[j]
  BY DEF B!SweepsTheRange
<1> DEFINE r == params[p]
           n == B!StepCount(r)
           values == B!RangeValues(p, r)
<1>1. r \in RangesOfSetup
  BY DEF SetupInv
<1>2. r.step > 0
  BY <1>1 DEF RangesOfSetup
<1>3. n \in Nat /\ B!Value(r, n) = r.max
  BY <1>1, ValuesStep
<1>4. values = [i \in 1 .. n + 1 |-> B!Converted(p, B!Value(r, i - 1))]
  BY DEF B!RangeValues
<1> HIDE DEF values, n
<1>5. Len(values) = n + 1 /\ DOMAIN values = 1 .. n + 1
  BY <1>3, <1>4
<1>6. values[Len(values)] = B!Converted(p, r.max)
  <2>1. n + 1 \in 1 .. n + 1 /\ n + 1 - 1 = n
    BY <1>3
  <2>2. values[n + 1] = B!Converted(p, B!Value(r, n))
    <3> DEFINE tested(i) == B!Converted(p, B!Value(r, i))
    <3>1. values = [i \in 1 .. n + 1 |-> tested(i - 1)]
      BY <1>4
    <3> HIDE DEF tested, r
    <3>2. values[n + 1] = tested((n + 1) - 1)
      BY <2>1, <3>1
    <3>3. (n + 1) - 1 = n
      BY <1>3
    <3>4. values[n + 1] = tested(n)
      BY <3>2, <3>3
    <3> QED
      BY <3>4 DEF tested
  <2> QED
    BY <1>3, <1>5, <2>2
<1>7. ASSUME NEW i \in DOMAIN values, NEW j \in DOMAIN values, i < j
      PROVE  values[i] <= values[j] /\ (B!Exact(p, r) => values[i] # values[j])
  <2>1. /\ i - 1 \in 0 .. n /\ j - 1 \in 0 .. n /\ i - 1 < j - 1
        /\ values[i] = B!Converted(p, B!Value(r, i - 1)) /\ values[j] = B!Converted(p, B!Value(r, j - 1))
    BY <1>3, <1>4, <1>5, <1>7
  <2>2. B!Value(r, i - 1) \in Int /\ B!Value(r, j - 1) \in Int /\ B!Value(r, i - 1) <= B!Value(r, j - 1)
    BY <1>1, <2>1, ValuesRise DEF n
  <2>3. values[i] <= values[j]
    BY <2>1, <2>2, ConvertedRises
  <2>4. B!Exact(p, r) => values[i] # values[j]
    BY <1>1, <2>1, ExactIsApart DEF n
  <2> QED
    BY <2>3, <2>4
<1> QED
  BY <1>2, <1>6, <1>7 DEF values

\* The setup that is opened.
LEMMA SetupStart == B!Init => SetupInv
  BY NumbersAssumption DEF B!Init, SetupInv, RangesOfSetup

\* A number is one, and a step is taken when it is one.
LEMMA CommittedIs ==
    ASSUME NEW p \in RangesOfSetup, NEW number \in 0 .. 2, NEW r \in B!Committed(p, number)
    PROVE  r \in RangesOfSetup /\ B!Normalized(r) \in RangesOfSetup
<1>1. r \in RangesOfSetup
  <2>1. CASE r = p
    BY <2>1
  <2>2. ASSUME NEW k \in Numbers \cup {-n : n \in Numbers}, r = B!CommitNumber(p, number, k)
        PROVE  r \in RangesOfSetup
    <3>1. k \in Int
      BY NumbersAssumption
    <3>2. CASE number = 0
      BY <2>2, <3>1, <3>2 DEF B!CommitNumber, RangesOfSetup
    <3>3. CASE number = 1
      BY <2>2, <3>1, <3>3 DEF B!CommitNumber, RangesOfSetup
    <3>4. CASE number = 2
      BY <2>2, <3>1, <3>4 DEF B!CommitNumber, RangesOfSetup
    <3> QED
      BY <3>2, <3>3, <3>4
  <2> QED
    BY <2>1, <2>2 DEF B!Committed
<1>2. B!Normalized(r) \in RangesOfSetup
  BY <1>1 DEF B!Normalized, RangesOfSetup
<1> QED
  BY <1>1, <1>2

\* Every key keeps the ranges.
LEMMA SetupKeeps == SetupInv /\ [B!Next]_bVars => SetupInv'
<1> SUFFICES ASSUME SetupInv, [B!Next]_bVars PROVE SetupInv'
  OBVIOUS
<1>1. CASE B!Select
  BY <1>1 DEF B!Select, SetupInv
<1>2. CASE B!Toggle \/ B!CycleSpec
  <2>0. row \in Params /\ params \in [Params -> RangesOfSetup]
    BY DEF SetupInv
  <2>1. params' \in [Params -> RangesOfSetup]
    <3>1. PICK k, b : (params' = [params EXCEPT ![k].on = b] /\ b \in BOOLEAN) \/ params' = params
      <4>1. CASE B!Toggle
        <5>1. params' = [params EXCEPT ![row].on = ~params[row].on] /\ params[row].on \in BOOLEAN
          BY <2>0, <4>1 DEF B!Toggle, RangesOfSetup
        <5> QED
          BY <5>1
      <4>2. CASE B!CycleSpec
        BY <4>2 DEF B!CycleSpec
      <4> QED
        BY <1>2, <4>1, <4>2
    <3>2. CASE params' = [params EXCEPT ![k] = [params[k] EXCEPT !.on = b]] /\ b \in BOOLEAN
      <4>1. \A p \in Params : [params[p] EXCEPT !.on = b] \in RangesOfSetup
        BY <2>0, <3>2 DEF RangesOfSetup
      <4> QED
        BY <2>0, <3>2, <4>1
    <3> QED
      BY <2>0, <3>1, <3>2
  <2>2. UNCHANGED <<row, editing>>
    BY <1>2 DEF B!Toggle, B!CycleSpec
  <2> QED
    BY <2>1, <2>2 DEF SetupInv
<1>3. CASE B!OpenRange
  BY <1>3 DEF B!OpenRange, SetupInv
<1>4. CASE B!NextNumber
  <2>1. editing.param \in Params /\ editing.number \in 0 .. 2 /\ row' = row /\ row \in Params
    BY <1>4 DEF B!NextNumber, SetupInv
  <2>2. PICK p \in B!Committed(params[editing.param], editing.number) :
           params' = [params EXCEPT ![editing.param] = p]
    BY <1>4 DEF B!NextNumber
  <2>3. params[editing.param] \in RangesOfSetup
    BY <2>1 DEF SetupInv
  <2>4. p \in RangesOfSetup
    BY <2>1, <2>3, CommittedIs
  <2>5. params' \in [Params -> RangesOfSetup]
    BY <2>1, <2>2, <2>4 DEF SetupInv
  <2>6. editing' \in [param : Params, number : 0 .. 2]
    <3>1. editing \in [param : Params, number : 0 .. 2]
      BY <1>4 DEF B!NextNumber, SetupInv
    <3>2. editing' \in {[editing EXCEPT !.number = IF @ = 2 THEN 2 ELSE @ + 1],
                       [editing EXCEPT !.number = IF @ = 0 THEN 2 ELSE @ - 1]}
      BY <1>4 DEF B!NextNumber
    <3> QED
      BY <3>1, <3>2
  <2> QED
    BY <2>1, <2>5, <2>6 DEF SetupInv
<1>5. CASE B!EnterRange
  <2>1. editing.param \in Params /\ editing.number \in 0 .. 2 /\ row' = row /\ row \in Params /\ editing' = B!Closed
    BY <1>5 DEF B!EnterRange, SetupInv
  <2>2. PICK p \in B!Committed(params[editing.param], editing.number) :
           params' = [params EXCEPT ![editing.param] = B!Normalized(p)]
    BY <1>5 DEF B!EnterRange
  <2>3. params[editing.param] \in RangesOfSetup
    BY <2>1 DEF SetupInv
  <2>4. B!Normalized(p) \in RangesOfSetup
    BY <2>1, <2>3, CommittedIs
  <2>5. params' \in [Params -> RangesOfSetup]
    BY <2>1, <2>2, <2>4 DEF SetupInv
  <2> QED
    BY <2>1, <2>5 DEF SetupInv, B!Closed
<1>6. CASE B!EscRange \/ B!Draw \/ B!OpenPrompt
  BY <1>6 DEF B!EscRange, B!Draw, B!OpenPrompt, SetupInv, B!Closed
<1>7. CASE B!InsertChar \/ B!Backspace \/ B!Delete \/ B!MoveCursor \/ B!ClosePrompt
  <2>1. UNCHANGED <<params, row, editing>>
    BY <1>7 DEF B!InsertChar, B!Backspace, B!Delete, B!MoveCursor, B!ClosePrompt
  <2> QED
    BY <2>1 DEF SetupInv
<1>8. CASE UNCHANGED bVars
  BY <1>8 DEF bVars, SetupInv
<1> QED
  BY <1>1, <1>2, <1>3, <1>4, <1>5, <1>6, <1>7, <1>8 DEF B!Next

-----------------------------------------------------------------------------
(* The panel of the settings.                                              *)

\* What the buffer may hold.
Characters == F!Range(F!Numerals) \cup Typed

\* The numbers of layers, with those that stand for automatic and for all.
LayerCounts == -1 .. 999

\* What a row may hold.
MayHold(f, v) ==
    /\ f \in DOMAIN F!NumberRows =>
          LET n == F!NumberRows[f] IN
          \/ f \in DOMAIN F!Options /\ v = F!NoValue
          \/ v \in n.lo .. n.hi \/ v \in n.typedLo .. n.typedHi
    /\ f \in DOMAIN F!Rings => v \in 0 .. F!Rings[f] - 1
    /\ f = "gpu_layers_mode" => v \in LayerCounts

\* Every row holds what it may,
ValuesFit == set \in [Rows -> Int] /\ \A f \in Rows : MayHold(f, set[f])

\* the selected row is one that is shown,
RowIsShown == rowAt \in Nat /\ rowAt < Len(F!Shown)

\* and the buffer has characters: the invariant of the panel.
FieldsInv == ValuesFit /\ RowIsShown /\ expertMode \in BOOLEAN /\ typed \in Seq(Characters)

\* The recursive list of the rows.
LEMMA ListedIs ==
    ASSUME NEW rows
    PROVE  /\ F!Listed(rows) \in Seq(rows)
           /\ (\E i \in DOMAIN F!AllFields : F!AllFields[i] \in rows) => Len(F!Listed(rows)) > 0
<1> DEFINE s == F!AllFields
           step == [n \in Nat |-> [l \in Seq(rows) |-> IF s[n] \in rows THEN Append(l, s[n]) ELSE l]]
           listed[n \in Nat] ==
               IF n = 0 THEN <<>>
               ELSE IF s[n] \in rows THEN Append(listed[n - 1], s[n])
               ELSE listed[n - 1]
<1>0. Len(s) \in Nat /\ DOMAIN s = 1 .. Len(s)
  <2>1. DOMAIN s = 1 .. 43 /\ Len(s) = 43
    BY SMTT(60) DEF F!AllFields
  <2> HIDE DEF s
  <2> QED
    BY <2>1
<1>1. F!Listed(rows) = listed[Len(s)]
  BY DEF F!Listed
<1> HIDE DEF s
<1>2. step \in [Nat -> [Seq(rows) -> Seq(rows)]] /\ <<>> \in Seq(rows)
  OBVIOUS
<1>3. \A n \in Nat, l \in Seq(rows) : step[n][l] = IF s[n] \in rows THEN Append(l, s[n]) ELSE l
  OBVIOUS
<1> HIDE DEF step
<1>4. PICK f : Follows(f, Seq(rows), <<>>, step)
  BY <1>2, Recursion
<1>5. f \in [Nat -> Seq(rows)] /\ f[0] = <<>> /\ \A n \in Nat : f[n + 1] = step[n + 1][f[n]]
  BY <1>4 DEF Follows
<1>6. \A n \in Nat : f[n + 1] = IF s[n + 1] \in rows THEN Append(f[n], s[n + 1]) ELSE f[n]
  <2> TAKE n \in Nat
  <2>1. f[n] \in Seq(rows)
    BY <1>5
  <2>2. n + 1 \in Nat
    OBVIOUS
  <2>3. f[n + 1] = step[n + 1][f[n]]
    BY <1>5, Zenon
  <2> QED
    BY <1>3, <2>1, <2>2, <2>3
<1>7. \A n \in Nat : f[n] = IF n = 0 THEN <<>>
                            ELSE IF s[n] \in rows THEN Append(f[n - 1], s[n]) ELSE f[n - 1]
  <2> SUFFICES ASSUME NEW n \in Nat, n # 0
               PROVE  f[n] = IF s[n] \in rows THEN Append(f[n - 1], s[n]) ELSE f[n - 1]
    BY <1>5
  <2>1. n - 1 \in Nat /\ (n - 1) + 1 = n
    OBVIOUS
  <2> QED
    BY <1>6, <2>1
<1>8. f = [n \in Nat |-> IF n = 0 THEN <<>>
                         ELSE IF s[n] \in rows THEN Append(f[n - 1], s[n]) ELSE f[n - 1]]
  BY <1>5, <1>7
<1>9. listed = [n \in Nat |-> IF n = 0 THEN <<>>
                              ELSE IF s[n] \in rows THEN Append(listed[n - 1], s[n]) ELSE listed[n - 1]]
  BY <1>8, Zenon
<1> HIDE DEF listed
<1>10. /\ listed[0] = <<>>
       /\ \A n \in Nat : listed[n + 1] = IF s[n + 1] \in rows THEN Append(listed[n], s[n + 1]) ELSE listed[n]
  <2>1. listed[0] = <<>>
    BY <1>9
  <2>2. ASSUME NEW n \in Nat
        PROVE  listed[n + 1] = IF s[n + 1] \in rows THEN Append(listed[n], s[n + 1]) ELSE listed[n]
    <3>1. n + 1 \in Nat /\ n + 1 # 0 /\ (n + 1) - 1 = n
      OBVIOUS
    <3> QED
      BY <1>9, <3>1
  <2> QED
    BY <2>1, <2>2
<1> DEFINE S == {n \in Nat : /\ listed[n] \in Seq(rows)
                             /\ \A i \in 1 .. n : s[i] \in rows => Len(listed[n]) > 0}
<1>11. 0 \in S
  <2>1. \A i \in 1 .. 0 : FALSE
    OBVIOUS
  <2> QED
    BY <1>2, <1>10, <2>1
<1>12. ASSUME NEW n \in Nat, n \in S PROVE n + 1 \in S
  <2>1. listed[n] \in Seq(rows) /\ \A i \in 1 .. n : s[i] \in rows => Len(listed[n]) > 0
    BY <1>12
  <2>2. CASE s[n + 1] \in rows
    <3>1. listed[n + 1] = Append(listed[n], s[n + 1])
      BY <1>10, <2>2
    <3>2. listed[n + 1] \in Seq(rows) /\ Len(listed[n + 1]) = Len(listed[n]) + 1 /\ Len(listed[n]) \in Nat
      BY <2>1, <2>2, <3>1
    <3> QED
      BY <3>2
  <2>3. CASE s[n + 1] \notin rows
    <3>1. listed[n + 1] = listed[n]
      BY <1>10, <2>3
    <3>2. \A i \in 1 .. n + 1 : s[i] \in rows => i \in 1 .. n
      BY <2>3
    <3> QED
      BY <2>1, <3>1, <3>2
  <2> QED
    BY <2>2, <2>3
<1> HIDE DEF S
<1>13. Len(s) \in S
  BY <1>0, <1>11, <1>12, SetInduction
<1>14. /\ listed[Len(s)] \in Seq(rows)
       /\ \A i \in 1 .. Len(s) : s[i] \in rows => Len(listed[Len(s)]) > 0
  BY <1>13 DEF S
<1> QED
  BY <1>0, <1>1, <1>14 DEF s

\* Some row is shown in either mode.
LEMMA SomeAreShown ==
    ASSUME NEW expert \in BOOLEAN, NEW s
    PROVE  LET rows == F!FilteredFields(expert, s)
           IN /\ rows \in Seq({f \in Rows : F!IsShown(f, expert, s)})
              /\ Len(rows) \in Nat /\ Len(rows) > 0
<1> DEFINE visible == {f \in Rows : F!IsShown(f, expert, s)}
<1>1. F!FilteredFields(expert, s) = F!Listed(visible)
  BY DEF F!FilteredFields
<1>2. \A f \in Rows \ (F!Expert \cup F!Ultra) : f \in visible
  BY DEF F!IsShown
<1>3. \E i \in DOMAIN F!AllFields : F!AllFields[i] \in visible
  BY <1>2, FieldsAssumption
<1> HIDE DEF visible
<1>4. F!Listed(visible) \in Seq(visible) /\ Len(F!Listed(visible)) > 0
  BY <1>3, ListedIs
<1>5. Len(F!Listed(visible)) \in Nat
  BY <1>4
<1> QED
  BY <1>1, <1>4, <1>5 DEF visible

\* The row the keys work on is one that is shown.
LEMMA RowIs ==
    ASSUME RowIsShown, expertMode \in BOOLEAN
    PROVE  F!Row \in Rows /\ F!IsShown(F!Row, expertMode, set) /\ F!Row # "no row"
<1> DEFINE rows == F!FilteredFields(expertMode, set)
<1>1. F!Shown = rows
  BY DEF F!Shown
<1>2. rows \in Seq({f \in Rows : F!IsShown(f, expertMode, set)})
  BY SomeAreShown
<1>3. rowAt \in Nat /\ rowAt < Len(rows)
  BY <1>1 DEF RowIsShown
<1> HIDE DEF rows
<1>4. F!Row = rows[rowAt + 1]
  BY <1>1, <1>3 DEF F!Row
<1>5. rowAt + 1 \in DOMAIN rows
  BY <1>2, <1>3
<1>6. rows[rowAt + 1] \in {f \in Rows : F!IsShown(f, expertMode, set)}
  BY <1>2, <1>5
<1> QED
  BY <1>4, <1>6, FieldsAssumption

\* Only the expert mode shows the row that decides on another row.
LEMMA ShownStays ==
    ASSUME RowIsShown, expertMode \in BOOLEAN, set \in [Rows -> Int], expertMode' = expertMode,
           NEW v, set' \in {set, [set EXCEPT ![F!Row] = v]}
    PROVE  F!Shown' = F!Shown
<1>1. F!IsShown(F!Row, expertMode, set)
  BY RowIs
<1>2. expertMode \/ F!Row # "split_mode"
  BY <1>1 DEF F!IsShown, F!Expert
<1>3. \A f : F!IsShown(f, expertMode, set') <=> F!IsShown(f, expertMode, set)
  <2>1. CASE expertMode
    BY <2>1 DEF F!IsShown, F!Ultra
  <2>2. CASE F!Row # "split_mode"
    <3>1. "split_mode" \in Rows => set'["split_mode"] = set["split_mode"]
      BY <2>2
    <3> QED
      BY <3>1 DEF F!IsShown
  <2> QED
    BY <1>2, <2>1, <2>2
<1>4. {f \in Rows : F!IsShown(f, expertMode, set')} = {f \in Rows : F!IsShown(f, expertMode, set)}
  BY <1>3
<1>5. F!FilteredFields(expertMode, set') = F!FilteredFields(expertMode, set)
  BY <1>4, Zenon DEF F!FilteredFields
<1> QED
  BY <1>5 DEF F!Shown

\* The ranges of the numbers are not empty, whatever context the model was trained with.
LEMMA RangesAre ==
    ASSUME NEW f \in DOMAIN F!NumberRows
    PROVE  LET n == F!NumberRows[f]
           IN /\ n.step \in Int /\ n.lo \in Int /\ n.hi \in Int /\ n.lo <= n.hi
              /\ n.typedLo \in Int /\ n.typedHi \in Int /\ n.typedLo <= n.typedHi
<1> DEFINE R(n) == /\ n.step \in Int /\ n.lo \in Int /\ n.hi \in Int /\ n.lo <= n.hi
                   /\ n.typedLo \in Int /\ n.typedHi \in Int /\ n.typedLo <= n.typedHi
           r == F!NumberRows
           upper == IF Trained > 0 THEN Trained ELSE F!Endless
<1>1. F!Endless \in Nat /\ F!Endless >= 9999 /\ upper \in Int /\ 128 <= upper /\ -F!Endless \in Int /\ -F!Endless <= F!Endless
  BY ModelAssumption, SMT DEF F!Endless
<1>2. \A sort : \A step, lo, hi, typedLo, typedHi \in Int :
          lo <= hi /\ typedLo <= typedHi => R(F!N(step, lo, hi, typedLo, typedHi, sort))
  BY SMT DEF F!N
<1> HIDE DEF R, upper
<1>3. R(r.context_length)
  BY <1>1, <1>2, SMT DEF F!NumberRows, upper
<1>4. R(r.keep) /\ R(r.expert_count) /\ R(r.batch_size) /\ R(r.ubatch_size) /\ R(r.cache_reuse)
  BY <1>1, <1>2, SMT DEF F!NumberRows
<1>5. R(r.max_concurrent_predictions) /\ R(r.seed) /\ R(r.temperature) /\ R(r.top_k) /\ R(r.top_p)
  BY <1>1, <1>2, SMT DEF F!NumberRows
<1>6. R(r.min_p) /\ R(r.typical_p) /\ R(r.repeat_penalty) /\ R(r.repeat_last_n)
  BY <1>1, <1>2, SMT DEF F!NumberRows
<1>7. R(r.presence_penalty) /\ R(r.frequency_penalty) /\ R(r.draft_tokens)
  BY <1>1, <1>2, SMT DEF F!NumberRows
<1>8. DOMAIN r = {"context_length", "keep", "expert_count", "batch_size", "ubatch_size", "cache_reuse",
                  "max_concurrent_predictions", "seed", "temperature", "top_k", "top_p", "min_p",
                  "typical_p", "repeat_penalty", "repeat_last_n", "presence_penalty",
                  "frequency_penalty", "draft_tokens"}
  BY SMT DEF F!NumberRows
<1> HIDE DEF r
<1>9. R(r[f])
  BY <1>3, <1>4, <1>5, <1>6, <1>7, <1>8 DEF r
<1> QED
  BY <1>9 DEF R, r

\* A number that is held to a range is in it.
LEMMA ClampIs ==
    ASSUME NEW v \in Int, NEW lo \in Int, NEW hi \in Int, lo <= hi
    PROVE  F!Clamp(v, lo, hi) \in lo .. hi
  BY DEF F!Clamp

\* The rows whose values are none of the panel's numbers.
LEMMA RowsOfOtherSorts ==
    /\ \A f \in DOMAIN F!Rings : f \notin DOMAIN F!NumberRows /\ f # "gpu_layers_mode"
    /\ "gpu_layers_mode" \notin DOMAIN F!NumberRows
    /\ \A f \in F!Flips \cup F!FlipsByCtrlE \cup F!QuantTypes \cup {"tensor_split", "max_tokens"} :
           f \notin DOMAIN F!NumberRows /\ f \notin DOMAIN F!Rings /\ f # "gpu_layers_mode"
  BY DEF F!Rings, F!NumberRows, F!Flips, F!FlipsByCtrlE, F!QuantTypes

\* The values of the rows at first.
LEMMA FirstValuesFit ==
    ASSUME NEW f \in Rows
    PROVE  /\ F!Lowest(f) \in Int /\ MayHold(f, F!Lowest(f))
           /\ F!Highest(f) \in Int /\ MayHold(f, F!Highest(f))
<1>1. F!NoValue \in Int /\ F!AutoLayers \in LayerCounts /\ F!AutoLayers \in Int /\ 0 \in LayerCounts
  BY DEF F!NoValue, F!AutoLayers, LayerCounts
<1>2. CASE f \in DOMAIN F!NumberRows
  <2> DEFINE n == F!NumberRows[f]
  <2>1. n.lo \in Int /\ n.hi \in Int /\ n.lo <= n.hi
    BY <1>2, RangesAre
  <2>2. F!Lowest(f) = n.lo
    BY <1>2, RowsOfOtherSorts DEF F!Lowest
  <2>3. f # "gpu_layers_mode" /\ f # "split_mode" /\ f \notin DOMAIN F!Rings
    BY <1>2, RowsOfOtherSorts DEF F!Rings
  <2>4. F!Highest(f) \in {n.hi, n.lo}
    BY <1>2, <2>3 DEF F!Highest
  <2>5. n.lo \in n.lo .. n.hi /\ n.hi \in n.lo .. n.hi
    BY <2>1
  <2> HIDE DEF n
  <2> QED
    BY <1>1, <1>2, <2>1, <2>2, <2>3, <2>4, <2>5 DEF MayHold, n
<1>3. CASE f \notin DOMAIN F!NumberRows
  <2>1. F!Lowest(f) \in {0, 16} /\ (f \in DOMAIN F!Rings \/ f = "gpu_layers_mode" => F!Lowest(f) = 0)
    BY <1>3 DEF F!Lowest, F!Rings
  <2>2. f \in DOMAIN F!Rings => F!Highest(f) \in 0 .. F!Rings[f] - 1
    BY <1>3 DEF F!Highest, F!Lowest, F!Rings, F!Options, F!TensorSplit
  <2>3. f = "gpu_layers_mode" => F!Highest(f) = F!AutoLayers
    BY <1>3 DEF F!Highest, F!Options
  <2>4. F!Highest(f) \in Int
    BY <1>1, <1>3, <2>1 DEF F!Highest, F!TensorSplit
  <2>5. f \in DOMAIN F!Rings => 0 \in 0 .. F!Rings[f] - 1
    BY DEF F!Rings
  <2> QED
    BY <1>1, <1>3, <2>1, <2>2, <2>3, <2>4, <2>5 DEF MayHold
<1> QED
  BY <1>2, <1>3

\* The panel at first.
LEMMA FieldsStart == F!FieldInit => FieldsInv
<1> SUFFICES ASSUME F!FieldInit PROVE FieldsInv
  OBVIOUS
<1>1. ValuesFit
  BY FirstValuesFit DEF F!FieldInit, ValuesFit
<1>2. RowIsShown /\ expertMode = FALSE
  BY SomeAreShown DEF F!FieldInit, RowIsShown, F!Shown
<1>3. typed \in Seq(Characters)
  BY DEF F!FieldInit
<1> QED
  BY <1>1, <1>2, <1>3 DEF FieldsInv

\* What a number is held to fits its row.
LEMMA HeldFits ==
    ASSUME NEW f \in DOMAIN F!NumberRows, NEW v \in Int
    PROVE  LET n == F!NumberRows[f]
           IN /\ F!Clamp(v, n.lo, n.hi) \in Int /\ MayHold(f, F!Clamp(v, n.lo, n.hi))
              /\ F!Clamp(v, n.typedLo, n.typedHi) \in Int /\ MayHold(f, F!Clamp(v, n.typedLo, n.typedHi))
<1> DEFINE n == F!NumberRows[f]
<1>1. /\ n.lo \in Int /\ n.hi \in Int /\ n.lo <= n.hi
      /\ n.typedLo \in Int /\ n.typedHi \in Int /\ n.typedLo <= n.typedHi
  BY RangesAre
<1>2. f \notin DOMAIN F!Rings /\ f # "gpu_layers_mode"
  BY RowsOfOtherSorts
<1> HIDE DEF n
<1>3. F!Clamp(v, n.lo, n.hi) \in n.lo .. n.hi /\ F!Clamp(v, n.typedLo, n.typedHi) \in n.typedLo .. n.typedHi
  BY <1>1, ClampIs
<1>4. F!Clamp(v, n.lo, n.hi) \in Int /\ F!Clamp(v, n.typedLo, n.typedHi) \in Int
  BY <1>1, <1>3
<1> QED
  BY <1>2, <1>3, <1>4 DEF MayHold, n

\* The layers a model is given by hand.
LEMMA GivenLayersFit == F!Clamp(Layers, 1, 256) \in 1 .. 256
<1>1. Layers \in Int
  BY ModelAssumption
<1> QED
  BY <1>1 DEF F!Clamp

\* The layers of the GPU.
LEMMA LayersFit ==
    \A n \in LayerCounts, d \in {-1, 1} :
        F!StepLayers(n, d) \in LayerCounts /\ F!AdjustLayers(n, d) \in LayerCounts
<1> SUFFICES ASSUME NEW n \in -1 .. 999, NEW d \in {-1, 1}
             PROVE  F!StepLayers(n, d) \in -1 .. 999 /\ F!AdjustLayers(n, d) \in -1 .. 999
  BY DEF LayerCounts
<1>1. F!Clamp(Layers, 1, 256) \in 1 .. 256
  BY GivenLayersFit
<1>2. F!StepLayers(n, d) \in -1 .. 999
  <2>1. CASE n = -1
    BY <1>1, <2>1 DEF F!StepLayers, F!AutoLayers, F!AllLayers
  <2>2. CASE n = 999
    BY <1>1, <2>2 DEF F!StepLayers, F!AutoLayers, F!AllLayers
  <2>3. CASE n # -1 /\ n # 999
    BY <2>3 DEF F!StepLayers, F!AutoLayers, F!AllLayers
  <2> QED
    BY <2>1, <2>2, <2>3
<1>3. F!AdjustLayers(n, d) \in -1 .. 999
  BY DEF F!AdjustLayers, F!AutoLayers, F!AllLayers
<1> QED
  BY <1>2, <1>3

\* A step of an arrow.
LEMMA AdjustedFits ==
    ASSUME ValuesFit, NEW f \in Rows, NEW d \in {-1, 1}
    PROVE  F!Adjusted(f, d) \in Int /\ MayHold(f, F!Adjusted(f, d))
<1> DEFINE v == set[f]
           some == IF v = F!NoValue THEN 0 ELSE v
<1>1. v \in Int /\ MayHold(f, v) /\ some \in Int
  BY DEF ValuesFit
<1>2. CASE f \in DOMAIN F!Rings
  <2>1. F!Adjusted(f, d) = (v + d) % F!Rings[f]
    <3>1. f \notin F!QuantTypes /\ f # "gpu_layers_mode" /\ f # "max_tokens" /\ f \notin DOMAIN F!NumberRows
      BY <1>2, RowsOfOtherSorts
    <3> QED
      BY <1>2, <3>1 DEF F!Adjusted
  <2>2. F!Rings[f] \in {4, 5}
    BY <1>2 DEF F!Rings
  <2> HIDE DEF v
  <2>3. \A r \in {4, 5} : (v + d) % r \in 0 .. r - 1
    BY <1>1
  <2>4. (v + d) % F!Rings[f] \in 0 .. F!Rings[f] - 1
    BY <2>2, <2>3
  <2>5. F!Adjusted(f, d) \in Int
    BY <2>1, <2>2, <2>4
  <2> QED
    BY <1>2, <2>1, <2>4, <2>5, RowsOfOtherSorts DEF MayHold
<1>3. CASE f \in F!QuantTypes
  <2>1. f \notin DOMAIN F!Rings
    BY <1>3, RowsOfOtherSorts
  <2>2. F!Adjusted(f, d) \in Int
    <3> DEFINE t == IF v = F!NoValue THEN 1 ELSE v
    <3>1. t \in Int
      BY <1>1
    <3>2. f # "gpu_layers_mode" /\ f # "max_tokens" /\ f \notin DOMAIN F!NumberRows
      BY <1>3, RowsOfOtherSorts DEF F!QuantTypes
    <3>3. F!Adjusted(f, d) = IF d = 1 THEN F!NextWithTurbo(t, turbo) ELSE F!PrevWithTurbo(t, turbo)
      BY <1>3, <2>1, <3>2 DEF F!Adjusted
    <3> HIDE DEF t
    <3>4. F!NextWithTurbo(t, turbo) \in Int
      BY <3>1 DEF F!NextWithTurbo, F!NextType
    <3>5. F!PrevWithTurbo(t, turbo) \in Int
      BY <3>1 DEF F!PrevWithTurbo
    <3> QED
      BY <3>3, <3>4, <3>5
  <2> QED
    BY <1>3, <2>2, RowsOfOtherSorts DEF MayHold
<1>4. CASE f = "gpu_layers_mode"
  <2>1. F!Adjusted(f, d) = F!AdjustLayers(v, d)
    BY <1>4, RowsOfOtherSorts DEF F!Adjusted, F!QuantTypes
  <2>2. v \in LayerCounts
    BY <1>1, <1>4 DEF MayHold
  <2>3. F!Adjusted(f, d) \in LayerCounts
    <3> HIDE DEF v
    <3>2. F!AdjustLayers(v, d) \in LayerCounts
      BY <2>2, LayersFit, Zenon
    <3> QED
      BY <2>1, <3>2
  <2>4. F!Adjusted(f, d) \in Int
    BY <2>3 DEF LayerCounts
  <2> QED
    BY <1>4, <2>3, <2>4, RowsOfOtherSorts DEF MayHold
<1>5. CASE f = "max_tokens"
  <2>1. F!Adjusted(f, d) \in Int
    BY <1>1, <1>5, RowsOfOtherSorts DEF F!Adjusted, F!QuantTypes
  <2> QED
    BY <1>5, <2>1, RowsOfOtherSorts DEF MayHold
<1>6. CASE f \in DOMAIN F!NumberRows
  <2>1. f \notin DOMAIN F!Rings /\ f \notin F!QuantTypes /\ f # "gpu_layers_mode" /\ f # "max_tokens"
    BY <1>6, RowsOfOtherSorts
  <2>2. CASE f = "max_concurrent_predictions" /\ v = F!NoValue
    <3>1. F!Adjusted(f, d) = 1
      BY <1>6, <2>1, <2>2 DEF F!Adjusted
    <3>2. F!NumberRows[f].lo = 1 /\ F!NumberRows[f].hi = 10
      BY <2>2 DEF F!NumberRows, F!N
    <3> QED
      BY <2>1, <3>1, <3>2 DEF MayHold
  <2>3. CASE ~(f = "max_concurrent_predictions" /\ v = F!NoValue)
    <3>1. F!Adjusted(f, d) = F!Clamp(some + d * F!NumberRows[f].step, F!NumberRows[f].lo, F!NumberRows[f].hi)
      BY <1>6, <2>1, <2>3 DEF F!Adjusted
    <3>2. F!NumberRows[f].step \in Int
      BY <1>6, RangesAre
    <3> HIDE DEF some
    <3>3. some + d * F!NumberRows[f].step \in Int
      BY <1>1, <3>2
    <3> QED
      BY <1>6, <3>1, <3>3, HeldFits
  <2> QED
    BY <2>2, <2>3
<1>7. CASE /\ f \notin DOMAIN F!Rings /\ f \notin F!QuantTypes /\ f # "gpu_layers_mode"
           /\ f # "max_tokens" /\ f \notin DOMAIN F!NumberRows
  <2>1. F!Adjusted(f, d) = v
    <3>1. f # "max_concurrent_predictions"
      BY <1>7 DEF F!NumberRows
    <3> QED
      BY <1>7, <3>1 DEF F!Adjusted
  <2> QED
    BY <1>1, <2>1
<1> QED
  BY <1>2, <1>3, <1>4, <1>5, <1>6, <1>7

\* What is typed, when it is a number, is one.
LEMMA NumberIs ==
    ASSUME typed \in Seq(Characters), NEW sort, F!IsNumber(sort)
    PROVE  F!Number \in Int
<1> DEFINE s == F!Digits
           D == 0 .. Len(s)
           digit(n) == IF n \in DOMAIN s THEN F!Digit(s[n]) ELSE 0
           step == [n \in Nat |-> [k \in Int |-> 10 * k + digit(n)]]
           value[n \in D] == IF n = 0 THEN 0 ELSE 10 * value[n - 1] + F!Digit(s[n])
<1>0. Len(s) \in Nat /\ DOMAIN s = 1 .. Len(s)
  <2>1. s \in Seq(Characters)
    <3>1. typed # <<>> => Tail(typed) \in Seq(Characters)
      OBVIOUS
    <3>2. F!Sign = -1 => typed # <<>>
      BY DEF F!Sign
    <3> QED
      BY <3>1, <3>2 DEF F!Digits
  <2> HIDE DEF s
  <2> QED
    BY <2>1
<1>1. F!Sign \in Int
  BY DEF F!Sign
<1>2. \A n \in DOMAIN s : F!Digit(s[n]) \in Int
  <2> SUFFICES ASSUME NEW n \in DOMAIN s PROVE F!Digit(s[n]) \in Int
    OBVIOUS
  <2>1. s[n] \in F!Range(F!Numerals)
    BY DEF F!IsNumber, F!Range
  <2>2. \E d \in 0 .. 9 : F!Numerals[d + 1] = s[n]
    <3>1. PICK i \in DOMAIN F!Numerals : F!Numerals[i] = s[n]
      BY <2>1 DEF F!Range
    <3>2. i \in 1 .. 10
      BY DEF F!Numerals
    <3>3. i - 1 \in 0 .. 9 /\ (i - 1) + 1 = i
      BY <3>2
    <3> QED
      BY <3>1, <3>3
  <2> HIDE DEF s
  <2>3. F!Digit(s[n]) \in 0 .. 9
    BY <2>2 DEF F!Digit
  <2> QED
    BY <2>3
<1>3. F!Number = F!Sign * value[Len(s)]
  BY DEF F!Number
<1> HIDE DEF s
<1>4. \A n \in Nat : digit(n) \in Int
  BY <1>2
<1> HIDE DEF digit
<1>5. step \in [Nat -> [Int -> Int]]
  BY <1>4
<1>6. \A n \in Nat, k \in Int : step[n][k] = 10 * k + digit(n)
  OBVIOUS
<1> HIDE DEF step
<1>7. PICK f : Follows(f, Int, 0, step)
  <2>1. 0 \in Int
    OBVIOUS
  <2> QED
    BY <1>5, <2>1, Recursion
<1>8. f \in [Nat -> Int] /\ f[0] = 0 /\ \A n \in Nat : f[n + 1] = step[n + 1][f[n]]
  BY <1>7 DEF Follows
<1>9. ASSUME NEW n \in D, n # 0 PROVE f[n] = 10 * f[n - 1] + F!Digit(s[n])
  <2>1. n - 1 \in Nat /\ (n - 1) + 1 = n /\ n \in Nat /\ n \in DOMAIN s
    BY <1>0, <1>9
  <2>2. f[n - 1] \in Int
    BY <1>8, <2>1
  <2>3. f[n] = step[n][f[n - 1]]
    BY <1>8, <2>1
  <2> QED
    BY <1>6, <2>1, <2>2, <2>3 DEF digit
<1> DEFINE g == [n \in D |-> f[n]]
<1>10. \A n \in D : g[n] = IF n = 0 THEN 0 ELSE 10 * g[n - 1] + F!Digit(s[n])
  <2> SUFFICES ASSUME NEW n \in D, n # 0 PROVE g[n] = 10 * g[n - 1] + F!Digit(s[n])
    BY <1>0, <1>8
  <2>1. n - 1 \in D
    BY <1>0
  <2> QED
    BY <1>9, <2>1
<1>11. g = [n \in D |-> IF n = 0 THEN 0 ELSE 10 * g[n - 1] + F!Digit(s[n])]
  BY <1>10
<1> HIDE DEF g, D
<1>12. value = [n \in D |-> IF n = 0 THEN 0 ELSE 10 * value[n - 1] + F!Digit(s[n])]
  BY <1>11, Zenon
<1> HIDE DEF value
<1> DEFINE S == {n \in Nat : n \in D => value[n] \in Int}
<1>13. 0 \in S
  BY <1>12
<1>14. ASSUME NEW n \in Nat, n \in S PROVE n + 1 \in S
  <2> SUFFICES ASSUME n + 1 \in D PROVE value[n + 1] \in Int
    OBVIOUS
  <2>1. n \in D /\ n + 1 \in DOMAIN s
    BY <1>0 DEF D
  <2>2. value[n + 1] = 10 * value[n] + F!Digit(s[n + 1])
    <3>1. n + 1 # 0 /\ (n + 1) - 1 = n
      OBVIOUS
    <3> QED
      BY <1>12, <3>1
  <2>3. value[n] \in Int
    BY <1>14, <2>1
  <2>4. F!Digit(s[n + 1]) \in Int
    BY <1>2, <2>1
  <2> QED
    BY <2>2, <2>3, <2>4
<1> HIDE DEF S
<1>15. Len(s) \in S
  BY <1>0, <1>13, <1>14, SetInduction
<1>16. value[Len(s)] \in Int
  BY <1>0, <1>15 DEF S, D
<1> QED
  BY <1>1, <1>3, <1>16 DEF value, D

\* What Enter takes.
LEMMA AppliedFits ==
    ASSUME ValuesFit, typed \in Seq(Characters), NEW f \in Rows
    PROVE  F!Applied(f) \in Int /\ MayHold(f, F!Applied(f))
<1>1. set[f] \in Int /\ MayHold(f, set[f])
  BY DEF ValuesFit
<1>2. CASE f = "max_tokens"
  <2>1. F!NoValue \in Int /\ F!Endless \in Int
    BY SMT DEF F!NoValue, F!Endless
  <2>2. f # "tensor_split" /\ f \notin DOMAIN F!NumberRows
    BY <1>2, RowsOfOtherSorts
  <2>3. F!IsNumber("signed") => F!Number \in Int
    BY NumberIs
  <2>4. F!Applied(f) = IF ~F!IsNumber("signed") THEN set[f]
                       ELSE IF F!Number = 0 THEN F!NoValue
                       ELSE IF F!Number < 0 THEN F!Endless + F!Number ELSE F!Number
    BY <1>2, <2>2 DEF F!Applied
  <2>5. F!Applied(f) \in Int
    BY <1>1, <2>1, <2>3, <2>4
  <2> QED
    BY <1>2, <2>5, RowsOfOtherSorts DEF MayHold
<1>3. CASE f = "tensor_split"
  <2>1. F!Applied(f) = 1
    BY <1>3, RowsOfOtherSorts DEF F!Applied
  <2> QED
    BY <1>3, <2>1, RowsOfOtherSorts DEF MayHold
<1>4. CASE f \in DOMAIN F!NumberRows
  <2> DEFINE n == F!NumberRows[f]
             v == IF n.sort = "float" THEN 100 * F!Number ELSE F!Number
  <2>1. f # "max_tokens" /\ f # "tensor_split"
    BY <1>4, RowsOfOtherSorts
  <2>2. F!Applied(f) = IF ~F!IsNumber(n.sort) THEN set[f] ELSE F!Clamp(v, n.typedLo, n.typedHi)
    BY <1>4, <2>1 DEF F!Applied
  <2>3. F!IsNumber(n.sort) => F!Number \in Int
    BY NumberIs
  <2>4. F!IsNumber(n.sort) => v \in Int
    BY <2>3
  <2> HIDE DEF v
  <2>5. v \in Int => /\ F!Clamp(v, n.typedLo, n.typedHi) \in Int
                     /\ MayHold(f, F!Clamp(v, n.typedLo, n.typedHi))
    BY <1>4, HeldFits
  <2> HIDE DEF n
  <2> QED
    BY <1>1, <2>2, <2>4, <2>5
<1>5. CASE f # "max_tokens" /\ f # "tensor_split" /\ f \notin DOMAIN F!NumberRows
  <2>1. F!Applied(f) = set[f]
    BY <1>5 DEF F!Applied
  <2> QED
    BY <1>1, <2>1
<1> QED
  BY <1>2, <1>3, <1>4, <1>5

\* A row that is given a value it may have.
LEMMA ValueKeeps ==
    ASSUME FieldsInv, NEW v \in Int, MayHold(F!Row, v), set' \in {set, [set EXCEPT ![F!Row] = v]},
           UNCHANGED <<rowAt, expertMode>>, typed' \in Seq(Characters)
    PROVE  FieldsInv'
<1>1. F!Row \in Rows
  BY RowIs DEF FieldsInv
<1>2. ValuesFit'
  <2>1. set \in [Rows -> Int] /\ \A f \in Rows : MayHold(f, set[f])
    BY DEF FieldsInv, ValuesFit
  <2>2. set' \in [Rows -> Int] /\ \A f \in Rows : set'[f] = set[f] \/ (f = F!Row /\ set'[f] = v)
    BY <1>1, <2>1
  <2>3. \A f \in Rows : MayHold(f, set'[f])
    BY <2>1, <2>2
  <2> QED
    BY <2>2, <2>3 DEF ValuesFit, MayHold
<1>3. F!Shown' = F!Shown
  BY ShownStays DEF FieldsInv, ValuesFit
<1>4. RowIsShown'
  BY <1>3 DEF FieldsInv, RowIsShown
<1> QED
  BY <1>2, <1>4 DEF FieldsInv

\* The keys that move.
LEMMA MovesKeep ==
    ASSUME FieldsInv,
           (\E d \in {-10, -1, 1, 10} : F!Move(d)) \/ (\E d \in {-5, 5} : F!Page(d)) \/ F!ToggleExpert
    PROVE  FieldsInv'
<1>1. /\ ValuesFit /\ rowAt \in Nat /\ expertMode \in BOOLEAN /\ typed \in Seq(Characters)
      /\ set' = set
  BY DEF FieldsInv, RowIsShown, F!Move, F!Page, F!ToggleExpert
<1>2. ValuesFit' /\ typed' \in Seq(Characters) /\ expertMode' \in BOOLEAN
  <2>1. ValuesFit'
    BY <1>1 DEF ValuesFit, MayHold
  <2>2. typed' \in {typed, <<>>} /\ expertMode' \in BOOLEAN
    BY <1>1 DEF F!Move, F!Page, F!ToggleExpert
  <2>3. <<>> \in Seq(Characters)
    OBVIOUS
  <2> QED
    BY <1>1, <2>1, <2>2, <2>3
<1>3. F!Shown' = F!FilteredFields(expertMode', set)
  BY <1>1 DEF F!Shown
<1>4. \A e \in BOOLEAN : Len(F!FilteredFields(e, set)) \in Nat /\ Len(F!FilteredFields(e, set)) > 0
  BY SomeAreShown
<1>5. \A n \in Nat \ {0}, k \in Int : F!Clamp(k, 0, n - 1) \in Nat /\ F!Clamp(k, 0, n - 1) < n
  BY DEF F!Clamp
<1>6. (rowAt' = rowAt /\ expertMode' = expertMode)
      \/ \E k \in Int : rowAt' = F!Clamp(k, 0, Len(F!FilteredFields(expertMode', set)) - 1)
  <2>1. ASSUME NEW d \in {-10, -1, 1, 10}, F!Move(d)
        PROVE  (rowAt' = rowAt /\ expertMode' = expertMode)
               \/ \E k \in Int : rowAt' = F!Clamp(k, 0, Len(F!FilteredFields(expertMode', set)) - 1)
    BY <1>1, <2>1 DEF F!Move, F!Shown
  <2>2. ASSUME NEW d \in {-5, 5}, F!Page(d)
        PROVE  \E k \in Int : rowAt' = F!Clamp(k, 0, Len(F!FilteredFields(expertMode', set)) - 1)
    BY <1>1, <2>2 DEF F!Page, F!Shown
  <2>3. ASSUME F!ToggleExpert
        PROVE  \E k \in Int : rowAt' = F!Clamp(k, 0, Len(F!FilteredFields(expertMode', set)) - 1)
    BY <1>1, <2>3 DEF F!ToggleExpert
  <2> QED
    BY <2>1, <2>2, <2>3
<1>7. RowIsShown'
  <2>1. CASE (rowAt' = rowAt /\ expertMode' = expertMode)
    BY <1>1, <2>1 DEF FieldsInv, RowIsShown, F!Shown
  <2>2. CASE \E k \in Int : rowAt' = F!Clamp(k, 0, Len(F!FilteredFields(expertMode', set)) - 1)
    <3> DEFINE n == Len(F!FilteredFields(expertMode', set))
    <3>1. n \in Nat \ {0}
      BY <1>2, <1>4
    <3>2. PICK k \in Int : rowAt' = F!Clamp(k, 0, n - 1)
      BY <2>2
    <3>3. rowAt' \in Nat /\ rowAt' < n
      <4> HIDE DEF n
      <4> QED
        BY <1>5, <3>1, <3>2
    <3> QED
      BY <1>3, <3>3 DEF RowIsShown
  <2> QED
    BY <1>6, <2>1, <2>2
<1> QED
  BY <1>2, <1>7 DEF FieldsInv

\* Ctrl+E.
LEMMA OptionKeeps == FieldsInv /\ F!ToggleField => FieldsInv'
<1> SUFFICES ASSUME FieldsInv, F!ToggleField PROVE FieldsInv'
  OBVIOUS
<1> DEFINE r == F!Row
<1>1. /\ r \in Rows /\ set[r] \in Int /\ MayHold(r, set[r]) /\ typed' \in Seq(Characters)
      /\ UNCHANGED <<rowAt, expertMode>>
  BY RowIs DEF FieldsInv, ValuesFit, F!ToggleField
<1>2. PICK v \in Int : MayHold(r, v) /\ set' \in {set, [set EXCEPT ![r] = v]}
  <2>1. CASE r \in DOMAIN F!Options
    <3> DEFINE v == IF set[r] = F!NoValue THEN F!Options[r] ELSE F!NoValue
    <3>1. r # "expert_count" /\ r # "tensor_split"
          /\ (r \in F!FlipsByCtrlE => FALSE) /\ r # "gpu_layers_mode" /\ r \notin DOMAIN F!Rings
      BY <2>1 DEF F!Options, F!FlipsByCtrlE, F!Flips, F!Rings
    <3>2. set' = [set EXCEPT ![r] = v]
      BY <2>1, <3>1 DEF F!ToggleField, F!Set
    <3>3. F!NoValue \in Int /\ F!Options[r] \in Int
      BY <2>1, SMT DEF F!Options, F!NoValue
    <3>4. MayHold(r, F!NoValue)
      BY <2>1, <3>1 DEF MayHold
    <3>5. MayHold(r, F!Options[r])
      <4>1. r \in {"max_concurrent_predictions", "max_tokens", "presence_penalty",
                   "frequency_penalty", "cache_type_k", "cache_type_v"}
        BY <2>1 DEF F!Options
      <4>2. CASE r = "max_concurrent_predictions"
        <5>1. F!Options[r] = 1 /\ F!NumberRows[r].lo = 1 /\ F!NumberRows[r].hi = 10
          BY <4>2, SMT DEF F!Options, F!NumberRows, F!N
        <5> QED
          BY <3>1, <5>1 DEF MayHold
      <4>3. CASE r \in {"presence_penalty", "frequency_penalty"}
        <5>1. F!Options[r] = 0 /\ F!NumberRows[r].lo = -200 /\ F!NumberRows[r].hi = 200
          BY <4>3, SMT DEF F!Options, F!NumberRows, F!N
        <5> QED
          BY <3>1, <5>1 DEF MayHold
      <4>4. CASE r \in {"max_tokens", "cache_type_k", "cache_type_v"}
        BY <3>1, <4>4, RowsOfOtherSorts DEF MayHold, F!QuantTypes
      <4> QED
        BY <4>1, <4>2, <4>3, <4>4
    <3>6. v \in Int /\ MayHold(r, v)
      BY <3>3, <3>4, <3>5
    <3> QED
      BY <3>2, <3>6
  <2>2. CASE r = "expert_count"
    <3>1. r \notin DOMAIN F!Options /\ r \notin F!FlipsByCtrlE /\ r # "tensor_split"
      BY <2>2 DEF F!Options, F!FlipsByCtrlE, F!Flips
    <3>2. \E v \in -1 .. 1 : set' = [set EXCEPT ![r] = v]
      <4>1. set' = [set EXCEPT ![r] = CASE set[r] = 0 -> 1 [] set[r] = -1 -> 0 [] OTHER -> -1]
        BY <2>2, <3>1 DEF F!ToggleField, F!Set
      <4>2. (CASE set[r] = 0 -> 1 [] set[r] = -1 -> 0 [] OTHER -> -1) \in -1 .. 1
        BY <1>1
      <4> QED
        BY <4>1, <4>2
    <3>3. F!NumberRows[r].lo = -1 /\ F!NumberRows[r].hi = 99
      BY <2>2, SMT DEF F!NumberRows, F!N
    <3>4. r \notin DOMAIN F!Rings
      BY <2>2 DEF F!Rings
    <3>5. \A v \in -1 .. 1 : v \in Int /\ MayHold(r, v)
      BY <2>2, <3>3, <3>4 DEF MayHold
    <3> QED
      BY <3>2, <3>5
  <2>3. CASE r = "tensor_split"
    <3>1. r \notin DOMAIN F!Options /\ r \notin F!FlipsByCtrlE /\ r # "expert_count"
      BY <2>3 DEF F!Options, F!FlipsByCtrlE, F!Flips
    <3>2. set' = [set EXCEPT ![r] = 0]
      BY <2>3, <3>1 DEF F!ToggleField, F!Set
    <3>3. 0 \in Int /\ MayHold(r, 0)
      BY <2>3, RowsOfOtherSorts DEF MayHold
    <3> QED
      BY <3>2, <3>3
  <2>4. CASE r \in F!FlipsByCtrlE
    <3>1. r \notin DOMAIN F!Options /\ r # "tensor_split" /\ r # "expert_count"
      BY <2>4 DEF F!Options, F!FlipsByCtrlE, F!Flips
    <3>2. set' = [set EXCEPT ![r] = 1 - set[r]]
      BY <2>4, <3>1 DEF F!ToggleField, F!Set
    <3>3. MayHold(r, 1 - set[r])
      BY <2>4, RowsOfOtherSorts DEF MayHold
    <3>4. 1 - set[r] \in Int
      BY <1>1
    <3> QED
      BY <3>2, <3>3, <3>4
  <2>5. CASE r \notin DOMAIN F!Options /\ r # "expert_count" /\ r # "tensor_split" /\ r \notin F!FlipsByCtrlE
    <3>1. set' = set
      BY <2>5 DEF F!ToggleField
    <3> QED
      BY <1>1, <3>1
  <2> QED
    BY <2>1, <2>2, <2>3, <2>4, <2>5
<1> QED
  BY <1>1, <1>2, ValueKeeps

\* What is typed without what was typed last.
LEMMA FrontIs ==
    ASSUME typed \in Seq(Characters), typed # <<>>
    PROVE  F!Front(typed) \in Seq(Characters)
  BY SubSeqProperties DEF F!Front

\* The arrows and Backspace.
LEMMA ArrowKeeps ==
    ASSUME FieldsInv, NEW d \in {-1, 1}, NEW erases \in BOOLEAN, F!Arrow(d, erases)
    PROVE  FieldsInv'
<1> DEFINE r == F!Row
<1>1. /\ r \in Rows /\ r # "no row" /\ set[r] \in Int /\ MayHold(r, set[r]) /\ typed \in Seq(Characters)
      /\ ValuesFit /\ UNCHANGED <<rowAt, expertMode>>
  BY RowIs DEF FieldsInv, ValuesFit, F!Arrow
<1>2. PICK v \in Int : MayHold(r, v) /\ set' \in {set, [set EXCEPT ![r] = v]} /\ typed' \in Seq(Characters)
  <2>1. CASE r = "gpu_layers_mode"
    <3> DEFINE v == IF typed = <<>> /\ ~erases THEN F!StepLayers(set[r], d) ELSE F!AdjustLayers(set[r], d)
    <3>1. typed' = <<>> /\ set' = [set EXCEPT ![r] = v]
      BY <2>1, <1>1 DEF F!Arrow, F!Set
    <3>2. set[r] \in LayerCounts
      BY <1>1, <2>1 DEF MayHold
    <3>3. F!StepLayers(set[r], d) \in LayerCounts /\ F!AdjustLayers(set[r], d) \in LayerCounts
      BY <3>2, LayersFit, Zenon
    <3>4. v \in LayerCounts
      BY <3>3
    <3>5. v \in Int /\ MayHold(r, v)
      <4> HIDE DEF v
      <4> QED
        BY <2>1, <3>4, RowsOfOtherSorts DEF MayHold, LayerCounts
    <3>6. typed' \in Seq(Characters)
      BY <3>1
    <3> HIDE DEF v
    <3> QED
      BY <3>1, <3>5, <3>6
  <2>2. CASE r # "gpu_layers_mode" /\ d = -1 /\ typed # <<>>
    <3>1. typed' = F!Front(typed) /\ set' = set
      BY <1>1, <2>2 DEF F!Arrow
    <3> QED
      BY <1>1, <2>2, <3>1, FrontIs
  <2>3. CASE r # "gpu_layers_mode" /\ ~(d = -1 /\ typed # <<>>)
    <3>1. typed' = typed /\ set' = [set EXCEPT ![r] = F!Adjusted(r, d)]
      BY <1>1, <2>3 DEF F!Arrow, F!Set
    <3>2. F!Adjusted(r, d) \in Int /\ MayHold(r, F!Adjusted(r, d))
      BY <1>1, AdjustedFits
    <3> QED
      BY <1>1, <3>1, <3>2
  <2> QED
    BY <2>1, <2>2, <2>3
<1> QED
  BY <1>1, <1>2, ValueKeeps

\* A number of layers is written with numerals.
LEMMA WrittenIs ==
    ASSUME NEW n \in 0 .. 998
    PROVE  F!Written(n) \in Seq(Characters)
<1> DEFINE numeral(p) == F!Numerals[((n \div p) % 10) + 1]
<1>1. \A k \in 0 .. 9 : F!Numerals[k + 1] \in Characters
  BY DEF F!Numerals, F!Range, Characters
<1>2. (n \div 1) % 10 \in 0 .. 9 /\ (n \div 10) % 10 \in 0 .. 9 /\ (n \div 100) % 10 \in 0 .. 9
  OBVIOUS
<1>3. numeral(1) \in Characters /\ numeral(10) \in Characters /\ numeral(100) \in Characters
  BY <1>1, <1>2
<1> DEFINE one == <<numeral(1)>>
           two == <<numeral(10), numeral(1)>>
           three == <<numeral(100), numeral(10), numeral(1)>>
<1>4. F!Written(n) = one \/ F!Written(n) = two \/ F!Written(n) = three
  BY DEF F!Written
<1>5. one \in Seq(Characters) /\ two \in Seq(Characters) /\ three \in Seq(Characters)
  <2> HIDE DEF numeral
  <2> QED
    BY <1>3
<1> HIDE DEF one, two, three
<1> QED
  BY <1>4, <1>5

\* Enter.
LEMMA EnterKeeps == FieldsInv /\ F!Enter => FieldsInv'
<1> SUFFICES ASSUME FieldsInv, F!Enter PROVE FieldsInv'
  OBVIOUS
<1> DEFINE r == F!Row
<1>1. /\ r \in Rows /\ r # "no row" /\ set[r] \in Int /\ MayHold(r, set[r]) /\ typed \in Seq(Characters)
      /\ ValuesFit /\ UNCHANGED <<rowAt, expertMode>>
  BY RowIs DEF FieldsInv, ValuesFit, F!Enter
<1>0. set[r] \in Int
  BY <1>1
<1>2. PICK v \in Int : MayHold(r, v) /\ set' \in {set, [set EXCEPT ![r] = v]} /\ typed' \in Seq(Characters)
  <2>1. CASE r = "gpu_layers_mode"
    <3>0. PICK n \in -1 .. 999 : n = set[r]
      BY <1>1, <2>1 DEF MayHold, LayerCounts
    <3>4. r \notin F!Flips /\ r \notin F!QuantTypes
      BY <2>1 DEF F!Flips, F!QuantTypes
    <3>1. CASE typed # <<>>
      <4>1. typed' = <<>> /\ set' = set
        BY <2>1, <3>1, <3>4 DEF F!Enter
      <4>2. typed' \in Seq(Characters)
        BY <4>1
      <4> QED
        BY <1>1, <4>1, <4>2
    <3>2. CASE typed = <<>> /\ n \in {F!AutoLayers, F!AllLayers}
      <4>1. typed' = typed /\ set' = [set EXCEPT ![r] = F!Clamp(Layers, 1, 256)]
        BY <2>1, <3>0, <3>2, <3>4 DEF F!Enter, F!Set
      <4>2. F!Clamp(Layers, 1, 256) \in -1 .. 999
        BY GivenLayersFit
      <4>3. F!Clamp(Layers, 1, 256) \in Int /\ MayHold(r, F!Clamp(Layers, 1, 256))
        BY <2>1, <4>2, RowsOfOtherSorts DEF MayHold, LayerCounts
      <4> QED
        BY <1>1, <4>1, <4>3
    <3>3. CASE typed = <<>> /\ n \notin {F!AutoLayers, F!AllLayers}
      <4>1. typed' = F!Written(n) /\ set' = set
        BY <2>1, <3>0, <3>3, <3>4 DEF F!Enter
      <4>2. n \in 0 .. 998
        BY <3>3 DEF F!AutoLayers, F!AllLayers
      <4>3. typed' \in Seq(Characters)
        BY <4>1, <4>2, WrittenIs
      <4> QED
        BY <1>1, <4>1, <4>3
    <3> QED
      BY <3>1, <3>2, <3>3
  <2>2. CASE r \in F!Flips
    <3>1. r # "gpu_layers_mode" /\ r \notin F!QuantTypes
      BY <2>2 DEF F!Flips, F!QuantTypes
    <3>2. typed' = typed /\ set' = [set EXCEPT ![r] = 1 - set[r]]
      BY <2>2, <3>1 DEF F!Enter, F!Set
    <3>3. 1 - set[r] \in Int
      BY <1>0
    <3>4. MayHold(r, 1 - set[r])
      BY <2>2, RowsOfOtherSorts DEF MayHold
    <3> QED
      BY <1>1, <3>2, <3>3, <3>4
  <2>3. CASE r \in F!QuantTypes
    <3> DEFINE t == IF set[r] = F!NoValue THEN 1 ELSE set[r]
               v == F!NextType(t)
    <3>1. r # "gpu_layers_mode" /\ r \notin F!Flips
      BY <2>3 DEF F!Flips, F!QuantTypes
    <3>2. typed' = typed /\ set' = [set EXCEPT ![r] = v]
      BY <2>3, <3>1 DEF F!Enter, F!Set
    <3>3. v \in Int
      <4>1. t \in Int
        BY <1>0
      <4> HIDE DEF t
      <4> QED
        BY <4>1 DEF F!NextType
    <3>4. MayHold(r, v)
      BY <2>3, RowsOfOtherSorts DEF MayHold
    <3> HIDE DEF v
    <3> QED
      BY <1>1, <3>2, <3>3, <3>4
  <2>4. CASE r # "gpu_layers_mode" /\ r \notin F!Flips /\ r \notin F!QuantTypes
    <3>1. CASE r \in F!Opens \/ typed = <<>>
      <4>1. typed' = typed /\ set' = set
        BY <2>4, <3>1 DEF F!Enter
      <4> QED
        BY <1>1, <4>1
    <3>2. CASE ~(r \in F!Opens \/ typed = <<>>)
      <4>1. typed' = <<>> /\ set' = [set EXCEPT ![r] = F!Applied(r)]
        BY <1>1, <2>4, <3>2 DEF F!Enter, F!Set
      <4>2. F!Applied(r) \in Int /\ MayHold(r, F!Applied(r))
        BY <1>1, AppliedFits
      <4>3. typed' \in Seq(Characters)
        BY <4>1
      <4> QED
        BY <4>1, <4>2, <4>3
    <3> QED
      BY <3>1, <3>2
  <2> QED
    BY <2>1, <2>2, <2>3, <2>4
<1> QED
  BY <1>1, <1>2, ValueKeeps

\* What is typed and what Esc drops.
LEMMA TypingKeeps ==
    ASSUME FieldsInv, F!Escape \/ \E c \in Typed : F!Type(c)
    PROVE  FieldsInv'
<1>1. typed \in Seq(Characters) /\ UNCHANGED <<set, rowAt, expertMode>>
  BY DEF FieldsInv, F!Escape, F!Type
<1>2. typed' \in Seq(Characters)
  <2>1. CASE F!Escape
    BY <2>1 DEF F!Escape
  <2>2. ASSUME NEW c \in Typed, F!Type(c) PROVE typed' \in Seq(Characters)
    <3>1. c \in Characters
      BY DEF Characters
    <3>2. typed' = <<c>> \/ typed' = Append(typed, c)
      BY <2>2 DEF F!Type
    <3>3. <<c>> \in Seq(Characters) /\ Append(typed, c) \in Seq(Characters)
      BY <1>1, <3>1
    <3> QED
      BY <3>2, <3>3
  <2> QED
    BY <2>1, <2>2
<1>3. MayHold(F!Row, set[F!Row]) /\ set[F!Row] \in Int
  BY RowIs DEF FieldsInv, ValuesFit
<1> QED
  BY <1>1, <1>2, <1>3, ValueKeeps

\* Every key keeps the invariant.
LEMMA FieldsKeep == FieldsInv /\ [F!FieldNext]_fVars => FieldsInv'
<1> SUFFICES ASSUME FieldsInv, [F!FieldNext]_fVars PROVE FieldsInv'
  OBVIOUS
<1>1. CASE UNCHANGED fVars
  <2>1. UNCHANGED <<set, rowAt, expertMode, typed>>
    BY <1>1 DEF fVars
  <2>2. MayHold(F!Row, set[F!Row]) /\ set[F!Row] \in Int /\ typed' \in Seq(Characters)
    BY <2>1, RowIs DEF FieldsInv, ValuesFit
  <2> QED
    BY <2>1, <2>2, ValueKeeps
<1>2. CASE F!FieldNext
  BY <1>2, MovesKeep, OptionKeeps, ArrowKeeps, EnterKeeps, TypingKeeps DEF F!FieldNext
<1> QED
  BY <1>1, <1>2

\* The invariant is more than what the run checks.
LEMMA PanelStaysSound == FieldsInv => F!PanelIsSound
<1> SUFFICES ASSUME FieldsInv PROVE F!PanelIsSound
  OBVIOUS
<1>1. \A f \in Rows : MayHold(f, set[f])
  BY DEF FieldsInv, ValuesFit
<1>2. F!Row # "no row"
  BY RowIs DEF FieldsInv
<1>3. \A f \in DOMAIN F!NumberRows \cap Rows :
          LET n == F!NumberRows[f] IN
          \/ f \in DOMAIN F!Options /\ set[f] = F!NoValue
          \/ set[f] \in n.lo .. n.hi \/ set[f] \in n.typedLo .. n.typedHi
  BY <1>1 DEF MayHold
<1>4. \A f \in DOMAIN F!Rings \cap Rows : set[f] \in 0 .. F!Rings[f] - 1
  BY <1>1 DEF MayHold
<1> QED
  BY <1>2, <1>3, <1>4 DEF F!PanelIsSound
-----------------------------------------------------------------------------
(* The names of files.  Keys and display names are functions recursive over *)
(* the positions of a name: each is shown to be a reading, whose first part *)
(* is followed by the reading of the rest, and the keys come back by       *)
(* induction on the length of the name.                                    *)

\* The characters and the escapes.
Marks == N!Alphabet \cup {N!Percent, N!Underscores}

\* Where two underscores come together.
Pairs(s) == {i \in DOMAIN s : i < Len(s) /\ s[i] = "_" /\ s[i + 1] = "_"}

\* f[i] is what a sequence is read as from its ith character on: out[i], and then what
\* follows the character, or the pair that begins with it.
Reads(f, s, out) ==
    f = [i \in 1 .. Len(s) + 2 |->
           IF i > Len(s) THEN <<>>
           ELSE out[i] \o (IF i \in Pairs(s) THEN f[i + 2] ELSE f[i + 1])]

\* Values from the end of a range, each by step[i] from the two after it.
GoesBack(f, len, e, step) ==
    /\ f[len + 1] = e /\ f[len + 2] = e
    /\ \A i \in 1 .. len : f[i] = step[i][<<f[i + 1], f[i + 2]>>]

\* Recursion from the end of a range, by two.
LEMMA BackRecursion ==
    ASSUME NEW len \in Nat, NEW C, NEW e \in C, NEW step \in [1 .. len -> [C \X C -> C]]
    PROVE  \E f \in [1 .. len + 2 -> C] : GoesBack(f, len, e, step)
<1> DEFINE P2 == C \X C
           back == [m \in Nat |-> [q \in P2 |-> IF m \in 1 .. len THEN <<step[len + 1 - m][q], q[1]>> ELSE q]]
<1>1. <<e, e>> \in P2
  OBVIOUS
<1>2. back \in [Nat -> [P2 -> P2]]
  <2> SUFFICES ASSUME NEW m \in Nat, NEW q \in P2
               PROVE  (IF m \in 1 .. len THEN <<step[len + 1 - m][q], q[1]>> ELSE q) \in P2
    OBVIOUS
  <2>1. CASE m \in 1 .. len
    <3>1. len + 1 - m \in 1 .. len
      BY <2>1
    <3>2. step[len + 1 - m][q] \in C /\ q[1] \in C
      BY <3>1
    <3> QED
      BY <2>1, <3>2
  <2>2. CASE m \notin 1 .. len
    BY <2>2
  <2> QED
    BY <2>1, <2>2
<1>3. \A m \in 1 .. len, q \in P2 : back[m][q] = <<step[len + 1 - m][q], q[1]>>
  <2> TAKE m \in 1 .. len, q \in P2
  <2>1. m \in Nat
    OBVIOUS
  <2> HIDE DEF P2
  <2> QED
    BY <2>1
<1> HIDE DEF back
<1>4. PICK h : Follows(h, P2, <<e, e>>, back)
  <2> HIDE DEF P2
  <2> QED
    BY <1>1, <1>2, Recursion
<1>5. h \in [Nat -> P2] /\ h[0] = <<e, e>>
  BY <1>4 DEF Follows
<1>6. \A m \in 0 .. len - 1 : h[m + 1] = <<step[len - m][h[m]], h[m][1]>>
  <2> TAKE m \in 0 .. len - 1
  <2>1. m \in Nat /\ m + 1 \in 1 .. len /\ len + 1 - (m + 1) = len - m
    OBVIOUS
  <2>2. h[m + 1] = back[m + 1][h[m]] /\ h[m] \in P2
    BY <1>4, <1>5, <2>1 DEF Follows
  <2> QED
    BY <1>3, <2>1, <2>2
<1>7. \A m \in Nat : h[m] = <<h[m][1], h[m][2]>> /\ h[m][1] \in C /\ h[m][2] \in C
  BY <1>5
<1> DEFINE f == [i \in 1 .. len + 2 |-> IF i = len + 2 THEN e ELSE h[len + 1 - i][1]]
<1>8. f \in [1 .. len + 2 -> C] /\ f[len + 1] = e /\ f[len + 2] = e
  <2>1. \A i \in 1 .. len + 2 : i # len + 2 => len + 1 - i \in Nat
    OBVIOUS
  <2>2. f \in [1 .. len + 2 -> C]
    BY <1>7, <2>1
  <2>3. f[len + 1] = h[0][1]
    <3>1. len + 1 \in 1 .. len + 2 /\ len + 1 # len + 2 /\ len + 1 - (len + 1) = 0
      OBVIOUS
    <3> QED
      BY <3>1
  <2>4. f[len + 2] = e
    OBVIOUS
  <2> QED
    BY <1>5, <2>2, <2>3, <2>4
<1>9. ASSUME NEW m \in 0 .. len PROVE h[m] = <<f[len + 1 - m], f[len + 2 - m]>>
  <2>1. f[len + 1 - m] = h[m][1]
    <3>1. len + 1 - m \in 1 .. len + 2 /\ len + 1 - m # len + 2 /\ len + 1 - (len + 1 - m) = m
      OBVIOUS
    <3> QED
      BY <3>1
  <2>2. f[len + 2 - m] = h[m][2]
    <3>1. CASE m = 0
      BY <1>5, <3>1
    <3>2. CASE m # 0
      <4>1. m - 1 \in 0 .. len - 1 /\ (m - 1) + 1 = m
        BY <3>2
      <4>2. h[m][2] = h[m - 1][1]
        BY <1>6, <4>1
      <4>3. len + 2 - m \in 1 .. len + 2 /\ len + 2 - m # len + 2 /\ len + 1 - (len + 2 - m) = m - 1
        BY <3>2
      <4> QED
        BY <4>2, <4>3
    <3> QED
      BY <3>1, <3>2
  <2> QED
    BY <1>7, <2>1, <2>2
<1>10. ASSUME NEW i \in 1 .. len PROVE f[i] = step[i][<<f[i + 1], f[i + 2]>>]
  <2>1. len - i \in 0 .. len - 1 /\ (len - i) + 1 = len + 1 - i /\ len - (len - i) = i
    OBVIOUS
  <2>2. f[i] = h[len + 1 - i][1]
    BY <2>1
  <2>3. h[len + 1 - i] = <<step[i][h[len - i]], h[len - i][1]>>
    BY <1>6, <2>1
  <2>4. h[len - i] = <<f[i + 1], f[i + 2]>>
    <3>1. len - i \in 0 .. len /\ len + 1 - (len - i) = i + 1 /\ len + 2 - (len - i) = i + 2
      OBVIOUS
    <3> HIDE DEF f
    <3> QED
      BY <1>9, <3>1
  <2> QED
    BY <2>2, <2>3, <2>4
<1> HIDE DEF f
<1> QED
  BY <1>8, <1>10 DEF GoesBack

\* So there is such a reading,
LEMMA ReadingExists ==
    ASSUME NEW s \in Seq(Marks), NEW out \in [DOMAIN s -> Seq(Marks)]
    PROVE  \E f : Reads(f, s, out) /\ f[1] \in Seq(Marks)
<1> DEFINE C == Seq(Marks)
           len == Len(s)
           step == [i \in 1 .. len |-> [q \in C \X C |-> out[i] \o (IF i \in Pairs(s) THEN q[2] ELSE q[1])]]
<1>1. len \in Nat /\ DOMAIN s = 1 .. len /\ <<>> \in C
  OBVIOUS
<1>2. step \in [1 .. len -> [C \X C -> C]]
  <2> SUFFICES ASSUME NEW i \in 1 .. len, NEW q \in C \X C
               PROVE  out[i] \o (IF i \in Pairs(s) THEN q[2] ELSE q[1]) \in C
    OBVIOUS
  <2>1. out[i] \in C /\ q[1] \in C /\ q[2] \in C
    BY <1>1
  <2>2. \A a, b \in C : a \o b \in C
    OBVIOUS
  <2> HIDE DEF C
  <2> QED
    BY <2>1, <2>2
<1>3. \A i \in 1 .. len, a, b \in C : step[i][<<a, b>>] = out[i] \o (IF i \in Pairs(s) THEN b ELSE a)
  <2> TAKE i \in 1 .. len, a, b \in C
  <2>1. <<a, b>> \in C \X C /\ <<a, b>>[1] = a /\ <<a, b>>[2] = b
    OBVIOUS
  <2> QED
    BY <2>1
<1> HIDE DEF step
<1>4. PICK f : /\ f \in [1 .. len + 2 -> C] /\ f[len + 1] = <<>> /\ f[len + 2] = <<>>
               /\ \A i \in 1 .. len : f[i] = step[i][<<f[i + 1], f[i + 2]>>]
  <2> DEFINE e == <<>>
  <2>1. len \in Nat /\ e \in C
    BY <1>1
  <2> HIDE DEF C, len, e
  <2>2. \E f \in [1 .. len + 2 -> C] : GoesBack(f, len, e, step)
    BY <1>2, <2>1, BackRecursion, Zenon
  <2> QED
    BY <2>2 DEF e, GoesBack
<1>5. ASSUME NEW i \in 1 .. len PROVE f[i] = out[i] \o (IF i \in Pairs(s) THEN f[i + 2] ELSE f[i + 1])
  <2>1. i + 1 \in 1 .. len + 2 /\ i + 2 \in 1 .. len + 2
    BY <1>1
  <2>2. f[i + 1] \in C /\ f[i + 2] \in C
    BY <1>4, <2>1
  <2> HIDE DEF C
  <2> QED
    BY <1>3, <1>4, <2>2
<1>6. Reads(f, s, out)
  <2>1. ASSUME NEW i \in 1 .. len + 2
        PROVE  f[i] = IF i > len THEN <<>>
                      ELSE out[i] \o (IF i \in Pairs(s) THEN f[i + 2] ELSE f[i + 1])
    <3>1. CASE i \in 1 .. len
      <4>1. ~(i > len)
        BY <1>1, <3>1
      <4> QED
        BY <1>5, <3>1, <4>1
    <3>2. CASE i \notin 1 .. len
      <4>1. i > len /\ (i = len + 1 \/ i = len + 2)
        BY <1>1, <3>2
      <4> QED
        BY <1>4, <4>1
    <3> QED
      BY <3>1, <3>2
  <2> QED
    BY <1>4, <2>1 DEF Reads
<1>7. f[1] \in Seq(Marks)
  BY <1>1, <1>4
<1> QED
  BY <1>6, <1>7

\* t is what s ends with, after d characters, and is read alike.
EndsLike(s, out, t, sub, d) ==
    /\ Len(t) \in Nat /\ Len(s) = Len(t) + d
    /\ \A i \in 1 .. Len(t) : sub[i] = out[i + d] /\ (i \in Pairs(t) <=> i + d \in Pairs(s))

\* and readings of sequences of which one ends like the other agree.
LEMMA ReadingsAgree ==
    ASSUME NEW s, NEW t, NEW f, NEW g, NEW out, NEW sub, NEW d \in Nat,
           Reads(f, s, out), Reads(g, t, sub), EndsLike(s, out, t, sub, d)
    PROVE  \A i \in 1 .. Len(t) + 2 : f[i + d] = g[i]
<1> DEFINE len == Len(t)
           S == {m \in Nat : \A i \in 1 .. len + 2 : len + 2 - i <= m => f[i + d] = g[i]}
<1>0. len \in Nat /\ Len(s) = len + d
  BY DEF EndsLike
<1> HIDE DEF len
<1>1. \A i \in 1 .. len + 2 : i > len => f[i + d] = <<>> /\ g[i] = <<>>
  <2> TAKE i \in 1 .. len + 2
  <2> HAVE i > len
  <2>1. i + d \in 1 .. Len(s) + 2 /\ i + d > Len(s)
    BY <1>0
  <2>2. f[i + d] = <<>>
    BY <2>1 DEF Reads
  <2>3. g[i] = <<>>
    BY DEF Reads, len
  <2> QED
    BY <2>2, <2>3
<1>2. \A i \in 1 .. len :
         /\ f[i + d] = out[i + d] \o (IF i + d \in Pairs(s) THEN f[(i + d) + 2] ELSE f[(i + d) + 1])
         /\ g[i] = sub[i] \o (IF i \in Pairs(t) THEN g[i + 2] ELSE g[i + 1])
  <2> TAKE i \in 1 .. len
  <2>1. i + d \in 1 .. Len(s) + 2 /\ ~(i + d > Len(s)) /\ i \in 1 .. len + 2 /\ ~(i > len)
    BY <1>0
  <2>2. f[i + d] = out[i + d] \o (IF i + d \in Pairs(s) THEN f[(i + d) + 2] ELSE f[(i + d) + 1])
    BY <2>1 DEF Reads
  <2>3. g[i] = sub[i] \o (IF i \in Pairs(t) THEN g[i + 2] ELSE g[i + 1])
    BY <2>1 DEF Reads, len
  <2> QED
    BY <2>2, <2>3
<1>3. 0 \in S
  <2> SUFFICES ASSUME NEW i \in 1 .. len + 2, len + 2 - i <= 0 PROVE f[i + d] = g[i]
    OBVIOUS
  <2>1. i > len
    BY <1>0
  <2> QED
    BY <1>1, <2>1
<1>4. ASSUME NEW m \in Nat, m \in S PROVE m + 1 \in S
  <2> SUFFICES ASSUME NEW i \in 1 .. len + 2, len + 2 - i <= m + 1 PROVE f[i + d] = g[i]
    OBVIOUS
  <2>1. CASE i > len
    BY <1>1, <2>1
  <2>2. CASE ~(i > len)
    <3>1. /\ i \in 1 .. len /\ i + 1 \in 1 .. len + 2 /\ i + 2 \in 1 .. len + 2
          /\ len + 2 - (i + 1) <= m /\ len + 2 - (i + 2) <= m
      BY <1>0, <2>2
    <3>2. f[(i + 1) + d] = g[i + 1] /\ f[(i + 2) + d] = g[i + 2]
      BY <1>4, <3>1
    <3>3. (i + 1) + d = (i + d) + 1 /\ (i + 2) + d = (i + d) + 2
      BY <1>0
    <3>4. sub[i] = out[i + d] /\ (i \in Pairs(t) <=> i + d \in Pairs(s))
      BY <3>1 DEF len, EndsLike
    <3>5. f[i + d] = out[i + d] \o (IF i + d \in Pairs(s) THEN f[(i + d) + 2] ELSE f[(i + d) + 1])
      BY <1>2, <3>1
    <3>6. g[i] = sub[i] \o (IF i \in Pairs(t) THEN g[i + 2] ELSE g[i + 1])
      BY <1>2, <3>1
    <3>7. f[(i + d) + 2] = g[i + 2] /\ f[(i + d) + 1] = g[i + 1]
      BY <3>2, <3>3
    <3> QED
      BY <3>4, <3>5, <3>6, <3>7, Zenon
  <2> QED
    BY <2>1, <2>2
<1> HIDE DEF S
<1>5. \A m \in Nat : m \in S
  BY <1>3, <1>4, SetInduction
<1>6. ASSUME NEW i \in 1 .. len + 2 PROVE f[i + d] = g[i]
  <2>1. len + 2 - i \in Nat
    BY <1>0
  <2>2. len + 2 - i \in S
    BY <1>5, <2>1
  <2> QED
    BY <2>1, <2>2 DEF S
<1> QED
  BY <1>6 DEF len

\* What a character of a display name is written as,
KeyOut(s) ==
    [i \in DOMAIN s |-> IF s[i] = N!Separator THEN <<"_", "_">>
                        ELSE IF s[i] = "%" THEN <<N!Percent>>
                        ELSE IF i \in Pairs(s) THEN <<N!Underscores>>
                        ELSE <<s[i]>>]
\* and what one of a key.
DisplayOut(s) ==
    [i \in DOMAIN s |-> IF i \in Pairs(s) THEN <<N!Separator>>
                        ELSE IF s[i] = N!Percent THEN <<"%">>
                        ELSE IF s[i] = N!Underscores THEN <<"_", "_">>
                        ELSE <<s[i]>>]

\* Both are sequences.
LEMMA OutsAre ==
    ASSUME NEW s \in Seq(Marks)
    PROVE  KeyOut(s) \in [DOMAIN s -> Seq(Marks)] /\ DisplayOut(s) \in [DOMAIN s -> Seq(Marks)]
<1>1. \A i \in DOMAIN s : s[i] \in Marks
  OBVIOUS
<1>2. {"_", "%", N!Separator, N!Percent, N!Underscores} \subseteq Marks
  BY DEF Marks, N!Alphabet
<1>3. \A a, b \in Marks : <<a>> \in Seq(Marks) /\ <<a, b>> \in Seq(Marks)
  OBVIOUS
<1>4. \A i \in DOMAIN s : KeyOut(s)[i] \in Seq(Marks)
  BY <1>1, <1>2, <1>3 DEF KeyOut
<1>5. \A i \in DOMAIN s : DisplayOut(s)[i] \in Seq(Marks)
  BY <1>1, <1>2, <1>3 DEF DisplayOut
<1> QED
  BY <1>4, <1>5 DEF KeyOut, DisplayOut

\* The key of a name is such a reading.
LEMMA KeyReads ==
    ASSUME NEW s \in Seq(Marks)
    PROVE  /\ \E f : Reads(f, s, KeyOut(s)) /\ f[1] = N!KeyFromDisplay(s)
           /\ N!KeyFromDisplay(s) \in Seq(Marks)
<1> DEFINE key[i \in 1 .. Len(s) + 2] ==
            IF i > Len(s) THEN <<>>
            ELSE IF s[i] = N!Separator THEN <<"_", "_">> \o key[i + 1]
            ELSE IF s[i] = "%" THEN <<N!Percent>> \o key[i + 1]
            ELSE IF s[i] = "_" /\ i < Len(s) /\ s[i + 1] = "_" THEN <<N!Underscores>> \o key[i + 2]
            ELSE <<s[i]>> \o key[i + 1]
<1>1. N!KeyFromDisplay(s) = key[1]
  BY DEF N!KeyFromDisplay
<1>2. PICK f : Reads(f, s, KeyOut(s)) /\ f[1] \in Seq(Marks)
  BY OutsAre, ReadingExists
<1>3. Len(s) \in Nat /\ DOMAIN s = 1 .. Len(s)
  OBVIOUS
<1> DEFINE D == 1 .. Len(s) + 2
           Read(h, i) == IF i > Len(s) THEN <<>>
                         ELSE KeyOut(s)[i] \o (IF i \in Pairs(s) THEN h[i + 2] ELSE h[i + 1])
           Escaped(h, i) ==
               IF i > Len(s) THEN <<>>
               ELSE IF s[i] = N!Separator THEN <<"_", "_">> \o h[i + 1]
               ELSE IF s[i] = "%" THEN <<N!Percent>> \o h[i + 1]
               ELSE IF s[i] = "_" /\ i < Len(s) /\ s[i + 1] = "_" THEN <<N!Underscores>> \o h[i + 2]
               ELSE <<s[i]>> \o h[i + 1]
<1>5. \A h : \A i \in D : Read(h, i) = Escaped(h, i)
  <2> TAKE h
  <2> TAKE i \in D
  <2>1. CASE i > Len(s)
    BY <2>1
  <2>2. CASE ~(i > Len(s))
    <3>1. i \in DOMAIN s
      BY <1>3, <2>2
    <3>2. KeyOut(s)[i] = IF s[i] = N!Separator THEN <<"_", "_">>
                         ELSE IF s[i] = "%" THEN <<N!Percent>>
                         ELSE IF i \in Pairs(s) THEN <<N!Underscores>>
                         ELSE <<s[i]>>
      BY <3>1 DEF KeyOut
    <3>3. i \in Pairs(s) <=> s[i] = "_" /\ i < Len(s) /\ s[i + 1] = "_"
      BY <3>1 DEF Pairs
    <3>4. s[i] = "_" => s[i] # N!Separator /\ s[i] # "%"
      BY DEF N!Separator
    <3> QED
      BY <2>2, <3>2, <3>3, <3>4
  <2> QED
    BY <2>1, <2>2
<1>4. \A h : Reads(h, s, KeyOut(s)) <=> h = [i \in D |-> Read(h, i)]
  BY DEF Reads
<1> HIDE DEF Read
<1>6. f = [i \in D |-> Escaped(f, i)]
  <2> HIDE DEF Escaped, D
  <2> QED
    BY <1>2, <1>4, <1>5
<1>7. key = [i \in D |-> Escaped(key, i)]
  BY <1>6, Zenon
<1> HIDE DEF key
<1>8. Reads(key, s, KeyOut(s))
  <2> HIDE DEF Escaped, D
  <2> QED
    BY <1>4, <1>5, <1>7
<1>9. key[1] = f[1]
  <2>1. 0 \in Nat /\ EndsLike(s, KeyOut(s), s, KeyOut(s), 0)
    BY <1>3 DEF EndsLike
  <2>2. \A i \in 1 .. Len(s) + 2 : key[i + 0] = f[i]
    BY <1>2, <1>8, <2>1, ReadingsAgree
  <2>3. 1 \in 1 .. Len(s) + 2 /\ 1 + 0 = 1
    BY <1>3
  <2> QED
    BY <2>2, <2>3
<1> QED
  BY <1>1, <1>2, <1>8, <1>9
\* So is the name a display stands for.
LEMMA DisplayReads ==
    ASSUME NEW s \in Seq(Marks)
    PROVE  /\ \E f : Reads(f, s, DisplayOut(s)) /\ f[1] = N!DisplayFromKey(s)
           /\ N!DisplayFromKey(s) \in Seq(Marks)
<1> DEFINE display[i \in 1 .. Len(s) + 2] ==
            IF i > Len(s) THEN <<>>
            ELSE IF s[i] = "_" /\ i < Len(s) /\ s[i + 1] = "_" THEN <<N!Separator>> \o display[i + 2]
            ELSE IF s[i] = N!Percent THEN <<"%">> \o display[i + 1]
            ELSE IF s[i] = N!Underscores THEN <<"_", "_">> \o display[i + 1]
            ELSE <<s[i]>> \o display[i + 1]
<1>1. N!DisplayFromKey(s) = display[1]
  BY DEF N!DisplayFromKey
<1>2. PICK f : Reads(f, s, DisplayOut(s)) /\ f[1] \in Seq(Marks)
  BY OutsAre, ReadingExists
<1>3. Len(s) \in Nat /\ DOMAIN s = 1 .. Len(s)
  OBVIOUS
<1> DEFINE D == 1 .. Len(s) + 2
           Read(h, i) == IF i > Len(s) THEN <<>>
                         ELSE DisplayOut(s)[i] \o (IF i \in Pairs(s) THEN h[i + 2] ELSE h[i + 1])
           Unescaped(h, i) ==
               IF i > Len(s) THEN <<>>
               ELSE IF s[i] = "_" /\ i < Len(s) /\ s[i + 1] = "_" THEN <<N!Separator>> \o h[i + 2]
               ELSE IF s[i] = N!Percent THEN <<"%">> \o h[i + 1]
               ELSE IF s[i] = N!Underscores THEN <<"_", "_">> \o h[i + 1]
               ELSE <<s[i]>> \o h[i + 1]
<1>5. \A h : \A i \in D : Read(h, i) = Unescaped(h, i)
  <2> TAKE h
  <2> TAKE i \in D
  <2>1. CASE i > Len(s)
    BY <2>1
  <2>2. CASE ~(i > Len(s))
    <3>1. i \in DOMAIN s
      BY <1>3, <2>2
    <3>2. DisplayOut(s)[i] = IF i \in Pairs(s) THEN <<N!Separator>>
                         ELSE IF s[i] = N!Percent THEN <<"%">>
                         ELSE IF s[i] = N!Underscores THEN <<"_", "_">>
                         ELSE <<s[i]>>
      BY <3>1 DEF DisplayOut
    <3>3. i \in Pairs(s) <=> s[i] = "_" /\ i < Len(s) /\ s[i + 1] = "_"
      BY <3>1 DEF Pairs
    <3> QED
      BY <2>2, <3>2, <3>3
  <2> QED
    BY <2>1, <2>2
<1>4. \A h : Reads(h, s, DisplayOut(s)) <=> h = [i \in D |-> Read(h, i)]
  BY DEF Reads
<1> HIDE DEF Read
<1>6. f = [i \in D |-> Unescaped(f, i)]
  <2> HIDE DEF Unescaped, D
  <2> QED
    BY <1>2, <1>4, <1>5
<1>7. display = [i \in D |-> Unescaped(display, i)]
  BY <1>6, Zenon
<1> HIDE DEF display
<1>8. Reads(display, s, DisplayOut(s))
  <2> HIDE DEF Unescaped, D
  <2> QED
    BY <1>4, <1>5, <1>7
<1>9. display[1] = f[1]
  <2>1. 0 \in Nat /\ EndsLike(s, DisplayOut(s), s, DisplayOut(s), 0)
    BY <1>3 DEF EndsLike
  <2>2. \A i \in 1 .. Len(s) + 2 : display[i + 0] = f[i]
    BY <1>2, <1>8, <2>1, ReadingsAgree
  <2>3. 1 \in 1 .. Len(s) + 2 /\ 1 + 0 = 1
    BY <1>3
  <2> QED
    BY <2>2, <2>3
<1> QED
  BY <1>1, <1>2, <1>8, <1>9

\* The tail of a sequence is what it ends with.
LEMMA TailIsLike ==
    ASSUME NEW s \in Seq(Marks), s # <<>>
    PROVE  /\ Tail(s) \in Seq(Marks) /\ Len(s) = Len(Tail(s)) + 1 /\ s[1] \in Marks
           /\ EndsLike(s, KeyOut(s), Tail(s), KeyOut(Tail(s)), 1)
           /\ EndsLike(s, DisplayOut(s), Tail(s), DisplayOut(Tail(s)), 1)
<1> DEFINE t == Tail(s)
<1>1. /\ t \in Seq(Marks) /\ Len(t) \in Nat /\ Len(s) = Len(t) + 1 /\ s[1] \in Marks
      /\ DOMAIN s = 1 .. Len(s) /\ DOMAIN t = 1 .. Len(t)
      /\ \A i \in 1 .. Len(t) : t[i] = s[i + 1]
  OBVIOUS
<1> HIDE DEF t
<1>2. ASSUME NEW i \in 1 .. Len(t)
      PROVE  /\ i \in DOMAIN t /\ i + 1 \in DOMAIN s /\ t[i] = s[i + 1]
             /\ i \in Pairs(t) <=> i + 1 \in Pairs(s)
  <2>1. i \in DOMAIN t /\ i + 1 \in DOMAIN s /\ t[i] = s[i + 1]
    BY <1>1
  <2>2. i < Len(t) <=> i + 1 < Len(s)
    BY <1>1
  <2>3. i < Len(t) => t[i + 1] = s[(i + 1) + 1]
    BY <1>1
  <2> QED
    BY <2>1, <2>2, <2>3 DEF Pairs
<1>3. \A i \in 1 .. Len(t) : KeyOut(t)[i] = KeyOut(s)[i + 1]
  BY <1>2 DEF KeyOut
<1>4. \A i \in 1 .. Len(t) : DisplayOut(t)[i] = DisplayOut(s)[i + 1]
  BY <1>2 DEF DisplayOut
<1>5. EndsLike(s, KeyOut(s), t, KeyOut(t), 1)
  BY <1>1, <1>2, <1>3 DEF EndsLike
<1>6. EndsLike(s, DisplayOut(s), t, DisplayOut(t), 1)
  BY <1>1, <1>2, <1>4 DEF EndsLike
<1> QED
  BY <1>1, <1>5, <1>6 DEF t

\* f reads what g reads, after one more.
GoesOn(f, s, out, g) ==
    /\ f[2] = g[1] /\ f[3] = g[2]
    /\ f[1] = out[1] \o (IF 1 \in Pairs(s) THEN f[3] ELSE f[2])

\* A reading goes on with the reading of the rest.
LEMMA ReadingGoesOn ==
    ASSUME NEW s, NEW t, NEW f, NEW g, NEW out, NEW next,
           Reads(f, s, out), Reads(g, t, next), EndsLike(s, out, t, next, 1)
    PROVE  GoesOn(f, s, out, g)
<1>1. Len(t) \in Nat /\ 1 \in Nat /\ Len(s) = Len(t) + 1
  BY DEF EndsLike
<1>2. \A i \in 1 .. Len(t) + 2 : f[i + 1] = g[i]
  BY <1>1, ReadingsAgree
<1>3. f[2] = g[1] /\ f[3] = g[2]
  <2>1. 1 \in 1 .. Len(t) + 2 /\ 2 \in 1 .. Len(t) + 2 /\ 1 + 1 = 2 /\ 2 + 1 = 3
    BY <1>1
  <2> QED
    BY <1>2, <2>1
<1>4. f[1] = out[1] \o (IF 1 \in Pairs(s) THEN f[3] ELSE f[2])
  <2>1. 1 \in 1 .. Len(s) + 2 /\ ~(1 > Len(s)) /\ 1 + 1 = 2 /\ 1 + 2 = 3
    BY <1>1
  <2> QED
    BY <2>1 DEF Reads
<1> QED
  BY <1>3, <1>4 DEF GoesOn

\* What has a length is not empty.
LEMMA NotEmpty == \A q : Len(q) # 0 => q # <<>>
<1>1. Len(<<>>) = 0
  OBVIOUS
<1> QED
  BY <1>1, Zenon

\* A key begins with what its name begins with.
LEMMA KeyUnfolds ==
    ASSUME NEW s \in Seq(Marks), s # <<>>
    PROVE  N!KeyFromDisplay(s) = KeyOut(s)[1] \o (IF 1 \in Pairs(s) THEN N!KeyFromDisplay(Tail(Tail(s)))
                                              ELSE N!KeyFromDisplay(Tail(s)))
<1>1. Len(s) \in Nat \ {0}
  OBVIOUS
<1>2. Tail(s) \in Seq(Marks) /\ EndsLike(s, KeyOut(s), Tail(s), KeyOut(Tail(s)), 1)
  BY TailIsLike
<1>3. PICK f : Reads(f, s, KeyOut(s)) /\ f[1] = N!KeyFromDisplay(s)
  BY KeyReads
<1>4. PICK g : Reads(g, Tail(s), KeyOut(Tail(s))) /\ g[1] = N!KeyFromDisplay(Tail(s))
  BY <1>2, KeyReads
<1>7. f[2] = g[1] /\ f[3] = g[2] /\ f[1] = KeyOut(s)[1] \o (IF 1 \in Pairs(s) THEN f[3] ELSE f[2])
  <2>1. GoesOn(f, s, KeyOut(s), g)
    BY <1>2, <1>3, <1>4, ReadingGoesOn
  <2> QED
    BY <2>1 DEF GoesOn
<1>5. CASE 1 \in Pairs(s)
  <2>1. Tail(s) # <<>>
    <3>1. Len(s) > 1
      BY <1>5 DEF Pairs
    <3>2. Len(s) = Len(Tail(s)) + 1
      BY TailIsLike
    <3>3. Len(Tail(s)) # 0
      BY <3>1, <3>2
    <3> QED
      BY <3>3, NotEmpty, Zenon
  <2>2. /\ Tail(Tail(s)) \in Seq(Marks)
        /\ EndsLike(Tail(s), KeyOut(Tail(s)), Tail(Tail(s)), KeyOut(Tail(Tail(s))), 1)
    BY <1>2, <2>1, TailIsLike
  <2>3. PICK h : Reads(h, Tail(Tail(s)), KeyOut(Tail(Tail(s)))) /\ h[1] = N!KeyFromDisplay(Tail(Tail(s)))
    BY <2>2, KeyReads
  <2>4. g[2] = h[1]
    <3>1. GoesOn(g, Tail(s), KeyOut(Tail(s)), h)
      BY <1>4, <2>2, <2>3, ReadingGoesOn
    <3> QED
      BY <3>1 DEF GoesOn
  <2> QED
    BY <1>3, <1>5, <1>7, <2>3, <2>4
<1>6. CASE 1 \notin Pairs(s)
  BY <1>3, <1>4, <1>6, <1>7
<1> QED
  BY <1>5, <1>6

\* And a name with what its key begins with.
LEMMA DisplayUnfolds ==
    ASSUME NEW s \in Seq(Marks), s # <<>>
    PROVE  N!DisplayFromKey(s) = DisplayOut(s)[1] \o (IF 1 \in Pairs(s) THEN N!DisplayFromKey(Tail(Tail(s)))
                                              ELSE N!DisplayFromKey(Tail(s)))
<1>1. Len(s) \in Nat \ {0}
  OBVIOUS
<1>2. Tail(s) \in Seq(Marks) /\ EndsLike(s, DisplayOut(s), Tail(s), DisplayOut(Tail(s)), 1)
  BY TailIsLike
<1>3. PICK f : Reads(f, s, DisplayOut(s)) /\ f[1] = N!DisplayFromKey(s)
  BY DisplayReads
<1>4. PICK g : Reads(g, Tail(s), DisplayOut(Tail(s))) /\ g[1] = N!DisplayFromKey(Tail(s))
  BY <1>2, DisplayReads
<1>7. f[2] = g[1] /\ f[3] = g[2] /\ f[1] = DisplayOut(s)[1] \o (IF 1 \in Pairs(s) THEN f[3] ELSE f[2])
  <2>1. GoesOn(f, s, DisplayOut(s), g)
    BY <1>2, <1>3, <1>4, ReadingGoesOn
  <2> QED
    BY <2>1 DEF GoesOn
<1>5. CASE 1 \in Pairs(s)
  <2>1. Tail(s) # <<>>
    <3>1. Len(s) > 1
      BY <1>5 DEF Pairs
    <3>2. Len(s) = Len(Tail(s)) + 1
      BY TailIsLike
    <3>3. Len(Tail(s)) # 0
      BY <3>1, <3>2
    <3> QED
      BY <3>3, NotEmpty, Zenon
  <2>2. /\ Tail(Tail(s)) \in Seq(Marks)
        /\ EndsLike(Tail(s), DisplayOut(Tail(s)), Tail(Tail(s)), DisplayOut(Tail(Tail(s))), 1)
    BY <1>2, <2>1, TailIsLike
  <2>3. PICK h : Reads(h, Tail(Tail(s)), DisplayOut(Tail(Tail(s)))) /\ h[1] = N!DisplayFromKey(Tail(Tail(s)))
    BY <2>2, DisplayReads
  <2>4. g[2] = h[1]
    <3>1. GoesOn(g, Tail(s), DisplayOut(Tail(s)), h)
      BY <1>4, <2>2, <2>3, ReadingGoesOn
    <3> QED
      BY <3>1 DEF GoesOn
  <2> QED
    BY <1>3, <1>5, <1>7, <2>3, <2>4
<1>6. CASE 1 \notin Pairs(s)
  BY <1>3, <1>4, <1>6, <1>7
<1> QED
  BY <1>5, <1>6

\* Nothing is written as nothing, and read so.
LEMMA NothingIs == N!KeyFromDisplay(<<>>) = <<>> /\ N!DisplayFromKey(<<>>) = <<>>
<1> DEFINE none == <<>>
<1>1. none \in Seq(Marks) /\ Len(none) = 0
  OBVIOUS
<1> HIDE DEF none
<1>2. \A f, out : Reads(f, none, out) => f[1] = <<>>
  BY <1>1 DEF Reads
<1>3. N!KeyFromDisplay(none) = <<>> /\ N!DisplayFromKey(none) = <<>>
  BY <1>1, <1>2, KeyReads, DisplayReads
<1> QED
  BY <1>3 DEF none

\* A sequence that is put before another.
LEMMA PutBefore ==
    ASSUME NEW r \in Seq(Marks), NEW a \in Marks, NEW b \in Marks
    PROVE  /\ <<a>> \o r \in Seq(Marks) /\ <<a>> \o r # <<>> /\ Len(<<a>> \o r) = Len(r) + 1
           /\ (<<a>> \o r)[1] = a /\ Tail(<<a>> \o r) = r
           /\ r # <<>> => (<<a>> \o r)[2] = r[1]
           /\ <<a, b>> \o r \in Seq(Marks) /\ <<a, b>> \o r # <<>> /\ Len(<<a, b>> \o r) = Len(r) + 2
           /\ (<<a, b>> \o r)[1] = a /\ (<<a, b>> \o r)[2] = b /\ Tail(Tail(<<a, b>> \o r)) = r
<1>1. /\ <<a>> \o r \in Seq(Marks) /\ <<a>> \o r # <<>> /\ Len(<<a>> \o r) = Len(r) + 1
      /\ (<<a>> \o r)[1] = a
  OBVIOUS
<1>2. r # <<>> => (<<a>> \o r)[2] = r[1]
  OBVIOUS
<1>3. Tail(<<a>> \o r) = r
  <2> DEFINE q == <<a>> \o r
  <2>1. \A i \in 1 .. Len(r) : q[i + 1] = r[i]
    OBVIOUS
  <2>2. q \in Seq(Marks) /\ Len(q) = Len(r) + 1
    OBVIOUS
  <2> HIDE DEF q
  <2>3. Tail(q) \in Seq(Marks) /\ Len(Tail(q)) = Len(r) /\ \A i \in 1 .. Len(r) : Tail(q)[i] = r[i]
    BY <2>1, <2>2
  <2> QED
    BY <2>3, SeqEqual DEF q
<1>4. /\ <<a, b>> \o r \in Seq(Marks) /\ <<a, b>> \o r # <<>> /\ Len(<<a, b>> \o r) = Len(r) + 2
      /\ (<<a, b>> \o r)[1] = a /\ (<<a, b>> \o r)[2] = b
  OBVIOUS
<1>5. Tail(Tail(<<a, b>> \o r)) = r
  <2> DEFINE q == <<a, b>> \o r
  <2>1. \A i \in 1 .. Len(r) : q[i + 2] = r[i]
    OBVIOUS
  <2>2. q \in Seq(Marks) /\ Len(q) = Len(r) + 2
    OBVIOUS
  <2> HIDE DEF q
  <2>3. Tail(q) \in Seq(Marks) /\ Len(Tail(q)) = Len(r) + 1 /\ \A i \in 1 .. Len(r) + 1 : Tail(q)[i] = q[i + 1]
    BY <2>2
  <2>4. /\ Tail(Tail(q)) \in Seq(Marks) /\ Len(Tail(Tail(q))) = Len(r)
        /\ \A i \in 1 .. Len(r) : Tail(Tail(q))[i] = Tail(q)[i + 1]
    BY <2>3
  <2>5. \A i \in 1 .. Len(r) : Tail(Tail(q))[i] = r[i]
    BY <2>1, <2>3, <2>4
  <2> QED
    BY <2>4, <2>5, SeqEqual DEF q
<1> QED
  BY <1>1, <1>2, <1>3, <1>4, <1>5

\* A sequence is its first element, or two, and the rest.
LEMMA FirstAndRest ==
    ASSUME NEW s \in Seq(Marks), s # <<>>
    PROVE  /\ s = <<s[1]>> \o Tail(s)
           /\ Len(s) > 1 => s = <<s[1], s[2]>> \o Tail(Tail(s)) /\ Tail(Tail(s)) \in Seq(Marks)
                            /\ Len(Tail(Tail(s))) = Len(s) - 2 /\ s[2] = Tail(s)[1] /\ Tail(s) # <<>>
<1>1. Tail(s) \in Seq(Marks) /\ Len(Tail(s)) = Len(s) - 1 /\ s[1] \in Marks /\ Len(s) \in Nat
      /\ \A i \in 1 .. Len(s) - 1 : Tail(s)[i] = s[i + 1]
  OBVIOUS
<1>2. s = <<s[1]>> \o Tail(s)
  <2> DEFINE q == <<s[1]>> \o Tail(s)
  <2>1. q \in Seq(Marks) /\ Len(q) = Len(s) /\ \A i \in 1 .. Len(s) : q[i] = IF i = 1 THEN s[1] ELSE Tail(s)[i - 1]
    BY <1>1
  <2> HIDE DEF q
  <2>2. \A i \in 1 .. Len(s) : q[i] = s[i]
    BY <1>1, <2>1
  <2> QED
    BY <2>1, <2>2, SeqEqual DEF q
<1>3. ASSUME Len(s) > 1
      PROVE  s = <<s[1], s[2]>> \o Tail(Tail(s)) /\ Tail(Tail(s)) \in Seq(Marks)
             /\ Len(Tail(Tail(s))) = Len(s) - 2 /\ s[2] = Tail(s)[1] /\ Tail(s) # <<>>
  <2> DEFINE u == Tail(Tail(s))
             q == <<s[1], s[2]>> \o u
  <2>0. Tail(s) # <<>> /\ s[2] = Tail(s)[1] /\ s[2] \in Marks
    <3>1. Tail(s) # <<>>
      <4>1. Len(Tail(s)) # 0
        BY <1>1, <1>3
      <4> QED
        BY <4>1, NotEmpty, Zenon
    <3>2. s[2] = Tail(s)[1]
      <4>1. 1 \in 1 .. Len(s) - 1 /\ 1 + 1 = 2
        BY <1>1, <1>3
      <4> QED
        BY <1>1, <4>1
    <3>3. s[2] \in Marks
      <4>1. 2 \in DOMAIN s
        BY <1>1, <1>3
      <4> QED
        BY <4>1
    <3> QED
      BY <3>1, <3>2, <3>3
  <2>1. u \in Seq(Marks) /\ Len(u) = Len(s) - 2 /\ \A i \in 1 .. Len(s) - 2 : u[i] = Tail(s)[i + 1]
    BY <1>1, <1>3
  <2>2. \A i \in 1 .. Len(s) - 2 : u[i] = s[i + 2]
    BY <1>1, <2>1
  <2> HIDE DEF u
  <2>3. q \in Seq(Marks) /\ Len(q) = Len(s)
        /\ \A i \in 1 .. Len(s) : q[i] = IF i = 1 THEN s[1] ELSE IF i = 2 THEN s[2] ELSE u[i - 2]
    <3>1. <<s[1], s[2]>> \in Seq(Marks) /\ Len(<<s[1], s[2]>>) = 2
      BY <1>1, <2>0
    <3>2. q \in Seq(Marks) /\ Len(q) = Len(s)
      <4>1. Len(s) \in Nat
        BY <1>1
      <4>2. q \in Seq(Marks) /\ Len(q) = 2 + Len(u)
        BY <2>1, <3>1
      <4> QED
        BY <1>3, <2>1, <4>1, <4>2
    <3>3. \A i \in 1 .. 2 : q[i] = <<s[1], s[2]>>[i]
      BY <2>1, <3>1
    <3>4. ASSUME NEW i \in 1 .. Len(s), i # 1, i # 2 PROVE q[i] = u[i - 2]
      <4>1. i - 2 \in 1 .. Len(u)
        BY <1>1, <2>1, <3>4
      <4> QED
        BY <2>1, <3>1, <3>4, <4>1
    <3> QED
      BY <3>2, <3>3, <3>4
  <2> HIDE DEF q
  <2>4. \A i \in 1 .. Len(s) : q[i] = s[i]
    BY <1>1, <2>2, <2>3
  <2>5. q = s
    BY <2>3, <2>4, SeqEqual
  <2> QED
    BY <2>0, <2>1, <2>5 DEF u, q
<1> QED
  BY <1>2, <1>3

\* A display name is of characters, of which none is an escape.
LEMMA NoneIsEscape ==
    /\ \A c \in N!Alphabet : c \in Marks /\ c # N!Percent /\ c # N!Underscores
    /\ "_" # "%" /\ "_" # N!Separator /\ "_" # N!Percent /\ "_" # N!Underscores /\ "%" # N!Separator
    /\ N!Percent # N!Underscores
    /\ {"_", "%", N!Separator, N!Percent, N!Underscores} \subseteq Marks
  BY LettersAssumption DEF N!Alphabet, Marks, N!Separator, N!Percent, N!Underscores

\* A name is a sequence of the characters that are written.
LEMMA NamesAre ==
    ASSUME NEW s \in Seq(N!Alphabet)
    PROVE  /\ s \in Seq(Marks)
           /\ s # <<>> => 1 \in DOMAIN s /\ s[1] \in N!Alphabet /\ Tail(s) \in Seq(N!Alphabet)
<1>1. Len(s) \in Nat /\ DOMAIN s = 1 .. Len(s) /\ s \in [1 .. Len(s) -> N!Alphabet]
  OBVIOUS
<1>2. s \in [1 .. Len(s) -> Marks]
  BY <1>1, NoneIsEscape
<1>3. s \in Seq(Marks)
  BY NoneIsEscape, SeqMonotonic
<1>4. ASSUME s # <<>> PROVE 1 \in DOMAIN s /\ s[1] \in N!Alphabet /\ Tail(s) \in Seq(N!Alphabet)
  BY <1>4
<1> QED
  BY <1>3, <1>4

\* What the first character of a name is written as, and what the key goes on with.
LEMMA KeyOf ==
    ASSUME NEW s \in Seq(N!Alphabet), s # <<>>
    PROVE  LET E(q) == N!KeyFromDisplay(q)
           IN /\ s[1] = N!Separator => E(s) = <<"_", "_">> \o E(Tail(s))
              /\ s[1] = "%" => E(s) = <<N!Percent>> \o E(Tail(s))
              /\ 1 \in Pairs(s) => E(s) = <<N!Underscores>> \o E(Tail(Tail(s)))
              /\ s[1] # N!Separator /\ s[1] # "%" /\ 1 \notin Pairs(s) => E(s) = <<s[1]>> \o E(Tail(s))
<1>1. s \in Seq(Marks) /\ 1 \in DOMAIN s
  BY NamesAre
<1>2. N!KeyFromDisplay(s) = KeyOut(s)[1] \o (IF 1 \in Pairs(s) THEN N!KeyFromDisplay(Tail(Tail(s)))
                                              ELSE N!KeyFromDisplay(Tail(s)))
  BY <1>1, KeyUnfolds
<1>3. KeyOut(s)[1] = IF s[1] = N!Separator THEN <<"_", "_">>
                     ELSE IF s[1] = "%" THEN <<N!Percent>>
                     ELSE IF 1 \in Pairs(s) THEN <<N!Underscores>>
                     ELSE <<s[1]>>
  BY <1>1 DEF KeyOut
<1>4. 1 \in Pairs(s) => s[1] = "_"
  BY DEF Pairs
<1> QED
  BY <1>2, <1>3, <1>4, NoneIsEscape

\* A key begins with an underscore when its name does, or with a separator.
LEMMA KeyStarts ==
    ASSUME NEW s \in Seq(N!Alphabet), N!KeyFromDisplay(s) # <<>>, N!KeyFromDisplay(s)[1] = "_"
    PROVE  s # <<>> /\ (s[1] = "_" \/ s[1] = N!Separator)
<1>1. s # <<>>
  BY NothingIs
<1>2. Tail(s) \in Seq(Marks) /\ s[1] \in Marks /\ s[1] \in N!Alphabet
  <2>1. Tail(s) \in Seq(N!Alphabet) /\ s[1] \in N!Alphabet
    BY <1>1, NamesAre
  <2> QED
    BY <2>1, NamesAre, NoneIsEscape
<1>3. CASE s[1] = "_" \/ s[1] = N!Separator
  BY <1>1, <1>3
<1>4. CASE s[1] # "_" /\ s[1] # N!Separator
  <2>1. 1 \notin Pairs(s)
    BY <1>4 DEF Pairs
  <2>2. PICK c \in Marks : c # "_" /\ N!KeyFromDisplay(s) = <<c>> \o N!KeyFromDisplay(Tail(s))
    BY <1>1, <1>2, <1>4, <2>1, KeyOf, NoneIsEscape
  <2>3. N!KeyFromDisplay(Tail(s)) \in Seq(Marks)
    BY <1>2, KeyReads
  <2>4. (<<c>> \o N!KeyFromDisplay(Tail(s)))[1] = c
    BY <2>3, PutBefore
  <2> QED
    BY <2>2, <2>4
<1> QED
  BY <1>3, <1>4

\* The rest of a name that is not ambiguous is not.
LEMMA RestIsPlain ==
    ASSUME NEW s \in Seq(N!Alphabet), s # <<>>, ~N!Ambiguous(s)
    PROVE  Tail(s) \in Seq(N!Alphabet) /\ Len(Tail(s)) = Len(s) - 1 /\ ~N!Ambiguous(Tail(s))
<1>1. Tail(s) \in Seq(N!Alphabet) /\ Len(Tail(s)) = Len(s) - 1 /\ Len(s) \in Nat
      /\ \A i \in 1 .. Len(s) - 1 : Tail(s)[i] = s[i + 1]
  OBVIOUS
<1>2. ASSUME NEW i \in 1 .. Len(Tail(s)) - 1, Tail(s)[i] = "_", Tail(s)[i + 1] = N!Separator PROVE FALSE
  <2>1. i + 1 \in 1 .. Len(s) - 1 /\ Tail(s)[i] = s[i + 1] /\ Tail(s)[i + 1] = s[(i + 1) + 1]
    BY <1>1
  <2> QED
    BY <1>2, <2>1 DEF N!Ambiguous
<1> QED
  BY <1>1, <1>2 DEF N!Ambiguous

\* A sequence begins with an underscore.
Underscore == "_"
\* The name begins with an underscore.
Begins(q) == q # <<>> /\ q[1] = Underscore

\* What a key that begins with a separator stands for,
LEMMA DisplayOfPair ==
    ASSUME NEW r \in Seq(Marks)
    PROVE  N!DisplayFromKey(<<"_", "_">> \o r) = <<N!Separator>> \o N!DisplayFromKey(r)
<1> DEFINE u == Underscore
           k == <<u, u>> \o r
<1>1. u \in Marks
  BY NoneIsEscape DEF Underscore
<1> HIDE DEF u
<1>2. k \in Seq(Marks) /\ k # <<>> /\ Len(k) = Len(r) + 2 /\ k[1] = u /\ k[2] = u /\ Tail(Tail(k)) = r
  BY <1>1, PutBefore
<1>3. Len(r) \in Nat
  OBVIOUS
<1> HIDE DEF k
<1>4. 1 \in DOMAIN k /\ 1 < Len(k) /\ 1 + 1 = 2
  <2>1. k \in Seq(Marks) /\ Len(k) = Len(r) + 2
    BY <1>2
  <2>2. DOMAIN k = 1 .. Len(k)
    BY <2>1
  <2> QED
    BY <1>3, <2>1, <2>2
<1>5. 1 \in Pairs(k)
  BY <1>2, <1>4 DEF Pairs, u, Underscore
<1>6. DisplayOut(k)[1] = <<N!Separator>>
  BY <1>4, <1>5 DEF DisplayOut
<1>7. N!DisplayFromKey(k) = DisplayOut(k)[1] \o N!DisplayFromKey(r)
  BY <1>2, <1>5, DisplayUnfolds, Zenon
<1> QED
  BY <1>6, <1>7 DEF k, u, Underscore

\* and one that begins with anything else.
LEMMA DisplayOfOne ==
    ASSUME NEW r \in Seq(Marks), NEW c \in Marks, c # Underscore \/ ~Begins(r)
    PROVE  N!DisplayFromKey(<<c>> \o r) =
             (IF c = N!Percent THEN <<"%">> ELSE IF c = N!Underscores THEN <<"_", "_">> ELSE <<c>>)
                \o N!DisplayFromKey(r)
<1> DEFINE k == <<c>> \o r
<1>2. k \in Seq(Marks) /\ k # <<>> /\ Len(k) = Len(r) + 1 /\ k[1] = c /\ Tail(k) = r /\ (r # <<>> => k[2] = r[1])
  BY PutBefore, Zenon
<1>3. Len(r) \in Nat /\ (r = <<>> => Len(r) = 0)
  <2>1. Len(<<>>) = 0
    OBVIOUS
  <2>2. Len(r) \in Nat
    OBVIOUS
  <2> QED
    BY <2>1, <2>2
<1> HIDE DEF k
<1>4. 1 \in DOMAIN k /\ 1 + 1 = 2 /\ (1 < Len(k) => r # <<>>)
  <2>1. k \in Seq(Marks) /\ Len(k) = Len(r) + 1
    BY <1>2
  <2>2. DOMAIN k = 1 .. Len(k)
    BY <2>1
  <2> QED
    BY <1>3, <2>1, <2>2
<1>5. 1 \notin Pairs(k)
  BY <1>2, <1>4 DEF Pairs, Begins, Underscore
<1>6. DisplayOut(k)[1] = IF c = N!Percent THEN <<"%">> ELSE IF c = N!Underscores THEN <<"_", "_">> ELSE <<c>>
  BY <1>2, <1>4, <1>5 DEF DisplayOut
<1>7. N!DisplayFromKey(k) = DisplayOut(k)[1] \o N!DisplayFromKey(r)
  BY <1>2, <1>5, DisplayUnfolds, Zenon
<1> QED
  BY <1>6, <1>7 DEF k

\* The key of a name that is not ambiguous is read as the name, when that is so of what
\* the name goes on with.
LEMMA OneMoreComesBack ==
    ASSUME NEW s \in Seq(N!Alphabet), s # <<>>, ~N!Ambiguous(s),
           NEW t, t = IF 1 \in Pairs(s) THEN Tail(Tail(s)) ELSE Tail(s),
           N!DisplayFromKey(N!KeyFromDisplay(t)) = t
    PROVE  N!DisplayFromKey(N!KeyFromDisplay(s)) = s
<1> DEFINE r == N!KeyFromDisplay(t)
<1>1. s \in Seq(Marks) /\ s[1] \in N!Alphabet /\ s[1] \in Marks /\ Tail(s) \in Seq(N!Alphabet) /\ Tail(s) \in Seq(Marks)
  <2>1. s \in Seq(Marks) /\ s[1] \in N!Alphabet /\ Tail(s) \in Seq(N!Alphabet)
    BY NamesAre
  <2>2. Tail(s) \in Seq(Marks)
    BY <2>1, NamesAre
  <2> QED
    BY <2>1, <2>2, NoneIsEscape
<1>2. /\ s = <<s[1]>> \o Tail(s)
      /\ Len(s) > 1 => s = <<s[1], s[2]>> \o Tail(Tail(s)) /\ Tail(Tail(s)) \in Seq(Marks)
                       /\ s[2] = Tail(s)[1] /\ Tail(s) # <<>>
  BY <1>1, FirstAndRest, Zenon
<1>3. 1 \in Pairs(s) => Len(s) > 1 /\ s[1] = "_" /\ s[2] = "_"
  <2>1. 1 + 1 = 2 /\ Len(s) \in Nat
    OBVIOUS
  <2> QED
    BY <2>1 DEF Pairs
<1>4. t \in Seq(Marks)
  BY <1>1, <1>2, <1>3
<1>5. r \in Seq(Marks)
  BY <1>4, KeyReads
<1>6. N!DisplayFromKey(r) = t
  OBVIOUS
<1> HIDE DEF r
<1>7. CASE s[1] = N!Separator
  <2>1. 1 \notin Pairs(s) /\ t = Tail(s)
    BY <1>3, <1>7, NoneIsEscape
  <2>2. N!KeyFromDisplay(s) = <<"_", "_">> \o r
    BY <1>7, <2>1, KeyOf DEF r
  <2> QED
    BY <1>2, <1>5, <1>6, <1>7, <2>1, <2>2, DisplayOfPair
<1>8. CASE s[1] = "%"
  <2>1. 1 \notin Pairs(s) /\ t = Tail(s)
    BY <1>3, <1>8, NoneIsEscape
  <2>2. N!KeyFromDisplay(s) = <<N!Percent>> \o r
    BY <1>8, <2>1, KeyOf DEF r
  <2>3. N!DisplayFromKey(<<N!Percent>> \o r) = <<"%">> \o N!DisplayFromKey(r)
    BY <1>5, DisplayOfOne, NoneIsEscape DEF Underscore
  <2> QED
    BY <1>2, <1>6, <1>8, <2>1, <2>2, <2>3
<1>9. CASE 1 \in Pairs(s)
  <2>1. t = Tail(Tail(s))
    BY <1>9
  <2>2. N!KeyFromDisplay(s) = <<N!Underscores>> \o r
    BY <1>9, <2>1, KeyOf DEF r
  <2>3. N!DisplayFromKey(<<N!Underscores>> \o r) = <<"_", "_">> \o N!DisplayFromKey(r)
    BY <1>5, DisplayOfOne, NoneIsEscape DEF Underscore
  <2>4. s = <<"_", "_">> \o t
    BY <1>2, <1>3, <1>9, <2>1
  <2> QED
    BY <1>6, <2>2, <2>3, <2>4
<1>10. CASE s[1] # N!Separator /\ s[1] # "%" /\ 1 \notin Pairs(s)
  <2>1. t = Tail(s)
    BY <1>10
  <2>2. N!KeyFromDisplay(s) = <<s[1]>> \o r
    BY <1>10, <2>1, KeyOf DEF r
  <2>3. s[1] # Underscore \/ ~Begins(r)
    <3> DEFINE u == s[1]
    <3> SUFFICES ASSUME u = Underscore, Begins(r) PROVE FALSE
      OBVIOUS
    <3> HIDE DEF u
    <3>1. Tail(s) # <<>> /\ (Tail(s)[1] = "_" \/ Tail(s)[1] = N!Separator)
      BY <1>1, <2>1, KeyStarts DEF r, Begins, Underscore
    <3>0. s \in Seq(Marks) /\ Tail(s) \in Seq(Marks) /\ Tail(s) # <<>>
      BY <1>1, <3>1
    <3>2. Len(s) > 1 /\ Len(s) \in Nat /\ 1 \in DOMAIN s /\ 1 \in 1 .. Len(s) - 1 /\ 1 + 1 = 2
      <4>1. Len(s) = Len(Tail(s)) + 1 /\ Len(Tail(s)) \in Nat
        BY <3>0, TailIsLike
      <4>2. Len(Tail(s)) # 0
        BY <3>0, EmptySeq
      <4>3. DOMAIN s = 1 .. Len(s)
        BY <3>0
      <4> QED
        BY <4>1, <4>2, <4>3
    <3>3. s[2] = "_" \/ s[2] = N!Separator
      BY <1>2, <3>1, <3>2
    <3>4. CASE s[2] = "_"
      BY <1>10, <3>2, <3>4 DEF Pairs, u, Underscore
    <3>5. CASE s[2] = N!Separator
      BY <3>2, <3>5 DEF N!Ambiguous, u, Underscore
    <3> QED
      BY <3>3, <3>4, <3>5
  <2>4. N!DisplayFromKey(<<s[1]>> \o r) = <<s[1]>> \o N!DisplayFromKey(r)
    BY <1>1, <1>5, <2>3, DisplayOfOne, NoneIsEscape
  <2> QED
    BY <1>2, <1>6, <2>1, <2>2, <2>4
<1> QED
  BY <1>7, <1>8, <1>9, <1>10

\* The key of a name that is not ambiguous gives the name back.
LEMMA KeyComesBack ==
    ASSUME NEW s \in Seq(N!Alphabet), ~N!Ambiguous(s)
    PROVE  N!DisplayFromKey(N!KeyFromDisplay(s)) = s
<1> DEFINE Back(q) == ~N!Ambiguous(q) => N!DisplayFromKey(N!KeyFromDisplay(q)) = q
           S == {m \in Nat : \A q \in Seq(N!Alphabet) : Len(q) <= m => Back(q)}
<1>1. 0 \in S
  <2> SUFFICES ASSUME NEW q \in Seq(N!Alphabet), Len(q) <= 0 PROVE Back(q)
    OBVIOUS
  <2>1. q = <<>>
    OBVIOUS
  <2> QED
    BY <2>1, NothingIs
<1>2. ASSUME NEW m \in Nat, m \in S PROVE m + 1 \in S
  <2> SUFFICES ASSUME NEW q \in Seq(N!Alphabet), Len(q) <= m + 1, ~N!Ambiguous(q)
               PROVE  N!DisplayFromKey(N!KeyFromDisplay(q)) = q
    OBVIOUS
  <2>1. CASE q = <<>>
    BY <2>1, NothingIs
  <2>2. CASE q # <<>>
    <3> DEFINE t == IF 1 \in Pairs(q) THEN Tail(Tail(q)) ELSE Tail(q)
    <3>1. Tail(q) \in Seq(N!Alphabet) /\ Len(Tail(q)) = Len(q) - 1 /\ ~N!Ambiguous(Tail(q)) /\ Len(q) \in Nat
      BY <2>2, RestIsPlain
    <3>2. ASSUME 1 \in Pairs(q)
          PROVE  Tail(Tail(q)) \in Seq(N!Alphabet) /\ Len(Tail(Tail(q))) = Len(q) - 2 /\ ~N!Ambiguous(Tail(Tail(q)))
      <4>1. Len(Tail(q)) # 0
        <5> HIDE DEF S
        <5>1. 1 < Len(q)
          BY <3>2 DEF Pairs
        <5>2. Len(Tail(q)) = Len(q) - 1 /\ Len(q) \in Nat
          BY <3>1
        <5>3. \A a \in Nat : \A b : b = a - 1 /\ 1 < a => b # 0
          OBVIOUS
        <5> QED
          BY <5>1, <5>2, <5>3, Zenon
      <4>2. Tail(q) # <<>>
        BY <4>1, NotEmpty, Zenon
      <4>3. /\ Tail(Tail(q)) \in Seq(N!Alphabet) /\ Len(Tail(Tail(q))) = Len(Tail(q)) - 1
            /\ ~N!Ambiguous(Tail(Tail(q)))
        BY <3>1, <4>2, RestIsPlain
      <4> QED
        BY <3>1, <4>3
    <3>3. t \in Seq(N!Alphabet) /\ Len(t) <= m /\ ~N!Ambiguous(t)
      BY <3>1, <3>2
    <3>4. N!DisplayFromKey(N!KeyFromDisplay(t)) = t
      BY <1>2, <3>3
    <3> QED
      BY <2>2, <3>4, OneMoreComesBack
  <2> QED
    BY <2>1, <2>2
<1> HIDE DEF S
<1>3. \A m \in Nat : m \in S
  BY <1>1, <1>2, SetInduction
<1>4. Len(s) \in Nat /\ Len(s) <= Len(s)
  OBVIOUS
<1> QED
  BY <1>3, <1>4 DEF S

\* The key of a profile gives its parts back.
LEMMA ProfileComesBack ==
    ASSUME NEW k \in Seq(Marks), NEW p \in N!Words(MaxProfile), ~Begins(p), ~N!Doubled(p)
    PROVE  N!ParseProfileKey((k \o <<"_", "_">>) \o p) = [model |-> k, profile |-> p]
<1> DEFINE u == Underscore
           w == (k \o <<u, u>>) \o p
           m == Len(k)
           At == {i \in 1 .. Len(w) - 1 : w[i] = u /\ w[i + 1] = u}
           last == CHOOSE i \in At : \A j \in At : j <= i
<1>0. u \in Marks
  BY NoneIsEscape DEF Underscore
<1>1. p \in Seq(Marks) /\ Len(p) \in Nat \ {0} /\ m \in Nat
  <2>1. PICK l \in 1 .. MaxProfile : p \in [1 .. l -> Letters \cup {"_"}]
    BY DEF N!Words
  <2>2. l \in Nat \ {0}
    <3>1. l \in 1 .. MaxProfile /\ MaxProfile \in Nat
      BY LettersAssumption
    <3> QED
      BY <3>1
  <2>3. p \in [1 .. l -> Marks]
    BY <2>1 DEF Marks, N!Alphabet
  <2>4. p \in Seq(Marks) /\ Len(p) = l
    BY <2>2, <2>3
  <2> QED
    BY <2>2, <2>4
<1> HIDE DEF u
<1>2. w \in Seq(Marks) /\ Len(w) = m + 2 + Len(p)
  <2>1. <<u, u>> \in Seq(Marks) /\ Len(<<u, u>>) = 2
    BY <1>0
  <2>2. k \o <<u, u>> \in Seq(Marks) /\ Len(k \o <<u, u>>) = m + 2
    BY <2>1
  <2> QED
    BY <1>1, <2>2
<1>3. /\ \A i \in 1 .. m : w[i] = k[i]
      /\ w[m + 1] = u /\ w[m + 2] = u
      /\ \A i \in 1 .. Len(p) : w[i + (m + 2)] = p[i]
  <2> DEFINE v == k \o <<u, u>>
  <2>1. v \in Seq(Marks) /\ Len(v) = m + 2 /\ (\A i \in 1 .. m : v[i] = k[i]) /\ v[m + 1] = u /\ v[m + 2] = u
    BY <1>0
  <2> HIDE DEF v
  <2>2. w = v \o p
    BY DEF v
  <2>3. \A i \in 1 .. m + 2 : w[i] = v[i]
    BY <1>1, <2>1, <2>2
  <2>4. \A i \in 1 .. Len(p) : w[i + (m + 2)] = p[i]
    BY <1>1, <2>1, <2>2
  <2> QED
    BY <1>1, <2>1, <2>3, <2>4
<1> HIDE DEF w
<1>4. m + 1 \in At
  BY <1>1, <1>2, <1>3
<1>5. ASSUME NEW i \in At PROVE i <= m + 1
  <2> SUFFICES ASSUME i > m + 1 PROVE FALSE
    BY <1>1
  <2>1. CASE i = m + 2
    <3>1. w[1 + (m + 2)] = p[1] /\ 1 + (m + 2) = i + 1
      BY <1>1, <1>3, <2>1
    <3>2. w[i + 1] = u
      OBVIOUS
    <3>3. Len(p) # 0
      BY <1>1
    <3>4. p # <<>>
      BY <3>3, NotEmpty, Zenon
    <3> QED
      BY <3>1, <3>2, <3>4 DEF Begins, u, Underscore
  <2>2. CASE i # m + 2
    <3>1. i - (m + 2) \in 1 .. Len(p) - 1 /\ i - (m + 2) \in 1 .. Len(p) /\ i - (m + 2) + 1 \in 1 .. Len(p)
          /\ (i - (m + 2)) + (m + 2) = i /\ (i - (m + 2) + 1) + (m + 2) = i + 1
      BY <1>1, <1>2, <2>2
    <3>2. p[i - (m + 2)] = u /\ p[i - (m + 2) + 1] = u
      BY <1>3, <3>1
    <3> QED
      BY <3>1, <3>2 DEF N!Doubled, u, Underscore
  <2> QED
    BY <2>1, <2>2
<1>6. last = m + 1
  <2>1. last \in At /\ \A j \in At : j <= last
    <3> HIDE DEF At
    <3> QED
      BY <1>4, <1>5
  <2>2. last <= m + 1 /\ m + 1 <= last /\ last \in Int
    <3>1. last \in 1 .. Len(w) - 1 /\ Len(w) \in Nat
      BY <1>1, <1>2, <2>1
    <3>2. last <= m + 1
      BY <1>5, <2>1
    <3>3. m + 1 <= last
      BY <1>4, <2>1
    <3> HIDE DEF last
    <3> QED
      BY <3>1, <3>2, <3>3
  <2> HIDE DEF last
  <2> QED
    BY <1>1, <2>2
<1> HIDE DEF last, At
<1>7. SubSeq(w, 1, last - 1) = k
  <2>1. last - 1 = m
    BY <1>1, <1>6
  <2>2. SubSeq(w, 1, m) \in Seq(Marks) /\ Len(SubSeq(w, 1, m)) = m /\ \A i \in 1 .. m : SubSeq(w, 1, m)[i] = w[i]
    BY <1>1, <1>2
  <2>3. \A i \in 1 .. m : SubSeq(w, 1, m)[i] = k[i]
    BY <1>3, <2>2
  <2> QED
    BY <2>1, <2>2, <2>3, SeqEqual
<1>8. SubSeq(w, last + 2, Len(w)) = p
  <2>1. last + 2 = m + 3
    BY <1>1, <1>6
  <2> DEFINE v == SubSeq(w, m + 3, Len(w))
  <2>2. v \in Seq(Marks) /\ Len(v) = Len(p) /\ \A i \in 1 .. Len(p) : v[i] = w[i + (m + 2)]
    <3>1. \A i \in 1 .. Len(p) : (m + 3) + i - 1 = i + (m + 2)
      BY <1>1
    <3> QED
      BY <1>1, <1>2, <3>1
  <2> HIDE DEF v
  <2>3. \A i \in 1 .. Len(p) : v[i] = p[i]
    BY <1>3, <2>2
  <2>4. v = p
    BY <1>1, <2>2, <2>3, SeqEqual
  <2> QED
    BY <2>1, <2>4 DEF v
<1>9. N!ParseProfileKey(w) = [model |-> SubSeq(w, 1, last - 1), profile |-> SubSeq(w, last + 2, Len(w))]
  BY DEF N!ParseProfileKey, last, At, u, Underscore
<1> QED
  BY <1>7, <1>8, <1>9 DEF w, u, Underscore

\* The name is a sequence of characters,
NamesInv == name \in Seq(N!Alphabet)

\* and so both keys give it back.
LEMMA NamesHold == NamesInv => N!NamesComeBack
<1> SUFFICES ASSUME NamesInv PROVE N!NamesComeBack
  OBVIOUS
<1>1. name \in Seq(N!Alphabet) /\ N!KeyFromDisplay(name) \in Seq(Marks)
  <2>1. name \in Seq(Marks)
    BY NamesAre DEF NamesInv
  <2> QED
    BY <2>1, KeyReads DEF NamesInv
<1>2. ~N!Ambiguous(name) => N!DisplayFromKey(N!KeyFromDisplay(name)) = name
  BY <1>1, KeyComesBack
<1>3. ASSUME NEW p \in N!Words(MaxProfile), p[1] # "_", ~N!Doubled(p)
      PROVE  N!ParseProfileKey(N!ProfileKey(name, p)) = [model |-> N!KeyFromDisplay(name), profile |-> p]
  <2>1. N!ProfileKey(name, p) = (N!KeyFromDisplay(name) \o <<"_", "_">>) \o p
    BY DEF N!ProfileKey
  <2> QED
    BY <1>1, <1>3, <2>1, ProfileComesBack DEF Begins, Underscore
<1> QED
  BY <1>2, <1>3 DEF N!NamesComeBack

\* It is one at first, and typing keeps it.
LEMMA NamesKeep == (N!Init => NamesInv) /\ (NamesInv /\ [N!Next]_nVars => NamesInv')
<1>1. N!Init => NamesInv
  BY DEF N!Init, NamesInv
<1>2. ASSUME NamesInv, N!Type PROVE NamesInv'
  BY <1>2 DEF NamesInv, N!Type
<1> QED
  BY <1>1, <1>2 DEF NamesInv, N!Next, nVars

-----------------------------------------------------------------------------
(* One part runs.                                                          *)

\* A step is one of the part that runs, and leaves the parts that rest alone.
LEMMA StepIsOfItsPart ==
    ASSUME [TerminalNext]_allVars
    PROVE  /\ live' = live
           /\ live = "services" => [V!Next]_vVars
           /\ live = "presets" => [P!Next]_pVars
           /\ live = "names" => [N!Next]_nVars
           /\ live = "screens" => [K!Next]_kVars
           /\ live = "search" => [H!Next]_hVars
           /\ live = "proxy" => [X!Next]_xVars
           /\ live = "arguments" => [A!ArgNext]_aVars
           /\ live = "bench setup" => [B!Next]_bVars
           /\ live = "fields" => [F!FieldNext]_fVars
           /\ live = "lists" => [L!ListNext]_lVars
<1>1. CASE ServicesStep
  BY <1>1 DEF ServicesStep, NotV
<1>2. CASE SettingsStep
  BY <1>2 DEF SettingsStep, NotS
<1>3. CASE PresetsStep
  BY <1>3 DEF PresetsStep, NotP
<1>4. CASE NamesStep
  BY <1>4 DEF NamesStep, NotN
<1>5. CASE ScreensStep
  BY <1>5 DEF ScreensStep, NotK
<1>6. CASE SearchStep
  BY <1>6 DEF SearchStep, NotH
<1>7. CASE SetupStep
  BY <1>7 DEF SetupStep, NotB
<1>8. CASE ProxyStep
  BY <1>8 DEF ProxyStep, NotX
<1>9. CASE WebSearchStep
  BY <1>9 DEF WebSearchStep, NotW
<1>10. CASE ArgumentsStep
  BY <1>10 DEF ArgumentsStep, NotA
<1>11. CASE FieldsStep
  BY <1>11 DEF FieldsStep, NotF
<1>12. CASE ListsStep
  BY <1>12 DEF ListsStep, NotL
<1>13. CASE UNCHANGED allVars
  BY <1>13 DEF allVars
<1> QED
  BY <1>1, <1>2, <1>3, <1>4, <1>5, <1>6, <1>7, <1>8, <1>9, <1>10, <1>11, <1>12, <1>13 DEF TerminalNext

\* What is typed, stepped, toggled, split and deleted in the dialogs, in whichever order
\* and mode, leaves ranges whose tests rise to the end of the range, none of them twice
\* where whole numbers in bounds were typed (ranges without an end are excepted), numbers
\* their rows may have with a selected row that is shown, and indexes that are of entries.
\* (models.rs:2605, settings.rs:311, key.rs:87, rpc_workers.rs:277, tags.rs:98)
THEOREM EditorsStaySound == TerminalSpec => []EditorsAreSound
<1> DEFINE Inv == /\ live = "bench setup" => SetupInv
                  /\ live = "fields" => FieldsInv
                  /\ live = "lists" => ListsInv
<1>1. TerminalInit => Inv
  BY SetupStart, FieldsStart, ListsStart DEF TerminalInit
<1>2. Inv /\ [TerminalNext]_allVars => Inv'
  <2> SUFFICES ASSUME Inv, [TerminalNext]_allVars PROVE Inv'
    OBVIOUS
  <2>1. live' = live
        /\ (live = "bench setup" => [B!Next]_bVars)
        /\ (live = "fields" => [F!FieldNext]_fVars)
        /\ (live = "lists" => [L!ListNext]_lVars)
    BY StepIsOfItsPart
  <2> QED
    BY <2>1, SetupKeeps, FieldsKeep, ListsKeep
<1>3. Inv => EditorsAreSound
  BY SetupSweeps, PanelStaysSound, PlacesAreOfEntries DEF EditorsAreSound
<1> QED
  BY <1>1, <1>2, <1>3, PTL DEF TerminalSpec

\* The key of a model gives its name back, so no two models share a file of overrides,
\* and the key of a profile its model and its name, but for components that end with an
\* underscore and profiles that begin with one or have two together: for every set of
\* letters and names of every length.  (model_config.rs:29, model_settings_store.rs:49)
THEOREM NamesStayApart == TerminalSpec => []NamesComeBack
<1> DEFINE Inv == live = "names" => NamesInv
<1>1. TerminalInit => Inv
  BY NamesHold, NamesKeep DEF TerminalInit
<1>2. Inv /\ [TerminalNext]_allVars => Inv'
  BY StepIsOfItsPart, NamesKeep
<1>3. Inv => NamesComeBack
  BY NamesHold DEF NamesComeBack
<1> QED
  BY <1>1, <1>2, <1>3, PTL DEF TerminalSpec
=============================================================================
