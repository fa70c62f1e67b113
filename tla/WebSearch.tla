-------------------------------- MODULE WebSearch --------------------------------
(***************************************************************************)
(* The settings of the web search.  They are kept four times: in the       *)
(* configuration in memory, in its file, in the record the API proxy reads *)
(* for each question, and in the picker while it is open, where the check  *)
(* of the engine may switch them off.                                      *)
(***************************************************************************)
EXTENDS Naturals

CONSTANTS
    Urls,       \* that are typed; "" is none
    MaxSearchEdits  \* bound: edits, starts and checks

Hosted == "hosted"      \* what choosing the engine searlo writes to the URL

VARIABLES
    conf,       \* App.config.default
    saved,      \* the same in the file
    shared,     \* WebSearchConfig
    started,    \* the proxy was started
    pick,       \* GlobalMode::WebSearchPicker, or closed
    check,      \* web_search_check_handle: a check runs for the picker
    clones,     \* configurations that tasks of a completed load hold
    refuted,    \* history: a check failed under an open picker
    done        \* edits, starts and checks

searchVars == <<conf, saved, shared, started, pick, check, clones, refuted, done>>

SearchSettings == [on : BOOLEAN, url : Urls \cup {"", Hosted}]
Closed == [open |-> FALSE]

SearchTypeOK ==
    /\ {conf, saved, shared} \subseteq SearchSettings /\ {started, check, refuted} \subseteq BOOLEAN
    /\ pick \in {Closed} \cup [open : {TRUE}, on : BOOLEAN, url : Urls \cup {"", Hosted},
                               editing : BOOLEAN]
    /\ clones \subseteq SearchSettings /\ done \in 0 .. MaxSearchEdits

SearchInit ==
    /\ conf \in SearchSettings /\ saved = conf /\ shared = [on |-> FALSE, url |-> ""]
    /\ started = FALSE /\ pick = Closed /\ check = FALSE /\ clones = {} /\ refuted = FALSE
    /\ done = 0

Counted == done < MaxSearchEdits /\ done' = done + 1
Uncounted == UNCHANGED done

Opened(config) == [open |-> TRUE, on |-> config.on, url |-> config.url, editing |-> FALSE]
Resting == pick.open /\ ~pick.editing

-----------------------------------------------------------------------------
(* The picker.                                                              *)

\* From the settings or from the palette: what is there is checked at once.
OpenPicker ==
    /\ ~pick.open /\ pick' = Opened(conf) /\ Uncounted
    /\ check' = (check \/ conf.url # "")
    /\ UNCHANGED <<conf, saved, shared, started, clones, refuted>>

\* Mutant: the proxy is told at its next start only.
ToggleUntold ==
    /\ Resting /\ Counted
    /\ pick' = [pick EXCEPT !.on = ~@]
    /\ conf' = [conf EXCEPT !.on = pick'.on]
    /\ check' = (check \/ (pick'.on /\ pick.url # ""))
    /\ UNCHANGED <<saved, shared, started, clones, refuted>>

Toggle ==
    /\ Resting /\ Counted
    /\ pick' = [pick EXCEPT !.on = ~@]
    /\ conf' = [conf EXCEPT !.on = pick'.on] /\ shared' = conf'
    /\ check' = (check \/ (pick'.on /\ pick.url # ""))
    /\ UNCHANGED <<saved, started, clones, refuted>>

\* Choosing the engine that is there changes nothing, the other may set the URL.
ChooseEngine ==
    /\ Resting /\ Counted
    /\ \E url \in {pick.url, Hosted} :
        /\ pick' = [pick EXCEPT !.url = url]
        /\ conf' = IF url = Hosted THEN [conf EXCEPT !.url = Hosted] ELSE conf
    /\ shared' = conf' /\ saved' = conf'
    /\ UNCHANGED <<started, check, clones, refuted>>

EditUrl ==
    /\ Resting /\ pick' = [pick EXCEPT !.editing = TRUE] /\ Uncounted
    /\ UNCHANGED <<conf, saved, shared, started, check, clones, refuted>>

EscEdit ==
    /\ pick.open /\ pick.editing /\ pick' = [pick EXCEPT !.editing = FALSE] /\ Uncounted
    /\ UNCHANGED <<conf, saved, shared, started, check, clones, refuted>>

\* The proxy is told what the picker holds, not what the configuration does.
CommitUrl ==
    /\ pick.open /\ pick.editing /\ Counted
    /\ \E url \in Urls \cup {""} :
        /\ pick' = [pick EXCEPT !.url = url, !.editing = FALSE]
        /\ conf' = [conf EXCEPT !.url = url]
        /\ shared' = [on |-> pick.on, url |-> url]
    /\ UNCHANGED <<saved, started, check, clones, refuted>>

CheckAgain ==
    /\ Resting /\ pick.on /\ pick.url # "" /\ check' = TRUE /\ Counted
    /\ UNCHANGED <<conf, saved, shared, started, pick, clones, refuted>>

ClosePicker ==
    /\ Resting /\ pick' = Closed /\ Uncounted
    /\ UNCHANGED <<conf, saved, shared, started, check, clones, refuted>>

-----------------------------------------------------------------------------
(* Around it.                                                               *)

\* check_health: the engine was silent, refused, or answered something else.  The
\* picker that is open, if any, takes the result.
CheckFails == pick.open /\ pick' = [pick EXCEPT !.on = FALSE] /\ refuted' = TRUE

\* tick_web_search_check.
CheckEnds ==
    /\ check /\ check' = FALSE /\ Uncounted
    /\ UNCHANGED <<pick, refuted>> \/ CheckFails
    /\ UNCHANGED <<conf, saved, shared, started, clones>>

\* tick_api_endpoint.
ProxyStarts ==
    /\ started' = TRUE /\ shared' = conf /\ Counted
    /\ UNCHANGED <<conf, saved, pick, check, clones, refuted>>

\* tick_loading: a load has completed, and the engine is checked with a copy of the
\* configuration; a check that fails writes the copy, switched off, to the file.
LoadCompletes ==
    /\ conf.on /\ conf.url # "" /\ clones' = clones \cup {conf} /\ Counted
    /\ UNCHANGED <<conf, saved, shared, started, pick, check, refuted>>

LoadCheckEnds ==
    /\ Uncounted
    /\ \E c \in clones :
        /\ clones' = clones \ {c}
        /\ saved' \in {saved, [c EXCEPT !.on = FALSE]}
    /\ UNCHANGED <<conf, shared, started, pick, check, refuted>>

\* Any of the places that save the configuration.
Save ==
    /\ saved' = conf /\ saved # conf /\ Counted
    /\ UNCHANGED <<conf, shared, started, pick, check, clones, refuted>>

\* The program is quit, with a last save, or dies.
SearchRestart ==
    /\ Counted /\ saved' \in {conf, saved} /\ conf' = saved'
    /\ shared' = [on |-> FALSE, url |-> ""] /\ started' = FALSE /\ pick' = Closed
    /\ check' = FALSE /\ clones' = {} /\ refuted' = FALSE

SearchNext ==
    \/ OpenPicker \/ Toggle \/ ChooseEngine \/ EditUrl \/ EscEdit \/ CommitUrl \/ CheckAgain
    \/ ClosePicker \/ CheckEnds \/ ProxyStarts \/ LoadCompletes \/ LoadCheckEnds \/ Save
    \/ SearchRestart

SearchSpec == SearchInit /\ [][SearchNext]_searchVars

-----------------------------------------------------------------------------
(***************************************************************************)
(* Properties.                                                             *)
(***************************************************************************)

\* The proxy that runs answers with the settings that are shown, in the panel and in
\* the picker, as long as no check has failed while the picker was open: then the
\* picker alone was switched off, and hands that to the proxy with the next URL.
ProxyIsTold ==
    ~refuted =>
        /\ started => shared = conf
        /\ pick.open => pick.on = conf.on /\ pick.url = conf.url

\* "The LLM Settings panel shows the current web search status": what it shows is
\* what the proxy does.
PanelShowsStatus == started => shared.on = conf.on
=============================================================================
