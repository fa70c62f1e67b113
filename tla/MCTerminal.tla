------------------------------ MODULE MCTerminal ------------------------------
(***************************************************************************)
(* What the terminal program keeps beside its server, side by side: the    *)
(* services it runs, its settings and presets and the names of their       *)
(* files, and its screens and panels with what stands behind each: who     *)
(* gets a key, the search of the hub, the setup of a sweep, the requests   *)
(* the API proxy passes on, the settings of the web search, the arguments  *)
(* of the servers, the rows of the settings and two lists.  They share no  *)
(* state, so one of them runs at a time.                                   *)
(***************************************************************************)
EXTENDS Settings, WebSearch, Integers, Sequences, FiniteSets

CONSTANTS
    DashPorts, ApiPort, Keys, Own, Servers,
    Builtins, MaxPresets, Texts,
    Letters, MaxLength, MaxProfile,
    Limit, Total, Unrelated, MaxFailures,
    Params, Flash, Draft, Signed, Unit, Infinity, Largest, Numbers, Variants, MaxText, MaxSetupEdits,
    Requests, Window, Active, MinSpan, MaxSamples, Kept, MaxTime,
    ArgModels, Templated, OnByDefault, Touched, MaxArgEdits,
    Rows, Layers, Trained, Typed, MaxTyped, MaxFieldKeys,
    Names, MaxItems, MaxListKeys

\* The hub has a number of models, and a page some of them.
ASSUME HubAssumption == Limit \in Nat /\ Total \in Nat

\* The tracker keeps some of the samples it may have (500 of 1000), and there are tags
\* to type.
ASSUME SamplesAssumption == MinSpan \in Nat /\ MaxSamples \in Nat /\ Kept \in 1 .. MaxSamples
ASSUME TagsAssumption == Names # {}

\* A number that is typed into the setup of a sweep is at most infinite, and more than a
\* u32 holds is less than that.
ASSUME NumbersAssumption ==
    /\ Unit \in Nat \ {0} /\ Infinity \in Nat /\ Largest \in Nat \ {0}
    /\ 3 * Unit < Infinity /\ Largest * Unit < Infinity
    /\ Numbers \subseteq 0 .. Infinity

VARIABLES
    live,       \* the part that runs
    cfg, server, cooling, taken, dying, dash, noted, cert, loaded, proxy, bound, recorded, turn,
    store, order, presetFiles, presetPanel, picker, buffer, subject, failures,
    name,
    screen, bench,
    view, typing, query, results, page, more, loading, at, files, asked, first, misses,
    params, spec, row, editing, prompt, field, text, cursor, fell, commits,
    request, whole, tracker, now,
    base, override, chosen, panel, shown, running, argEdits,
    set, rowAt, expertMode, typed, turbo, entered, fieldKeys,
    workers, workerAt, changing, splitting, tags, tagAt, adding, tagText, listKeys

V == INSTANCE Services
P == INSTANCE Presets
N == INSTANCE Names
K == INSTANCE Screens
H == INSTANCE Search
B == INSTANCE BenchSetup
X == INSTANCE Proxy
A == INSTANCE ServerArgs
F == INSTANCE Fields
L == INSTANCE Lists

\* No letter is one of the escapes, and names of profiles have a bound.
ASSUME LettersAssumption ==
    N!Percent \notin Letters /\ N!Underscores \notin Letters /\ MaxProfile \in Nat

\* A model has layers, and was trained with a context of 128 tokens or more where its file
\* says so.  One row of the panel is shown in both modes; "no row" stands for none.
ASSUME ModelAssumption == Layers \in Nat /\ Trained \in Nat /\ (Trained = 0 \/ Trained >= 128)
ASSUME FieldsAssumption ==
    /\ "no row" \notin Rows
    /\ \E i \in DOMAIN F!AllFields : F!AllFields[i] \in Rows \ (F!Expert \cup F!Ultra)

vVars == <<cfg, server, cooling, taken, dying, dash, noted, cert, loaded, proxy, bound, recorded, turn>>
pVars == <<store, order, presetFiles, presetPanel, picker, buffer, subject, failures>>
nVars == <<name>>
kVars == <<screen, bench>>
hVars == <<view, typing, query, results, page, more, loading, at, files, asked, first, misses>>
bVars == <<params, spec, row, editing, prompt, field, text, cursor, fell, commits>>
xVars == <<request, whole, tracker, now>>
aVars == <<base, override, chosen, panel, shown, running, argEdits>>
fVars == <<set, rowAt, expertMode, typed, turbo, entered, fieldKeys>>
lVars == <<workers, workerAt, changing, splitting, tags, tagAt, adding, tagText, listKeys>>

\* What the other parts have.
NotV == <<live, vars, pVars, nVars, kVars, hVars, bVars, xVars, searchVars, aVars, fVars, lVars>>
NotS == <<live, vVars, pVars, nVars, kVars, hVars, bVars, xVars, searchVars, aVars, fVars, lVars>>
NotP == <<live, vVars, vars, nVars, kVars, hVars, bVars, xVars, searchVars, aVars, fVars, lVars>>
NotN == <<live, vVars, vars, pVars, kVars, hVars, bVars, xVars, searchVars, aVars, fVars, lVars>>
NotK == <<live, vVars, vars, pVars, nVars, hVars, bVars, xVars, searchVars, aVars, fVars, lVars>>
NotH == <<live, vVars, vars, pVars, nVars, kVars, bVars, xVars, searchVars, aVars, fVars, lVars>>
NotB == <<live, vVars, vars, pVars, nVars, kVars, hVars, xVars, searchVars, aVars, fVars, lVars>>
NotX == <<live, vVars, vars, pVars, nVars, kVars, hVars, bVars, searchVars, aVars, fVars, lVars>>
NotW == <<live, vVars, vars, pVars, nVars, kVars, hVars, bVars, xVars, aVars, fVars, lVars>>
NotA == <<live, vVars, vars, pVars, nVars, kVars, hVars, bVars, xVars, searchVars, fVars, lVars>>
NotF == <<live, vVars, vars, pVars, nVars, kVars, hVars, bVars, xVars, searchVars, aVars, lVars>>
NotL == <<live, vVars, vars, pVars, nVars, kVars, hVars, bVars, xVars, searchVars, aVars, fVars>>
allVars == <<live, vVars, vars, pVars, nVars, kVars, hVars, bVars, xVars, searchVars, aVars, fVars, lVars>>

\* A part that rests has no state, but for what the properties of Settings and of
\* WebSearch read: no model is selected, and the search is off.
Off == "off"
OffV == cfg = Off /\ server = Off /\ cooling = Off /\ taken = Off /\ dying = Off /\ dash = Off
         /\ noted = Off /\ cert = Off /\ loaded = Off /\ proxy = Off /\ bound = Off
         /\ recorded = Off /\ turn = Off
OffS == memory = Off /\ disk = Off /\ selected = None /\ active = Off /\ settings = Off
         /\ cached = Off /\ loose = Off /\ intact = Off /\ edits = Off /\ faults = Off
OffP == store = Off /\ order = Off /\ presetFiles = Off /\ presetPanel = Off /\ picker = Off
         /\ buffer = Off /\ subject = Off /\ failures = Off
OffN == name = Off
OffK == screen = Off /\ bench = Off
OffH == view = Off /\ typing = Off /\ query = Off /\ results = Off /\ page = Off /\ more = Off
         /\ loading = Off /\ at = Off /\ files = Off /\ asked = Off /\ first = Off
         /\ misses = Off
OffB == params = Off /\ spec = Off /\ row = Off /\ editing = Off /\ prompt = Off /\ field = Off
         /\ text = Off /\ cursor = Off /\ fell = Off /\ commits = Off
OffX == request = Off /\ whole = Off /\ tracker = Off /\ now = Off
OffA == base = Off /\ override = Off /\ chosen = Off /\ panel = Off /\ shown = Off
         /\ running = Off /\ argEdits = Off
OffF == set = Off /\ rowAt = Off /\ expertMode = Off /\ typed = Off /\ turbo = Off
         /\ entered = Off /\ fieldKeys = Off
OffL == workers = Off /\ workerAt = Off /\ changing = Off /\ splitting = Off /\ tags = Off
         /\ tagAt = Off /\ adding = Off /\ tagText = Off /\ listKeys = Off

TerminalInit ==
    /\ live \in {"services", "settings", "presets", "names", "screens", "search", "bench setup",
                 "proxy", "web search", "arguments", "fields", "lists"}
    /\ IF live = "services" THEN V!Init ELSE OffV
    /\ IF live = "settings" THEN Init ELSE OffS
    /\ IF live = "presets" THEN P!Init ELSE OffP
    /\ IF live = "names" THEN N!Init ELSE OffN
    /\ IF live = "screens" THEN K!Init ELSE OffK
    /\ IF live = "search" THEN H!Init ELSE OffH
    /\ IF live = "bench setup" THEN B!Init ELSE OffB
    /\ IF live = "proxy" THEN X!Init ELSE OffX
    /\ SearchInit /\ (live # "web search" => conf = [on |-> FALSE, url |-> ""])
    /\ IF live = "arguments" THEN A!ArgInit ELSE OffA
    /\ IF live = "fields" THEN F!FieldInit ELSE OffF
    /\ IF live = "lists" THEN L!ListInit ELSE OffL

ServicesStep == live = "services" /\ V!Next /\ UNCHANGED NotV
SettingsStep == live = "settings" /\ Next /\ UNCHANGED NotS
PresetsStep == live = "presets" /\ P!Next /\ UNCHANGED NotP
NamesStep == live = "names" /\ N!Next /\ UNCHANGED NotN
ScreensStep == live = "screens" /\ K!Next /\ UNCHANGED NotK
SearchStep == live = "search" /\ H!Next /\ UNCHANGED NotH
SetupStep == live = "bench setup" /\ B!Next /\ UNCHANGED NotB
ProxyStep == live = "proxy" /\ X!Next /\ UNCHANGED NotX
WebSearchStep == live = "web search" /\ SearchNext /\ UNCHANGED NotW
ArgumentsStep == live = "arguments" /\ A!ArgNext /\ UNCHANGED NotA
FieldsStep == live = "fields" /\ F!FieldNext /\ UNCHANGED NotF
ListsStep == live = "lists" /\ L!ListNext /\ UNCHANGED NotL

TerminalNext ==
    \/ ServicesStep \/ SettingsStep \/ PresetsStep \/ NamesStep
    \/ ScreensStep \/ SearchStep \/ SetupStep \/ ProxyStep
    \/ WebSearchStep \/ ArgumentsStep \/ FieldsStep \/ ListsStep

TerminalSpec == TerminalInit /\ [][TerminalNext]_allVars

\* Bound of the run: the prompt is edited before a range is, which it shares nothing with;
\* and of the overrides of the two models and the settings profile there are not all three.
FewAtATime ==
    /\ live = "bench setup" => commits = 0 \/ (~field /\ prompt = <<1>>)
    /\ live = "settings" =>
         \/ \E m \in Models : memory.over[m] = NoFile
         \/ \A m \in Models, p \in Profiles : memory.profile[m][p] = NoFile

-----------------------------------------------------------------------------
(***************************************************************************)
(* The properties of the parts, where their modules state them; those of   *)
(* Settings and WebSearch are stated there as they are.                    *)
(***************************************************************************)

\* The dashboard and the proxy listen with what is configured, and say so.
ServicesAreCurrent == live = "services" => V!DashboardIsCurrent /\ V!ProxyIsCurrent

\* The directory of presets has what the program shows.
FilesAgree == live = "presets" => P!FilesAgree

\* Two names of models never share a file.
NamesComeBack == live = "names" => N!NamesComeBack

\* Esc leads back from wherever the user is.
EscLeaves == live = "screens" => K!EscLeaves

\* The search shows the pages it loaded.
ResultsAreThePages == live = "search" => H!ResultsAreThePages

\* What is typed, stepped and deleted in the dialogs leaves ranges whose tests rise to the
\* end of the range, numbers their fields may have and indexes of entries.
EditorsAreSound ==
    /\ live = "bench setup" => B!SweepsTheRange
    /\ live = "fields" => F!PanelIsSound
    /\ live = "lists" => L!IndexesAreOfEntries

\* The speed that is shown is that of the tokens that came.
TokensAreCounted == live = "proxy" => X!TokensAreCounted /\ X!RateIsSound

\* A server is told the settings of its model, and starts; with the exceptions of
\* ServerArgs.
RunsAsSet == live = "arguments" => A!RunsAsSet /\ A!StandardServerStarts
=============================================================================
