# llm-manager: a verification development

TLA+ models, TLC runs and TLAPS proofs about llm-manager, the terminal program
that discovers, downloads, configures and serves GGUF models with llama.cpp.
Paths below are relative to the repository.

## 1. Inventory

The program is one tokio runtime. In TUI mode a single loop (`src/main.rs`)
owns all of the application state (`App`) and runs, one after the other, the
ticks, the pending events, the API operations and one key per turn. Everything
slow runs in spawned tasks that talk to the loop over channels. In `serve` mode
there is no `App`: `src/serve.rs` supervises one llama-server.

| Component | State it keeps | Operations | Talks to |
|---|---|---|---|
| Server process (`src/backend/server.rs`) | the child, two reader tasks, the merge loop, the kill, log and exit channels | spawn, read lines, kill, exit, `ensure_killed` | lifecycle (handle, log and exit channels) |
| Server lifecycle (`src/main.rs`, `src/tui/app/async_ops.rs`, `src/tui/app/state/state_impl.rs`, `src/tui/event/`) | `server_handle`, `server_exit_rx`, `spawn_task_handle`, `pending_*`, `model_states`, `loaded_model_names`, `loading_phases`, the health poll | load, unload, kill, crash detection, exit | server process, router API, dashboard, proxy |
| Router API (`src/backend/server.rs` from 1808) | the router's status of each model (external) | load, unload, list | lifecycle |
| Server arguments (`src/backend/server.rs` to 800) | none of its own: the defaults, the overrides, the panel | a single server's arguments, a router's preset | lifecycle, settings |
| Downloads (`src/backend/hub.rs`, `async_ops.rs`, `key.rs`) | the task, a shared control byte, a broadcast channel of 64, `download_progress` | start, pause, resume, cancel, completion | model discovery, backend resolution |
| Backend resolution (`src/backend/hub.rs` from 948) | the directory of each release: binary, libraries, archive, extraction; the picker's waiting | resolve, download, verify, extract, move, delete | spawn |
| Benchmark tuning (`src/backend/benchmark.rs`, `async_ops.rs`, `key.rs`) | the sweep task, `bench_tune_running`, the status and cancel channels, results; the dialog's ranges | prepare, run, cancel, finish | its own servers |
| Serve mode (`src/serve.rs`) | the child, log pipeline, metrics poll, proxy and dashboard tasks | start, Ctrl+C, child exit, shutdown | proxy, dashboard |
| API proxy (`src/serve_api.rs`) | requests on their way, the token count and its samples | forward, add the web to a question, count, show a rate | llama-server, web search |
| Transfers, agent (`src/serve_transfer.rs`, `src/serve_agent.rs`) | uploaded archives and directories; rounds and budget of a run | upload, list, delete, run | file system, llama-server |
| Dashboard (`src/backend/ws_server.rs`) | its task, what it was started with | start, stop, restart, broadcast | main loop, serve |
| Configuration (`src/config.rs`, `src/config/`) | YAML files and the caches over them | load, save, delete, resolve settings | everything |
| Web search (`src/backend/web_search.rs`, `web_context.rs`) | its settings, in four copies | edit, check, search | proxy |
| Hub search (`src/backend/hub.rs`, `key.rs`) | the query, pages, results, files of a result | search, page, sort, open | downloads |
| TLS (`src/backend/tls.rs`) | the certificate, its key and a version, as files | take or make | dashboard, proxy, serve |
| Settings panel, overlays, lists (`src/tui/`) | the selected row, edit buffers, indexes, the stack of screens | keys | everything |
| Hardware, log parsing, GGUF, rendering, i18n | none | pure functions and reads | |
| Orchestrator extension, llm-acme, GNOME extension | separate programs around the API | | |

What makes each correct, in one line: a **server process** is never orphaned by a
lost kill and never reported dead while it runs; the **lifecycle** keeps the states
of the models true of the processes that exist, whatever was replaced, killed or
crashed in between; a **server's arguments** are those of its model; a **download**
ends once, in the state of its file; a **resolved backend** was verified and is whole;
a **benchmark** measures its own servers, ends them, and counts every test; **serve**
leaves no llama-server behind and does not block it while the dashboard is served; an
**upload** has a directory of its own; the **agent** stops; a **store**'s cache agrees
with its files and a model's settings are its own; the **services** beside the server
are what the configuration says; the **proxy** answers with the search the user set and
counts each token once; a **certificate** fits its key; the **screens** can all be left.

The behaviours that are hard: the loop and the tasks interleave at every await;
channels are bounded, so senders block or drop; receivers are replaced while
messages are under way; a handler may await (`ensure_killed`, five seconds) with
everything else moving on; processes die at any moment; the program itself ends between
two file operations; one setting is kept in several copies; dialogs can be replaced, and
indexes and buffers outlive what they were taken for. `PROJECT.json` lists these hazards
at their lines.

## 2. Modules

| Module | Models | Checked in |
|---|---|---|
| `ServerContract` | what the app may rely on about one server: an accepted kill ends it, its exit is announced once and only after its death (abstract specification) | `process`, as the property `RefinesContract` |
| `ServerProcess` | the task of `spawn_server_inner`, its readers, `kill_server`, `ensure_killed` | `process` |
| `ServerLifecycle` | the main loop with many servers, each used through the contract | `lifecycle`, `stuck` |
| `MCServerLifecycle` | symmetry of the models, for the larger run | `router` |
| `Downloads` | the tasks of `hub::download_file`, their control bytes and channel, the two ticks and the keys | `downloads` |
| `BackendInstall` | `resolve_backend_binary`, one file operation at a time, and the app around it | `install` |
| `BenchTune` | `run_bench_tune` with its servers, and the app around it | `bench` |
| `Serve` | `serve_model` with its tasks and channels | `headless` |
| `Transfers` | uploads and the agent's run | `headless` |
| `TlsCerts` | `ensure_tls_certs`, one file operation at a time | `headless` |
| `MCHeadless` | the three side by side | `headless` |
| `Services` | `tick_ws_server` and `tick_api_endpoint` | `terminal` |
| `Settings` | defaults, overrides, settings profiles, in memory and as files | `terminal`, `load` |
| `Presets` | the store of system prompts, the panel and the picker that edit it | `terminal` |
| `Names` | display names, file names and back | `terminal` |
| `Screens` | which screen takes a key, which is drawn, and where Esc leads | `terminal` |
| `Search` | queries, pages, the files of a result | `terminal` |
| `BenchSetup` | the dialog of a sweep and its grid | `terminal` |
| `Proxy` | a question through the proxy, the tokens of streams, the rate | `terminal` |
| `WebSearch` | the copies of the search settings | `terminal` |
| `ServerArgs` | from settings to arguments, for one server and for a router | `terminal`, `turbo` |
| `Fields` | the rows of the settings panel | `terminal`, `layers` |
| `Lists` | the RPC workers and the tags | `terminal` |
| `MCTerminal` | the twelve parts from `Services` on, side by side | `terminal` |
| `ServerProcessProofs`, `ServerLifecycleProofs`, `DownloadsProofs`, `BackendInstallProofs`, `BenchTuneProofs`, `HeadlessProofs` | theorems for all constants about the module, or the parts of the MC module, of that name | TLAPS |
| `SettingsProofs` | the same about the settings, the web search, the editors, lists and names of `MCTerminal`, and the lemmas on recursion over numbers | TLAPS |
| `TerminalProofs` | extends it: the services, presets, arguments, screens, search and streams | TLAPS |

`MCHeadless` and `MCTerminal` put parts side by side that share no state. A variable
`live` says which one moves; it never changes, and in `MCTerminal` a part that rests has
no state, or the simplest one. This loses no behaviour: a property of one part reads only
that part's variables, so whatever the others do between its steps is a stutter to it. It would be
wrong for parts that share state, and those are in one module (`Services` with the
configuration it reads, `ServerLifecycle` with its processes). `Serve`, `Settings` and
`WebSearch` are extended and keep their names; the other parts are instances
(`K == INSTANCE Screens` and so on). The theorems are about these instances and about
`HeadlessSpec` and `TerminalSpec` themselves, so that a run and a theorem state the same
definition of the same specification.

### ServerProcess

State and code: `child` is the operating system's view of llama-server
(running, zombie, reaped), `holds` who keeps the write end of a pipe open (the
child or a process it started), `pipe`, `chan` and `log` the lines in the two
pipes, the two reader channels (64 in the code) and the log channel (100),
`reader` the reader tasks, `task` the place in the spawned task (merge loop,
join, wait, notify, log, done), `killQ` the one-place kill channel, `killer` the
callers of `kill_server`, `exitQ` and `exitRx` the exit channel, `verdict` the
progress of `ensure_killed`. Each branch of `select!` is an action; the choice
between ready branches is tokio's and so nondeterministic. The five-second
timeout and the polling are nondeterministic too: they may strike at any time.

Data abstracted: a line is a count. What llama-server does is external: it
writes, closes a stream, exits, or leaves behind a process that holds a stream.

### ServerLifecycle

The servers are numbered by spawn request. `pc` names the next handler of the
loop, so every task and process step may fall between two handlers; a handler
without work is passed over, which changes nothing because nothing it reads is
written by the handlers before it. `ProcessPendingKill` and `FinishPendingKill`
are the two halves of the one handler that awaits while others move.
`model_states`, `loaded_model_names`, the handle, the exit receiver, the pending
fields and the phases that matter (`ServerListening`, `Complete`) have a variable
each. The log channel is abstracted to the two kinds of lines that change state.

Assumptions: a kill request is carried out, and its exit announced, within the
five seconds `ensure_killed` and the exit of the program wait (`ServerProcess`
covers the case where it is not); a poll and its answer are one step; the mode
does not change during a run; the event queue (16 places) does not fill; a model
has one display name.

### Downloads

A task has a number, a place in `download_file` (`step`), its file, its control
byte (`ctrl`, the `AtomicU8` of which the entry shown by the panel has a clone)
and its cancel token. The load of the byte at the top of the loop, the store of
PAUSED and the message about it are three actions, because keys fall between
them. `entry` is `download_progress` as a function of the file: both the lookup of
`tick_download_progress` and the check of the Enter key identify an entry by its
model and file. The broadcast channel drops its oldest message when it is full;
`lost` is a history variable that names the tasks whose latest message was
dropped. `disk` says which task created the file a name holds. The loop is
`pc`: the progress tick, the completion tick, the pending events, one key. Both
ticks are skipped when the app is idle, which `downloading` prevents; since
other parts of the app prevent it too, skipping them is a choice.

Assumptions: keys act on any entry (the panel's selection is not modelled); two
files with one name in different models are two files; nobody else touches the
destination. The numbers shown with an entry are left out.

### BackendInstall

A release is the number in its tag, so that the text order of
`list_installed_backends` (9 before 10) can be told from the order of numbers. `server`,
`libs`, `tmp` and `extract` are the contents of its directory; every file operation of
`resolve_backend_binary` is an action, so a crash, a deletion or a second task falls
between any two. A file's content is `none`, `part`, `good` (what GitHub announced) or
`corrupt` (received, but something else). Verification happens only when GitHub announced
a digest (`digest`). `frozen` stands for the key handlers that await a resolution in the
main loop: nothing else of the loop moves meanwhile. `shared` is a history variable: the
releases two tasks have worked on at one time. Nothing can be said of those, because
the two share the archive and the extraction directory and remove them under each
other, and the properties except them.

### BenchTune and BenchSetup

A sweep is numbered by its start. `pc` is its place in `run_bench_tune`: between tests,
spawning, waiting for health, measuring, killing, pausing a second, sorting. `server` is
the state of its test's server; the health check asks the port, not the process, so it
may be answered by another sweep's server, which `foreign` records, and `lone` names the
sweeps that never overlapped with another. The app's side has the fields of `App` as
they are, with the last status unread as a one-place channel. `BenchSetup` has the
dialog: the prompt with its cursor, the ranges with the number that is edited, and the
values a range stands for, computed as the code steps through it. The numbers of a range
are f64 in the code. In the model they are counted in parts, `Unit` to a whole one, of a
size that f64 holds exactly, so that fractions and negative numbers are typed as well, and
`Infinity` is what a text such as `1e999` parses to; rounding within f64 is left out. Each
value is converted as `generate_combinations` does it: at least a half for the switch, as
u32 for what has no sign and as i32 for `expert_count` (`Signed`), fractions dropped and
what is out of bounds taken to them (`Largest`). The dialog makes its tests whenever it is
drawn, so a range without an end ends the program (`Draw`). A range with an end that is
merely huge is one of those without.

### Serve, Transfers, TlsCerts

`Serve` follows `serve_model` from the spawn to its return, with every early return. A
line the server prints passes the pipe, the reader, the parser's channel (100), the
parser and the channel of the poll (10); each may wait for the next, and a server that
cannot print stands still. `Transfers`: an upload looks at one id after the other, asking
for the directory first (`LookForDirectory`) and then for the file of an upload on its way
(`LookForFile`), creates its file, streams, extracts and removes the file, in steps, and
may fail in each, the creation included; a rejected one removes its file first and its
directory an await later. Two uploads may take one id in two ways: before either has
created its file, and when one finishes between the two looks of the other, which sees
neither the directory nor the file. They then write to one archive and one directory and
remove them under each other. `alone` is a history variable, the uploads that met no other
in these ways, and `UploadIsWhole` speaks of those. The agent's run is its round and the output so far; what it kept of the
conversation is dropped when it returns. All uploads have one label in one second, since
others never meet. `TlsCerts`: the two files are written under
temporary names and renamed one after the other, by any number of programs, each of which
may end between two operations; a file holds a half of a numbered pair.

### Services

The configuration the user edits, what the app noted when it started the dashboard and
the proxy, what the two were really given, and the ports. An aborted task keeps
its port for a while (`dying`), other programs take and free ports (`taken`). One turn
is `tick_ws_server` and then `tick_api_endpoint`, each a single action because neither
awaits anything another part changes.

### Settings, Presets, Names

In `Settings` one field stands for each of the five kinds of field the code treats
differently: a plain value of a model, an Option of a model, one that is shared by the
models but overridden by each, one no override holds, and `version`, which stands for
the versions of llama.cpp and `strix_halo_rocm`: Options that are copied to the defaults
at every edit (helpers.rs:246) and held by an override once a model is saved
(config.rs:424), but not written to one that holds them already by `update_fields`
(model_config.rs:128), as the other shared fields are. The chain defaults, override,
profile is resolved as in `config.rs`. `memory` and `disk` are the caches and the files; a
write may fail (`WriteFails`), also half way through `save`. `Presets` has the order of
the HashMap as state, because the panel's index refers to it. Its panel has a branch for
Ctrl+S (system_prompts.rs:25) that no key reaches: key.rs:562 takes Ctrl+S first and saves
the settings and the configuration with the presets as they are (`SaveSettings`), and the
text that is edited stays open. `Names` escapes and splits
names character by character, since that is what its property is about.

### Screens, Search, Fields, Lists

`Screens` has one value for each group of overlays that take keys alike, and follows the
dispatch order of `key.rs` and the drawing order of `render.rs` apart, because they
differ. `Search` has the hub's results as numbers in the hub's order; a page is a set of
them, and the ith model of a page is the one with i of the page up to it. A page is asked
for by a key and answered before the next key. `Fields` has one row of each kind (number
with a range, Option, ring of choices, the GPU layers), the buffer all rows share and both
modes; which rows a mode shows follows settings.rs:1098. `Lists` has two lists edited in
place and the indexes that outlive their entries.

### Proxy, WebSearch, ServerArgs

`Proxy` cuts the streams of llama-server at any byte, puts the lines together again and
counts tokens into samples with times; `Window`, `Active` and `MinSpan` are the spans of
the code in units. `WebSearch` has the four copies and the tasks that hold an old clone
of the configuration. `ServerArgs` maps a setting to its argument: whether it is always
passed, only when on, only off its default, or only with another one; a value is 0, the
one it is not told for, or one of two others. A load takes the panel when it was changed
and what is saved for the model when not (`LoadedSettings`). What depends on more than
one setting is computed: the context yarn stretches, the scaling yarn replaces, the
template of the architecture where none is set, the batch that must hold the micro batch,
the cache types of a standard build. What is not told is llama-server's to choose, and
some flags it has on by itself (`OnByDefault`): `Works` is what a server has in the end.

## 3. Runs

| Run | Question | Bounds |
|---|---|---|
| `process` | is a kill lost, the task deadlocked, a live process called dead, a crash missed; is the contract kept | two streams, two killers, one heir, channels and pipes of one place |
| `lifecycle` | are the exit channel, the single model of normal mode and the notice of a crash right in Normal and Bench mode | two models, two spawns, two loads |
| `router` | states, names and failures in Router mode, while the router is not replaced | two models that are interchangeable, one spawn, two loads |
| `downloads` | does a failure leave a partial file, is a resting task shown as paused, does the entry of an ended download go | one file, two downloads of it, a channel of one place |
| `install` | is only what was verified installed, is a reported installation whole, does anything stay behind, does the picker's waiting end | one release, two tasks, one library, one crash |
| `bench` | are servers killed, measured by their own sweep and every test counted; does every sweep end | one model, two sweeps, two tests, two iterations |
| `headless` | serve: no orphan, the output flows, it returns; transfers: an upload is whole, the agent ends; certificates: the pair fits | channels of one place, two failed polls, one request; three uploads, two rounds; two programs, four pairs, two faults |
| `terminal` | the eleven properties of the parts of `MCTerminal` | two models, one profile, two overrides or one of them and the profile, two values, one edit, one failed write; two presets; names of seven characters; pages of two among six models; ranges of 0, a half, 2 and infinity with either sign, two of them committed; two streams; seven settings, each of three values, two changed, two models of which one has a template; eleven rows, five keys; and the rest as in the cfg |
| `stuck`, `load`, `layers`, `turbo` | statements of the documentation and of comments the code does not keep | one or two models, one or two spawns; as in `terminal` |

Why the bounds are enough: capacity one is where full channels block at once;
two servers are what replacing one takes, and the only receiver, handle and
channel that a third could disturb are those a second already disturbs; two
models are what cross-talk takes. In `Downloads` entries and files meet only
through the name they share, the channel and the flag `downloading`: two tasks of one
name have all three in common. A larger number of loads only repeats a pattern. In
`BackendInstall` tasks meet in one directory and releases do not meet at all, but for the
choice of the latest, which no property of the run is about; a third-party build
(`Custom`) is read and deleted only, and makes the run three times as long: it was checked
apart. Sweeps meet in pairs, and the second test is the first that follows
another. Two failed polls are the least number that differs from the first one. The
uploads are three because two that met may both be gone when the third comes to what they
left: a version of `UploadIsWhole` that forgot them held with two. A name
of seven characters holds a separator with a doubled underscore and an escape on either
side. Every part of `MCTerminal` has the bound at which its list, page, range or buffer
is first full, emptied and refilled. A half is the fraction at which the switch's conversion
turns and the whole numbers' does not; the seven settings are those whose arguments depend
on one another, a plain one, and a flag llama-server has on by itself.
A constraint (`FewAtATime`) keeps two products out of the run that relate nothing: the
prompt of a sweep is edited before its ranges are, with which it shares only the open
editor, and of the two models' overrides and the settings profile there are two at a time,
which is what one of them disturbing another takes. The theorems have no such bound.

`CHECK_DEADLOCK FALSE`: the budgets of spawns, loads, edits and keys are bounds of the
model, and after the last one nothing may happen any more; the headless program ends. Only
`install` needs no such line: there the program always goes on.

Fairness: tokio polls every ready task, so each task's step is weakly fair; a
branch of `select!` that is ready again and again is chosen at some time, hence
strong fairness for the merge loop's branches. The main loop turns for ever;
its throttled ticks run once a second, hence strong fairness for them. Nothing
is assumed of llama-server or of the user. In `Downloads` every await of a task has a
timeout (30 seconds to connect, 60 for a chunk), so its steps are weakly fair; nothing
says that a download ever comes to its end. In `BackendInstall` the same holds for tasks
that report progress; one without progress may wait for its body for ever, and is not
fair there (`TimedStep`). A sweep's awaits all have timeouts, and `Serve` polls every two
seconds with a timeout; a request to a server that is gone fails. Of the model behind the agent it is assumed that it comes to an end, one way or another: the
agent's request has no timeout beyond the connection, so `AgentEnds` says that the *loop*
ends for a llama-server that answers or closes.

### What the violations show

* `stuck`: replacing a server queues its kill before the spawn. Both events are
  drained before the kill is carried out, so `process_pending_kill` takes the exit
  channel of the *new* server, and drops it after waiting. If the new server then
  dies, nobody is told and its model stays in Loading.
* `load`: Enter on a model with an active settings profile that was not edited resolves
  the model's override over the defaults and leaves the profile out, while the panel
  shows the profile's values.
* `layers`: on the row of the GPU layers every key clears the shared buffer before it is
  looked at. Digits replace each other, Enter finds nothing, and the number that
  the documentation says can be typed there never arrives.
* `turbo`: a model's override keeps a turbo cache type after the backend was switched
  to a standard build. A single server gets f16 instead, a router's section does not.

### What is stated but not run

The modules also state what the code or its comments suggest and what TLC
refutes. None of these is a run; they are here because they bound what the properties
that hold say, and a reader would ask for them.

| Property | Why it fails |
|---|---|
| `ServerLifecycle.UnloadIsConfirmed` | `u` sets `pending_api_unload` at once and relies on the open dialog to hold it back; Ctrl+P, Ctrl+U and Ctrl+O are handled before the dialog and replace it |
| `ServerLifecycle.ExitLeavesNoServer` | with the exit channel gone as in `stuck`, the exit does not wait for the server it asked to die |
| `LoadedHasServer`, `NamesAgree` with two routers | the kill of a router that is replaced leaves the states alone because a spawn is under way, and empties the names: this is why `router` has one spawn, and why the theorems have `RouterStays` as a hypothesis in Router mode |
| `Downloads.PanelShown` | `downloading` is recomputed from a list that a download enters with its first message only |
| `Downloads.CompletedStays` | two tasks write to one destination; the one that fails removes the file the other completed |
| `Downloads.CancelledNeverRests` | a cancel between the task's load of PAUSING and its store of PAUSED is overwritten |
| `BackendInstall.ReadyIsRunnable` | after a crash between the moves, or with a library that could not be copied, a directory counts as ready |
| `BackendInstall.LatestIsNewest` | tags are sorted as text: b9 is found before b10 |
| `BenchTune.RunningEnds` | a cancelled sweep's result is read by nobody, and the flag stays |
| `Serve.NeverStuck` | without the dashboard nobody takes the parser's lines: after 100 of them llama-server blocks in a write |
| `Transfers.UploadStays` | two uploads pick one id before either creates its file, or one finishes between the two looks of the other |
| `TlsCerts.Regenerates` | an authority that is already there is PEM and parsed as DER (tls.rs:162): the call ends in an error, and nothing can be made with that authority again |
| `Services.CertificateIsCurrent`, `ProxyIsAlive` | a named certificate that could not be loaded is noted as if it had been, so naming it again changes nothing; a proxy whose port was taken is still taken for running |
| `Settings.PickedIsStored` | a version picked for a model whose override holds another goes to the defaults; the model's own file keeps the old one while the panel shows the settings as saved |
| `Presets.EditsItsSubject` | the wheel moves the picker's selection while the text of another preset is edited, and the text is saved to the one selected; a new preset is opened by its place in a HashMap (system_prompts.rs:175) |
| `Screens.HelpTakesTheKeys` | overlays are asked before the help that is drawn over them |
| `BenchSetup.CursorIsInText` | the cursor is set to a number of bytes when the prompt is opened and used as a number of characters: a character of two bytes is enough |
| `BenchSetup.RangesEnd` | `1e999` is a number a range takes, and the vector of its values cannot be made |
| `BenchSetup.TestsDiffer` | the values of a range with a fraction for a step, and all negative ones of an unsigned parameter, are converted to the same whole numbers and tested again; so is a switch whose range goes to 2 |
| `ServerArgs.ClearedIsCleared` | the panel shows an Option without a value, and a server has that of the defaults: None overrides nothing once it is saved |
| `ServerArgs.FlagsAreAsSet` | a flag that is off is not passed, and llama-server has some on by itself |
| `ServerArgs.BuildIsShown` | a version picked over the one a model's override holds is shown at once and not as a change, so the load resolves the old one, as in `PickedIsStored` |
| `WebSearch.PanelShowsStatus` | a failed check under an open picker reaches the proxy with the next URL, not the panel |
| `Lists.TagIsThere` | Up on an empty list of tags selects the first; `e` then ends the program |

Others hold and have no run, because a run is kept for the hazards that matter more:
`BenchSetup.CountsItsTests` and `DraftsNeedSpec`, `Proxy.GatheringEnds`, and the type
invariants other than `ServerProcess.TypeOK`; those of the lifecycle, the downloads, the
settings and the web search are proved. `ServerLifecycle.KeepsContract`, `ExitsAreReal` and
`NoticeIsKept`, `Downloads.EndIsShown`, `BackendInstall.WaitsForATask`,
`BenchTune.ShowsNewest`, `Serve.OutputCanFlow` and `CanReturn` were checked by TLC with the constants of the runs before they
were proved, and the theorems of section 4 say more than another run would.

`PauseIsShown` and `EndedEntryGoes` speak of tasks whose latest message was not
dropped. If the final message of a task is dropped, its entry stays as it is and keeps
the app from going idle until the user cancels it: 64 later messages within one turn of
the loop are needed. `CrashIsNoticed` speaks of servers the app listens to: one that dies
between its start and `tick_spawn_result` has its notification used up by
`tick_server_exit` before its handle is installed.

### Divergences met on the way

Not each is a property; they are where the code and what it says of itself part.

* Services: the early return at async_ops.rs:2324 skips what its comment (2297) says is
  done on every turn; a changed API key or TLS switch does not restart the proxy while
  the dashboard is off; when TLS cannot be loaded plain HTTP is served and reported as
  https.
* Settings: a version picked while a model is selected does not reach an override that
  holds one (model_config.rs:128), which is why `CleanIsStored` excepts it; an Option of an
  override that is None does not override (config.rs:440); a
  reset is shown as clean and not stored; `delete_settings_profile` returns early and
  leaves the profile active.
* Names: components that end in `_` and keys with `__` may meet (model_config.rs:22), and
  so may the ids of a router's models.
* Server arguments: the repetition and presence penalties, `repeat_last_n` and the unified
  KV cache are never passed; the router's preset has its defaults above the first header
  (server.rs:681); the number of experts is written as `int:int:` (server.rs:372) and
  yarn's override of the trained length (server.rs:519) is a second `--override-kv`.
* Presets: Ctrl+S in the panel saves the settings and not the preset (key.rs:562).
* Benchmarks: the comment on `bench_tune_normalize_range` calls a range sane that may be
  without an end, or of one value for several tests (models.rs:2605).
* Search: after a failed page the next one is asked for from an offset the list has not
  reached, which is why `ResultsAreThePages` excepts failures.
* Panels: min and max of a range may cross with Tab and Esc; a `max_tokens` of -5 wraps;
  Enter on a cache type steps into the turbo types on any build; letters of a tag act as
  commands. `is_ultra` hides a row in the expert mode only (settings.rs:1098): Typical P is
  shown outside it, and the ultra rows with a toggle are expert rows as well
  (settings.rs:138) and never shown, while usage.md:241 has all of them hidden.
* Channels: the key handlers await room in a channel only their loop drains (key.rs:320);
  moving the selection during a load clears the phases that completion waits for
  (sync_ops.rs:152); aborting the spawn task at exit may leave its process (main.rs:545).

## 4. Proofs

Every theorem holds for all values of the constants that satisfy the named assumptions of
its module (`...Assumption`; TLC evaluates them on every run). They say that bounds are
numbers, that the values standing for "none" are not names, and what the code itself has:
a channel and a pipe have room (`RoomAssumption`), the main loop is one of those that kill, releases are numbered, a
tracker keeps part of its samples (`SamplesAssumption`), the escapes of a file name are no
letters of it (`LettersAssumption`), a model was trained with 128 tokens of context or
more where its file says so (`ModelAssumption`), one row of the panel is shown in both modes
(`FieldsAssumption`), a number that is typed is at most infinite and a u32 holds less (`NumbersAssumption`), a hub has finitely many models (`HubAssumption`), finitely many uploads come
(`UploadsAreFinite`). The theorems about `Settings` have a hypothesis of their own,
`ProperConstants`, and `WhatIsCleanIsStored` also `ProperNames`: that "none" names no
model and no profile, and that the value which stands for an unset Option is no other
value. Nothing else is assumed.

Each proof has the same shape: an inductive invariant, a lemma per action or group of
actions, a lemma for `Next`, and a last temporal step. What makes each invariant necessary:

**`ServerProcessProofs`**: `TypeOK`, no accepted kill is lost, joining the readers cannot
deadlock, a verdict of death is true, and `ServerProcess` implements `ServerContract`
(initial states map to initial states, every step to a step or a stutter). The properties
speak of single moments; `IInv` says which places of the task the merge loop's flags, the
reader tasks, the kill channel and the child can be in together. A kill is not lost
because the task leaves the merge loop only after killing the child, or after the child
was reaped, or after every sender is gone.

**`ServerLifecycleProofs`**:

* `TypeOK` (no handler runs without the request, handle or model it uses),
  `ListensToItsServer`, `FailedIsKept`. What a handler may rely on was established by the
  handlers before it, so `IInv` adds that keys find the event channel empty
  (`QueueDrained`), that a spawn request is the last event in it and the handle is gone by
  then (`SpawnIsLast`), and that a handler which was not passed over still finds its
  request (`HandlerHasWork`). With these the exit channel changes owner only when nobody
  has a handle (`ListensToSpawned`, `NotYetSpawned`).
* `OneModelInNormalMode`; `NamesAgree` and `LoadedHasServer` as long as no router is
  replaced (`RouterStays`; with two they are false, section 3). `MInv` relates the requests
  that are under way (`RequestInv`), what may load meanwhile (`LoadInv`: in Normal mode a
  model loads only when none is loaded, and nothing is loaded while a server is asked for)
  and what is shown (`ShownInv`).
* `KeepsContract`: of every server, however many there are, the app sees a behaviour of
  `ServerContract`. This is the other half of `ImplementsContract`: `ServerProcess` keeps
  the contract, and `ServerLifecycle`, which uses servers through it, does nothing that is
  not in it. It rests on `NotYetSpawned`, by which no number is given to two servers.
  `ExitsAreReal` is about the announcements alone.
* `NoticeIsKept`, an action property: the channel on which the death of the current server
  will come, or its notice, is taken away by the step that gives up the handle and by no
  other. It is what `CrashIsNoticed` leaves over when the fairness is taken away. The kill
  that takes the channel of another server (`stuck`) is excluded by `KillerWaits` with
  `SpawnIsLast`: it does so only while the app has no handle.

**`DownloadsProofs`**: `TypeOK` with the channel within its capacity, `NoPartialLeft`. What
a name holds belongs to a task of that name (`OwnFile`), so the removal on every error path
hits it. It is true although two tasks may write to one name: the removal is by name and
takes whatever is there. `PauseIsShown` and `EndIsShown` (the safety half of
`EndedEntryGoes`) relate the byte, the channel and the entry: what a task at rest, or at
its end, still has in the channel ends with the status it rests or ended with
(`RestingSaidSo`, `EndedSaidSo`), and when the loop has read that, the entry has it
(`EndShown`). They need that messages and entries are those of tasks that have begun
(`SendersHaveBegun`, `EntryIsOwn`), and that only a task itself stores PAUSED
(`PausesItself`).

**`BackendInstallProofs`**:

* `OnlyVerifiedMoves`. A task might extract what it verified after another task wrote the
  same archive again; `Exclusive` says that two tasks on one release have met and the
  release is in `shared`, and `Verified` carries the digest from the verification to the
  extraction. That the latest local release is a release at all rests on the order of the
  tags being a total one (`LatestLocalType`).
* `NoExtractionStays` and `InstallationIsWhole`: an extraction is that of a task on its way
  to the clean-up (`ExtractionIsUsed`), and a task alone on its release has the library in
  place before the binary is made executable, and both until it reports (`Placed`).
* `WaitsForATask`, the safety half of `ResolvingEnds`: loads are refused only while there is
  a task whose answer the tick takes, and one that reports progress, so that its
  downloads have a timeout; the loop stands only for a task that can answer it.

**`BenchTuneProofs`**: `ServersAreKilled`, `MeasuresItsServer`, `EveryTestCounts`. The
second needs that a sweep which never overlapped works alone (`Alone`) and that from the
moment its server was spawned nobody else has one (`OwnPort`), which in turn needs that
sweeps are numbered in order (`InOrder`) and that one not started has nothing (`Fresh`).
The third needs the running count within a test (`Counted`). `SweepsNearTheirEnd` is what
can be proved of `SweepsEnd`: the number `Left` of steps a sweep may still take is never
negative, falls with each of its steps and rises with nobody else's, so a sweep of n tests
takes at most 7n + 2 steps. `ShowsNewest` is inductive with `IInv`.

**`HeadlessProofs`**:

* `NoOrphan`. `serve_model` waits for its tasks only when the server has ended
  (`GoneWhenJoined`), and a proxy that failed has ended it before (`FailureIsFatal`).
* `OutputCanFlow` and `CanReturn`, the safety halves of `OutputFlows` and `Returns`: of
  the server, the reader, the parser and the poll the last one that is waited for can go
  on, and `serve_model` that waits finds its server ended when the server died or the
  proxy failed, and a proxy it waits for was told to end. It needs that the parser and the
  poll run as long as the reader does (`TasksRun`) and that the error `serve_model` acts
  on is the one the proxy answered (`ProxyAnswers`).
* `FilesAreWhole`. For the uploads: what lies under a name is of uploads that chose it
  (`NamesAreOwn`), a name that was passed over is another's (`PassedAreTaken`), nobody
  under way has the name of one that is alone (`AloneHasItsName`), and what there is of it
  follows its place (`AloneIsWhole`). That the loop over the names ends within as many as
  there are uploads is a pigeonhole argument (`NextNameIsOne`). For the
  certificates: a call that met no other has the directory to itself (`LoneIsAlone`), and
  it writes the version only after it has loaded the pair (`LonePairFits`).
* `AgentIsBounded`: a run that goes on has a round and budget left, and each question is one
  more round, whatever the model answers.

**`SettingsProofs`**:

* `TypeOK`, and `OthersKeepTheirs`, an action property: every handler is shown to write to
  the defaults in the shared and common fields alone while a model is selected, and to no
  other model's override.
* `CleanIsStored`: what the panel shows as unchanged is what the files hold, except after a
  reset or a save that stopped half way, for an Option that was cleared, and for a version
  picked for a model whose override holds another. Unless a write failed the files have what the memory has (`FilesFollow`),
  the fields that are no Option are set everywhere (`PlainAreSet`), and the snapshot the
  panel is compared with is what was loaded (`SnapshotIsLoaded`).
* `ProxyIsTold`, inductive with the types: the picker's copy and the proxy's copy must be
  followed together, since each key writes both from different sources.
* `EditorsAreSound`: the setup of a sweep (`SetupInv`), the panel (`FieldsInv`: every row
  holds a number it may hold, the selected row is shown) and the lists (`ListsInv`). The
  tests of a range that ends rise (`WholeRises`, `ConvertedRises`) to its end, and where
  whole numbers from 0 on that the parameter has were typed, none is tested twice
  (`ConvertedIsExact`).
* `NamesComeBack`: making a key and splitting it are recursive functions over the positions
  of a name. Each is shown to be a *reading*, whose first part is followed by the reading
  of the rest; the key comes back by induction on the length of the name, for every
  alphabet without the escapes; the profile comes back because a profile's name has no
  separator, so that the last one in the key is the one that was put there.

**`TerminalProofs`**:

* `ServicesAreCurrent`: what was noted of the dashboard and recorded of the proxy is what
  they were given (`DashIsNoted`, `ProxyIsRecorded`), and after the ticks what is
  configured (`NotedIsConfigured`, `RecordedIsCurrent`).
* `FilesAgree` is inductive as it stands once both stores are maps.
* `RunsAsSet`: a server was told its settings when it started (`SingleTold`, `RouterTold`),
  and no later edit reaches it. That a load of a panel that was not changed gives the same
  as the panel needs that the panel was what is saved, but for Options that were cleared
  and what the pickers changed in both (`ShownIsSaved`, `Near`, in `ArgumentsInv`).
* `TokensAreCounted`: a stream cut anywhere gives the tokens of the whole (`ChunkCounts`), by
  `RequestsInv`, which has the buffered rest of a line for each request; no sample has
  more tokens than were counted, and a rate spans `MinSpan` at least (`TrackerInv`).
* `EscLeaves`: each Esc lowers the `Depth` of a screen, the number of things Esc has to
  close, and no screen that can be reached (`SaneScreens`) has a depth above 11.
* `ResultsAreThePages`: the request under way is the one for the page that was counted
  (`WaitsForItsPage`), without which a page would be appended after a hole; the pages
  before it are there (`PagesAreThere`) and no model is there twice (`Once`). A page put in
  order has as many places as models by an argument about their `Rank`.

The library's theorems about induction and about recursive functions have an operator as a
parameter, and no installed prover can instantiate those. `SetInduction` and `Recursion` in
`SettingsProofs` say the same of a set and of a function, from well-foundedness alone; the
proofs above use them. The parts of `MCTerminal` and `MCHeadless` are lifted to the whole
specification by one lemma each (`StepIsOfItsPart` and its like): a step of the whole is a
step of the part that is live, or changes nothing of it.

Every safety property of a passing run, invariant or action property, is stated by a
theorem. Only model-checked are the nine properties under fairness: `CrashIsAnnounced`,
`KillEndsChild`, `CrashIsNoticed`, `EndedEntryGoes`, `ResolvingEnds`, `SweepsEnd`,
`OutputFlows`, `Returns`, `AgentEnds`. They rest on ENABLED, which the proof system does
not reason about. What of them is safety is proved for seven: `NoticeIsKept`, `EndIsShown`,
`WaitsForATask`, `NearsItsEnd`, `RoundsAreCounted`, `OutputCanFlow`, `CanReturn`. In each
case the rest is that a task which can go on does go on.

## 5. Plan

What is left, in order of importance:

1. Startup and exit of the program around a server whose exit channel an earlier kill took
   (main.rs:537), and the byte two tasks of a download store to (hub.rs:455), each with a
   property that holds of what the code does keep.
2. The rest of the dialogs' choices, where a part of the program reads them.
3. What the parts modelled in part leave out: the deletion of models beside a download, an
   upload whose handler is dropped with its connection, the tools of the agent.

## 6. Not modelled

Pure data or reads, without a protocol: rendering (what is drawn is a function of the
state, only which overlay is on top is modelled), the message tables, parsing of log
lines and of GGUF, the probing of the hardware, the estimates of memory in
`src/models.rs`, command lines and HTTP bodies, the HTML pages, the texts of the web
search. Separate programs: the orchestrator extension, llm-acme, the GNOME extension.
`PROJECT.json` gives the reason for each component and says what is left out of those
that are modelled in part.

Known limits of what is modelled:

* `BackendInstall` says nothing of a release two tasks work on at one time; that they
  do, and that the loop stands still while a key handler resolves, is in the model.
* `BenchTune` lets sweeps overlap and says nothing of what such sweeps measure.
* `Screens`: an Esc that stops a benchmark counts as one that leaves nothing.
* `Proxy`: the limit of 64 KB for a line without an end, and the images and query strings a
  rewritten question loses, are left out.
* `Serve`: clients that keep the graceful shutdown waiting are one client that may leave.
* `BenchSetup` has no rounding within f64, and no range that ends but is too long for memory.
* `ServerArgs` leaves out the RPC workers and the tensor split they extend, models with an
  active settings profile (`load` is about those), the metadata yarn overrides with the
  context, and the system prompt that is merged into the template's arguments; it says nothing of what an Option that was cleared over a
  default, or a flag that is off, comes to.
* The numbers shown with a download, and two display names for one model, are left out.
