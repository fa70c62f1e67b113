-------------------------- MODULE ServerLifecycle --------------------------
(***************************************************************************)
(* The life of llama-server processes as the TUI manages them: the main    *)
(* loop of src/main.rs and the App handlers it calls (spawning, load       *)
(* completion, router load and unload, crash detection, kill, exit), with  *)
(* the processes, the spawn tasks and the polling tasks running beside it. *)
(*                                                                         *)
(* Each spawn request gets a number.  A process and its spawn task are     *)
(* used through the contract that ServerProcess implements: an accepted    *)
(* kill ends the process, and its exit is announced once, after its death. *)
(* The main loop is sequential: pc names the handler that runs next.  The  *)
(* server mode does not change while the model runs, and mode BenchTune,   *)
(* whose sweep spawns its own servers, is not part of this module.         *)
(***************************************************************************)
EXTENDS Integers, FiniteSets, Sequences

CONSTANTS
    Models,     \* the discovered models
    Modes,      \* the server modes to start in
    MaxSpawn,   \* bound: spawn requests of one session
    MaxLoads,   \* bound: load requests sent to routers in one session
    MaxActive,  \* max_concurrent_predictions
    PlainIds,   \* models whose router id is their display name
    NoModel     \* not a model

ASSUME ModelsAssumption == NoModel \notin Models /\ PlainIds \subseteq Models
ASSUME ModesAssumption == Modes \subseteq {"Normal", "Router", "Bench"}
ASSUME BoundAssumption == MaxSpawn \in Nat \ {0} /\ MaxLoads \in Nat /\ MaxActive \in Nat

Server == 1..MaxSpawn
None == 0                       \* no server
MaybeServer == Server \cup {None}
MaybeModel == Models \cup {NoModel}
Status == {"unloaded", "loading", "loaded", "error"}

VARIABLES
    mode,       \* server_mode
    pc,         \* the handler of the main loop that runs next
    proc,       \* server |-> "none", "spawning", "failed", "starting",
                \*   "ready" (answers /health), "dead", "gone" (announced)
    killed,     \* servers with an accepted kill request
    model,      \* server |-> the model it was spawned with
    exitMsg,    \* servers whose exit notification waits in their channel
    spawns,     \* how many spawn requests were processed
    loads,      \* how many load requests were sent
    spawnTask,  \* spawn_task_handle
    handle,     \* server_handle
    exitRx,     \* server_exit_rx: whose exit the app can still learn of
    ready,      \* server_ready
    spawned,    \* whose display name is in spawned_model_name
    queue,      \* the pending event channel
    pendKill,   \* pending_kill
    killRx,     \* the receiver ensure_killed waits on
    pendLoad,   \* pending_api_load
    pendUnload, \* pending_api_unload
    confirm,    \* the model of an open unload confirmation
    agreed,     \* history: the user said yes to the pending unload
    lines,      \* what server_log_rx holds of "listening" and "error" lines
    mstate,     \* model_states; a missing entry is "Available"
    names,      \* loaded_model_names
    phases,     \* ServerListening and Complete in loading_phases
    poll,       \* the health poll: "none", "polling", "done" (message sent)
    rstatus,    \* model |-> its status in the router
    syncTask,   \* the server sync_task_handle polls
    snap,       \* the list of models waiting in sync_rx, << >> if none
    loading,    \* /models/load requests under way, with the spawns of their time
    loadErr,    \* models named in api_load_error_rx
    unloading   \* router servers with an unload task under way, with the model

procVars == <<proc, killed, model, exitMsg>>
taskVars == <<spawns, loads, spawnTask>>
handleVars == <<handle, exitRx, ready, spawned>>
pendVars == <<queue, pendKill, killRx, pendLoad, pendUnload, confirm, agreed>>
modelVars == <<mstate, names, phases, poll>>
routerVars == <<rstatus, loading, loadErr, unloading>>
feedVars == <<syncTask, snap, lines>>
vars == <<mode, pc, procVars, taskVars, handleVars, pendVars, modelVars,
          routerVars, feedVars>>

Event == [kind : {"Spawn"}, model : MaybeModel]
         \cup [kind : {"KillHandle"}, server : Server]

TypeOK ==
    /\ mode \in Modes
    /\ pc \in {"logs", "sync", "completion", "exit", "drain", "spawned", "load",
               "unload", "kill", "killing", "key", "exiting", "exited"}
    /\ proc \in [Server -> {"none", "spawning", "failed", "starting", "ready",
                            "dead", "gone"}]
    /\ killed \in SUBSET Server
    /\ model \in [Server -> MaybeModel]
    /\ exitMsg \in SUBSET Server
    /\ spawns \in 0..MaxSpawn
    /\ loads \in 0..MaxLoads
    /\ spawnTask \in MaybeServer
    /\ handle \in MaybeServer
    /\ exitRx \in MaybeServer
    /\ ready \in BOOLEAN
    /\ spawned \in MaybeServer
    /\ queue \in Seq(Event)
    /\ pendKill \in MaybeServer
    /\ killRx \in MaybeServer
    /\ pendLoad \in MaybeModel
    /\ pendUnload \in MaybeModel
    /\ confirm \in MaybeModel
    /\ agreed \in BOOLEAN
    /\ lines \subseteq {"listening", "error"}
    /\ mstate \in [Models -> {"Available", "Loading", "Loaded", "Benchmarking", "Failed"}]
    /\ names \in SUBSET Models
    /\ phases \in SUBSET {"ServerListening", "Complete"}
    /\ poll \in {"none", "polling", "done"}
    /\ rstatus \in [Models -> Status]
    /\ syncTask \in MaybeServer
    /\ snap \in {<< >>} \cup [Models -> Status]
    /\ loading \in SUBSET (MaybeServer \X Models)
    /\ loadErr \in SUBSET Models
    /\ unloading \in SUBSET (Server \X Models)

Init ==
    /\ mode \in Modes
    /\ pc = "key"
    /\ proc = [g \in Server |-> "none"]
    /\ killed = {}
    /\ model = [g \in Server |-> NoModel]
    /\ exitMsg = {}
    /\ spawns = 0 /\ loads = 0 /\ spawnTask = None
    /\ handle = None /\ exitRx = None /\ ready = FALSE /\ spawned = None
    /\ queue = << >>
    /\ pendKill = None /\ killRx = None
    /\ pendLoad = NoModel /\ pendUnload = NoModel
    /\ confirm = NoModel /\ agreed = FALSE
    /\ mstate = [m \in Models |-> "Available"]
    /\ names = {}
    /\ phases = {}
    /\ poll = "none"
    /\ rstatus = [m \in Models |-> "unloaded"]
    /\ syncTask = None /\ snap = << >> /\ lines = {}
    /\ loading = {} /\ loadErr = {} /\ unloading = {}

-----------------------------------------------------------------------------
(* Processes and spawn tasks, outside the main loop.  The model ends with    *)
(* the program: what a process left behind does then is not followed.       *)

Alive(g) == proc[g] \in {"starting", "ready"}
Up == pc # "exited"
Answering == {g \in Server : proc[g] = "ready"}     \* who owns the port

EnvUnchanged == UNCHANGED <<mode, pc, taskVars, handleVars, pendVars, modelVars>>

\* spawn_server: the port must be free; llama-bench needs no port.
SpawnSucceeds(g) ==
    /\ Up
    /\ proc[g] = "spawning"
    /\ mode # "Bench" => Answering = {}
    /\ proc' = [proc EXCEPT ![g] = "starting"]
    /\ EnvUnchanged /\ UNCHANGED <<killed, model, exitMsg, routerVars, feedVars>>

SpawnFails(g) ==
    /\ Up
    /\ proc[g] = "spawning"
    /\ proc' = [proc EXCEPT ![g] = "failed"]
    /\ EnvUnchanged /\ UNCHANGED <<killed, model, exitMsg, routerVars, feedVars>>

\* The model is loaded, or the router accepts requests.  The log line that
\* says so is lost when the log channel is full or belongs to an older server.
BecomesReady(g) ==
    /\ Up
    /\ proc[g] = "starting"
    /\ mode # "Bench"
    /\ Answering = {}
    /\ proc' = [proc EXCEPT ![g] = "ready"]
    /\ rstatus' = [m \in Models |-> "unloaded"]
    /\ lines' \in {lines} \cup {lines \cup {"listening"} : n \in {g} \cap {spawns}}
    /\ EnvUnchanged
    /\ UNCHANGED <<killed, model, exitMsg, loading, loadErr, unloading, syncTask, snap>>

\* A line that is_loading_error matches, of the load or of anything else.  The
\* last lines are still read after the process died.
LogsError(g) ==
    /\ Up
    /\ proc[g] \in {"starting", "ready", "dead"}
    /\ g = spawns
    /\ lines' = lines \cup {"error"}
    /\ EnvUnchanged /\ UNCHANGED <<procVars, routerVars, syncTask, snap>>

\* A crash, out of memory, the end of a benchmark.
Dies(g) ==
    /\ Up
    /\ Alive(g)
    /\ proc' = [proc EXCEPT ![g] = "dead"]
    /\ EnvUnchanged /\ UNCHANGED <<killed, model, exitMsg, routerVars, feedVars>>

\* The spawn task carries out an accepted kill request.
IsKilled(g) ==
    /\ Up
    /\ g \in killed
    /\ Alive(g)
    /\ proc' = [proc EXCEPT ![g] = "dead"]
    /\ EnvUnchanged /\ UNCHANGED <<killed, model, exitMsg, routerVars, feedVars>>

\* The exit notification is lost when nobody has the receiver any more.
Announces(g) ==
    /\ Up
    /\ proc[g] = "dead"
    /\ proc' = [proc EXCEPT ![g] = "gone"]
    /\ exitMsg' = IF g \in {exitRx, killRx} THEN exitMsg \cup {g} ELSE exitMsg
    /\ EnvUnchanged /\ UNCHANGED <<killed, model, routerVars, feedVars>>

\* The health poll asks the port, whichever server owns it.
PollSucceeds ==
    /\ Up
    /\ poll = "polling"
    /\ Answering # {}
    /\ poll' = "done"
    /\ UNCHANGED <<mode, pc, procVars, taskVars, handleVars, pendVars, mstate, names,
                   phases, routerVars, feedVars>>

\* A router loads models one request at a time; a load may fail.
RouterStep ==
    /\ Up
    /\ mode = "Router"
    /\ Answering # {}
    /\ \E m \in Models :
        /\ rstatus[m] = "loading"
        /\ \E s \in {"loaded", "error"} : rstatus' = [rstatus EXCEPT ![m] = s]
    /\ lines' \in {lines} \cup {lines \cup {"listening"} : n \in Answering \cap {spawns}}
    /\ EnvUnchanged /\ UNCHANGED <<procVars, loading, loadErr, unloading, syncTask, snap>>

\* load_model, run by the task that try_execute_api_load spawned.  A failure is
\* logged, in some languages with words is_loading_error looks for, and then
\* reported; both channels are gone once another server was asked for.
LoadRequest(g, m) ==
    /\ Up
    /\ <<g, m>> \in loading
    /\ loading' = loading \ {<<g, m>>}
    /\ \/ /\ Answering # {} /\ mode = "Router"
          /\ rstatus' = [rstatus EXCEPT ![m] = IF @ = "loaded" THEN @ ELSE "loading"]
          /\ UNCHANGED loadErr
          /\ UNCHANGED lines
       \/ /\ loadErr' = IF g = spawns THEN loadErr \cup {m} ELSE loadErr
          /\ lines' \in {lines} \cup {lines \cup {"error"} : n \in {g} \cap {spawns}}
          /\ UNCHANGED rstatus
    /\ EnvUnchanged /\ UNCHANGED <<procVars, unloading, syncTask, snap>>

\* The unload task: /models/unload, whose errors are ignored, then the kill.
\* What follows in the task only repeats the kill.
UnloadRequest(g, m) ==
    /\ Up
    /\ <<g, m>> \in unloading
    /\ unloading' = unloading \ {<<g, m>>}
    /\ rstatus' = IF Answering # {} THEN [rstatus EXCEPT ![m] = "unloaded"] ELSE rstatus
    /\ killed' = IF Alive(g) THEN killed \cup {g} ELSE killed
    /\ EnvUnchanged /\ UNCHANGED <<proc, model, exitMsg, loading, loadErr, feedVars>>

\* sync_polling_task; only a router reports a status.
SyncPoll ==
    /\ Up
    /\ syncTask # None
    /\ snap = << >>
    /\ mode = "Router"
    /\ Answering # {}
    /\ snap' = rstatus
    /\ EnvUnchanged /\ UNCHANGED <<procVars, routerVars, syncTask, lines>>

-----------------------------------------------------------------------------
(* The main loop.  The handlers run in the order of Handlers, one after the *)
(* other; the processes and tasks above run between any two of them.  A     *)
(* handler that finds nothing to do is passed over: what it reads is        *)
(* changed by no other handler before it, so to come a little later to a    *)
(* handler already passed is to come in the next turn.                      *)

Loading(m) == mstate[m] = "Loading"
AnyLoading == \E m \in Models : Loading(m)

Handlers == <<"logs", "sync", "completion", "exit", "drain", "spawned", "load",
              "unload", "kill", "key">>

HasWork ==
    [logs |-> lines # {},
     sync |-> snap # << >>,
     completion |-> /\ "ServerListening" \in phases /\ "Complete" \notin phases
                    /\ poll = "done" \/ (poll = "none" /\ handle # None),
     exit |-> exitRx \in exitMsg,
     drain |-> queue # << >>,
     spawned |-> spawnTask # None,
     load |-> loadErr # {} \/ (ready /\ pendLoad # NoModel),
     unload |-> confirm = NoModel /\ pendUnload # NoModel,
     kill |-> pendKill # None,
     key |-> TRUE]

\* The next handler that has work, from the first'th on.
GoOn(first) ==
    \E j \in first..Len(Handlers) :
        /\ HasWork'[Handlers[j]]
        /\ \A k \in first..(j - 1) : ~HasWork'[Handlers[k]]
        /\ pc' = Handlers[j]

\* reset_loading_state, applied to the given model states and loaded names; it
\* also clears phases.  Whatever was loading failed; after a crash, whatever was
\* loaded too.
FailLoadsOf(states, loadedNames, isCrash) ==
    LET toFail == {m \in Models : \/ states[m] \in {"Loading", "Benchmarking"}
                                  \/ isCrash /\ states[m] = "Loaded"}
    IN /\ mstate' = [m \in Models |-> IF m \in toFail THEN "Failed" ELSE states[m]]
       /\ names' = loadedNames \ toFail
       /\ poll' = "none"

FailLoads(isCrash) == FailLoadsOf(mstate, names, isCrash)

\* tick_server_logs: each line goes through add_log.  An error line resets the
\* loading state of every model; the other line may come before or after it.  A
\* tick that its throttle skips amounts to lines that come later.
TickServerLogs ==
    /\ pc = "logs"
    /\ LET listening == IF "listening" \in lines THEN {"ServerListening"} ELSE {}
       IN IF "error" \in lines /\ AnyLoading
          THEN FailLoads(FALSE) /\ phases' \in {{}, listening}
          ELSE phases' = phases \cup listening /\ UNCHANGED <<mstate, names, poll>>
    /\ lines' = {}
    /\ UNCHANGED <<mode, procVars, taskVars, handleVars, pendVars, routerVars, syncTask, snap>>
    /\ GoOn(2)

\* What tick_sync makes of the router's list: "error" counts only for a model
\* the app holds for loading or loaded.
Synced(m) ==
    CASE snap[m] = "loading" -> "Loading"
      [] snap[m] = "loaded" -> "Loaded"
      [] snap[m] = "error" /\ mstate[m] \in {"Loading", "Loaded"} -> "Failed"
      [] OTHER -> mstate[m]

\* Mutant: only failures change the list of loaded models.
SyncedNamesOnlyRemoves(failed) == names \ failed

SyncedNames(failed) == (names \ failed) \cup {m \in Models : snap[m] = "loaded"}

\* tick_sync.  The phases are cleared when a model fails and no other one is
\* loading at its place in the list.  Each failure is then logged: in some
\* languages is_loading_error matches the message, which resets every model
\* that is loading.
TickSync ==
    /\ pc = "sync"
    /\ snap' = << >>
    /\ LET states == [m \in Models |-> Synced(m)]
           failed == {m \in Models : states[m] = "Failed" /\ mstate[m] # "Failed"}
           before == {m \in Models \ failed : Loading(m)}
           after == {m \in Models \ failed : states[m] = "Loading"}
       IN IF handle = None
          THEN UNCHANGED <<mstate, names, phases, poll>>
          ELSE \/ /\ mstate' = states
                  /\ names' = SyncedNames(failed)
                  /\ phases' \in {phases, {}}
                  /\ failed = {} \/ before \cap after # {} => phases' = phases
                  /\ failed # {} /\ before \cup after = {} => phases' = {}
                  /\ UNCHANGED poll
               \/ /\ failed # {} /\ after # {}
                  /\ FailLoadsOf(states, SyncedNames(failed), FALSE)
                  /\ phases' = {}
    /\ UNCHANGED <<mode, procVars, taskVars, handleVars, pendVars, routerVars,
                   syncTask, lines>>
    /\ GoOn(3)

\* The sync tick runs at most once a second.
TickSyncThrottled ==
    /\ pc = "sync"
    /\ UNCHANGED <<mode, procVars, taskVars, handleVars, pendVars, modelVars,
                   routerVars, feedVars>>
    /\ GoOn(3)

\* Which model the completed load was for: a loading model the router lists as
\* loaded under its display name, else the model the server was spawned with.
CompletedLoad ==
    LET listed == IF snap = << >> THEN {}
                  ELSE {m \in PlainIds : snap[m] = "loaded" /\ Loading(m)}
    IN IF listed # {} THEN listed
       ELSE IF spawned # None THEN {m \in Models : m = model[spawned] /\ Loading(m)}
       ELSE {}

\* The health poll has answered: tick_loading_completion ends every load and
\* marks one model as loaded.
FinishLoading ==
    /\ phases' = {"Complete"}
    /\ poll' = "none"
    /\ IF handle # None
       THEN /\ snap' = << >>
            /\ LET rest == [m \in Models |-> IF Loading(m) THEN "Available" ELSE mstate[m]]
               IN IF CompletedLoad = {}
                  THEN mstate' = rest /\ UNCHANGED names
                  ELSE \E t \in CompletedLoad :
                          /\ mstate' = [rest EXCEPT ![t] = "Loaded"]
                          /\ names' = names \cup {t}
       ELSE UNCHANGED <<snap, mstate, names>>

TickLoadingCompletion ==
    /\ pc = "completion"
    /\ IF poll = "done"
       THEN FinishLoading
       ELSE poll' = "polling" /\ UNCHANGED <<mstate, names, phases, snap>>
    /\ UNCHANGED <<mode, procVars, taskVars, handleVars, pendVars, routerVars,
                   syncTask, lines>>
    /\ GoOn(4)

\* Mutant: the exit of a server only concerns what it was loading.
AfterExitKeepsLoaded(m) ==
    CASE mstate[m] = "Loading" -> "Failed"
      [] mstate[m] = "Benchmarking" -> IF mode = "Bench" THEN "Available" ELSE "Failed"
      [] OTHER -> mstate[m]

\* The state of a model after its server's exit was noticed.
AfterExit(m) ==
    CASE mstate[m] = "Loading" -> "Failed"
      [] mstate[m] = "Loaded" -> "Available"
      [] mstate[m] = "Benchmarking" -> IF mode = "Bench" THEN "Available" ELSE "Failed"
      [] OTHER -> mstate[m]

TickServerExit ==
    /\ pc = "exit"
    /\ exitMsg' = exitMsg \ {exitRx}
    /\ handle' = None /\ ready' = FALSE
    /\ syncTask' = None
    /\ mstate' = [m \in Models |-> AfterExit(m)]
    /\ names' = {}
    /\ phases' = {}
    /\ UNCHANGED <<mode, proc, killed, model, taskVars, exitRx, spawned, pendVars, poll,
                   routerVars, snap, lines>>
    /\ GoOn(5)

\* process_pending_spawn replaces the channels of the previous server and
\* forgets a spawn task under way.  Without a router preset no task starts.
ProcessPendingSpawn(m) ==
    LET g == spawns + 1
    IN /\ spawns' = g
       /\ exitRx' = g
       /\ exitMsg' = exitMsg \ {exitRx}
       /\ loadErr' = {}
       /\ lines' = {}
       /\ mstate' = [x \in Models |->
                        IF x # m THEN mstate[x]
                        ELSE IF mode = "Bench" THEN "Benchmarking" ELSE "Loading"]
       /\ \/ /\ proc' = [proc EXCEPT ![g] = "spawning"]
             /\ model' = [model EXCEPT ![g] = m]
             /\ spawnTask' = g
          \/ mode = "Router" /\ UNCHANGED <<proc, model, spawnTask>>

\* The pending event channel is drained in order.
DrainQueue ==
    /\ pc = "drain"
    /\ queue # << >>
    /\ queue' = Tail(queue)
    /\ LET e == Head(queue)
       IN \/ /\ e.kind = "Spawn"
             /\ ProcessPendingSpawn(e.model)
             /\ UNCHANGED <<loads, pendKill>>
          \/ /\ e.kind = "KillHandle"
             /\ pendKill' = e.server
             /\ UNCHANGED <<taskVars, exitRx, exitMsg, loadErr, lines, mstate, proc, model>>
    /\ UNCHANGED <<mode, killed, handle, ready, spawned, killRx, pendLoad, pendUnload,
                   confirm, agreed, names, phases, poll, rstatus, loading, unloading,
                   syncTask, snap>>
    /\ GoOn(5)

\* The spawn task is not finished yet.
SpawnPending ==
    /\ pc = "spawned"
    /\ proc[spawnTask] = "spawning"
    /\ UNCHANGED <<mode, procVars, taskVars, handleVars, pendVars, modelVars,
                   routerVars, feedVars>>
    /\ GoOn(7)

\* tick_spawn_result, once the task is finished.  On failure the remaining
\* lines of the log channel are read too.
TickSpawnResult ==
    /\ pc = "spawned"
    /\ proc[spawnTask] # "spawning"
    /\ spawnTask' = None
    /\ IF proc[spawnTask] = "failed"
       THEN /\ handle' = None /\ ready' = FALSE
            /\ FailLoads(TRUE) /\ phases' = {}
            /\ lines' = {}
            /\ UNCHANGED <<spawned, syncTask, snap>>
       ELSE /\ handle' = spawnTask /\ ready' = TRUE
            /\ spawned' = spawnTask
            /\ phases' = {"ServerListening"}
            /\ syncTask' = spawnTask /\ snap' = << >>
            /\ UNCHANGED <<mstate, names, poll, lines>>
    /\ UNCHANGED <<mode, procVars, spawns, loads, exitRx, pendVars, routerVars>>
    /\ GoOn(7)

\* try_execute_api_load: first the failures of earlier loads, each of which
\* resets every loading model, then the pending load.
TryExecuteApiLoad ==
    /\ pc = "load"
    /\ loadErr' = {}
    /\ LET failed == \E m \in loadErr : Loading(m)
           start == ready /\ pendLoad # NoModel /\ handle # None
           giveUp == ready /\ pendLoad # NoModel /\ handle = None /\ spawnTask = None
       IN /\ IF failed \/ giveUp
             THEN /\ names' = names \ {m \in Models : mstate[m] \in {"Loading", "Benchmarking"}}
                  /\ phases' = {} /\ poll' = "none"
             ELSE UNCHANGED <<names, phases, poll>>
          /\ mstate' = [m \in Models |->
                IF start /\ m = pendLoad THEN "Loading"
                ELSE IF (failed \/ giveUp) /\ mstate[m] \in {"Loading", "Benchmarking"}
                     THEN "Failed" ELSE mstate[m]]
          /\ pendLoad' = IF start \/ giveUp THEN NoModel ELSE pendLoad
          /\ loading' = IF start THEN loading \cup {<<spawns, pendLoad>>} ELSE loading
          /\ loads' = IF start THEN loads + 1 ELSE loads
          /\ snap' = IF start THEN << >> ELSE snap
    /\ UNCHANGED <<mode, procVars, spawns, spawnTask, handleVars, queue, pendKill, killRx, pendUnload,
                   confirm, agreed, rstatus, unloading, syncTask, lines>>
    /\ GoOn(8)

\* try_execute_api_unload: dropped without a server.  Normal mode kills; a
\* router is asked to unload and killed by a task beside the loop.
TryExecuteApiUnload ==
    /\ pc = "unload"
    /\ pendUnload' = NoModel
    /\ agreed' = FALSE
    /\ IF handle = None
       THEN UNCHANGED <<pendKill, unloading, mstate, names>>
       ELSE /\ IF mode = "Normal"
               THEN pendKill' = handle /\ UNCHANGED unloading
               ELSE /\ unloading' = unloading \cup {<<handle, pendUnload>>}
                    /\ UNCHANGED pendKill
            /\ mstate' = [mstate EXCEPT ![pendUnload] = "Available"]
            /\ names' = names \ {pendUnload}
    /\ UNCHANGED <<mode, procVars, taskVars, handleVars, queue, killRx, pendLoad, confirm,
                   phases, poll, rstatus, loading, loadErr, feedVars>>
    /\ GoOn(9)

\* kill_server; the request is refused once the spawn task is gone.
Ask(g) == killed' = IF Alive(g) THEN killed \cup {g} ELSE killed

\* process_pending_kill up to the await in ensure_killed.
ProcessPendingKill ==
    /\ pc = "kill"
    /\ pc' = "killing"
    /\ Ask(pendKill)
    /\ killRx' = exitRx
    /\ exitRx' = None
    /\ UNCHANGED <<mode, proc, model, exitMsg, taskVars, handle, ready, spawned, queue,
                   pendKill, pendLoad, pendUnload, confirm, agreed, modelVars,
                   routerVars, feedVars>>

\* The message arrives, or cannot arrive within the five seconds and the
\* process is found gone or gets a SIGKILL.  A kill request is assumed to be
\* carried out within that time.
Ensured ==
    \/ /\ killRx \in exitMsg
       /\ UNCHANGED proc
    \/ /\ killRx = pendKill => proc[pendKill] = "gone" /\ killRx \notin exitMsg
       /\ proc' = IF Alive(pendKill) THEN [proc EXCEPT ![pendKill] = "dead"] ELSE proc

\* Mutant: failed models are reset with the others.
AfterKillForgetsErrors(m) == IF spawnTask = None THEN "Available" ELSE mstate[m]

\* The state of a model after a kill; a spawn under way keeps the states.
AfterKill(m) ==
    IF spawnTask = None /\ mstate[m] # "Failed" THEN "Available" ELSE mstate[m]

\* The rest of process_pending_kill.
FinishPendingKill ==
    /\ pc = "killing"
    /\ pc' = "key"
    /\ Ensured
    /\ exitMsg' = exitMsg \ {killRx}
    /\ pendKill' = None /\ killRx' = None
    /\ handle' = None /\ ready' = FALSE
    /\ syncTask' = None /\ snap' = << >>
    /\ mstate' = [m \in Models |-> AfterKill(m)]
    /\ names' = {}
    /\ phases' = {}
    /\ UNCHANGED <<mode, killed, model, taskVars, exitRx, spawned, queue, pendLoad,
                   pendUnload, confirm, agreed, poll, routerVars, lines>>

-----------------------------------------------------------------------------
(* The key handled at the end of each turn, and the exit of the program.    *)

\* Mutant: the app counts as idle although it has a server.
IdleDespiteServer ==
    /\ ~AnyLoading
    /\ spawnTask = None /\ pendKill = None
    /\ pendLoad = NoModel /\ pendUnload = NoModel /\ confirm = NoModel

\* is_truly_idle: the ticks are skipped.
Idle ==
    /\ ~AnyLoading
    /\ handle = None /\ spawnTask = None /\ pendKill = None
    /\ pendLoad = NoModel /\ pendUnload = NoModel /\ confirm = NoModel

NextTurn == GoOn(IF Idle' THEN 5 ELSE 1)

KeyUnchanged == UNCHANGED <<mode, procVars, taskVars, exitRx, ready, spawned, pendKill,
                            killRx, routerVars, feedVars>>

NoKey ==
    /\ pc = "key"
    /\ KeyUnchanged
    /\ UNCHANGED <<handle, queue, pendLoad, pendUnload, confirm, agreed, modelVars>>
    /\ NextTurn

KillEvent == [kind |-> "KillHandle", server |-> handle]
SpawnEvent(m) == [kind |-> "Spawn", model |-> m]
SpawnsAsked == spawns + Cardinality({i \in DOMAIN queue : queue[i].kind = "Spawn"})

\* Mutant: Normal mode starts a second model beside the loaded one.
AnotherLoadedIgnored == FALSE

AnotherLoaded == mode = "Normal" /\ \E x \in Models : mstate[x] = "Loaded"

\* Mutant: the kill request goes out with a clone of the handle.
TakeHandleClones(giveUp) == handle

\* server_handle.take() for the kill request.
TakeHandle(giveUp) == IF giveUp THEN None ELSE handle

\* max_concurrent_predictions bounds the models loaded or loading.
BelowLimit ==
    Cardinality({x \in Models : mstate[x] \in {"Loaded", "Loading"}}) < MaxActive

\* Enter or l in the models panel.  A server that does not answer is given
\* up, and in Normal mode every server is.  MaxSpawn and MaxLoads bound
\* what is asked for.
LoadKey(m) ==
    /\ pc = "key" /\ confirm = NoModel
    /\ mstate[m] \notin {"Loaded", "Loading"}
    /\ \E healthy \in IF Answering = {} THEN {FALSE} ELSE BOOLEAN :
        LET giveUp == handle # None /\ (~healthy \/ (mode = "Normal" /\ ~AnotherLoaded))
            kills == IF giveUp THEN Append(queue, KillEvent) ELSE queue
        IN /\ handle' = TakeHandle(giveUp)
           /\ \/ AnotherLoaded /\ queue' = kills /\ UNCHANGED <<pendLoad, phases>>
              \/ /\ ~AnotherLoaded /\ (giveUp \/ handle = None)
                 /\ SpawnsAsked < MaxSpawn /\ (mode = "Router" => loads < MaxLoads)
                 /\ queue' = Append(kills, SpawnEvent(IF mode = "Router" THEN NoModel ELSE m))
                 /\ pendLoad' = IF mode = "Router" THEN m ELSE pendLoad
                 /\ phases' = {}
              \/ /\ ~AnotherLoaded /\ ~giveUp /\ handle # None /\ BelowLimit
                 /\ loads < MaxLoads
                 /\ pendLoad' = m
                 /\ phases' = {}
                 /\ UNCHANGED queue
    /\ KeyUnchanged
    /\ UNCHANGED <<pendUnload, confirm, agreed, mstate, names, poll>>
    /\ NextTurn

\* u in the models panel, on a loaded model: the unload is armed at once and
\* waits for the confirmation to close.
UnloadKey(m) ==
    /\ pc = "key" /\ confirm = NoModel
    /\ mstate[m] = "Loaded"
    /\ confirm' = m /\ pendUnload' = m
    /\ KeyUnchanged
    /\ UNCHANGED <<handle, queue, pendLoad, agreed, modelVars>>
    /\ NextTurn

\* u on a failed model.
ClearFailureKey(m) ==
    /\ pc = "key" /\ confirm = NoModel
    /\ mstate[m] = "Failed"
    /\ mstate' = [mstate EXCEPT ![m] = "Available"]
    /\ KeyUnchanged
    /\ UNCHANGED <<handle, queue, pendLoad, pendUnload, confirm, agreed, names, phases, poll>>
    /\ NextTurn

\* on_model_selection_change: the phases follow the selected model.
SelectKey(m) ==
    /\ pc = "key" /\ confirm = NoModel
    /\ mstate[m] \notin {"Loading", "Benchmarking"}
    /\ phases' = IF mstate[m] = "Loaded" THEN phases \cup {"Complete"} ELSE {}
    /\ KeyUnchanged
    /\ UNCHANGED <<handle, queue, pendLoad, pendUnload, confirm, agreed, mstate, names, poll>>
    /\ NextTurn

ConfirmYes ==
    /\ pc = "key" /\ confirm # NoModel
    /\ pendUnload' = confirm /\ agreed' = TRUE
    /\ confirm' = NoModel
    /\ KeyUnchanged
    /\ UNCHANGED <<handle, queue, pendLoad, modelVars>>
    /\ NextTurn

ConfirmNo ==
    /\ pc = "key" /\ confirm # NoModel
    /\ pendUnload' = NoModel
    /\ confirm' = NoModel
    /\ KeyUnchanged
    /\ UNCHANGED <<handle, queue, pendLoad, agreed, modelVars>>
    /\ NextTurn

\* Ctrl+P, Ctrl+U and Ctrl+O open their overlay before the open one is asked.
ConfirmReplaced ==
    /\ pc = "key" /\ confirm # NoModel
    /\ confirm' = NoModel
    /\ KeyUnchanged
    /\ UNCHANGED <<handle, queue, pendLoad, pendUnload, agreed, modelVars>>
    /\ NextTurn

\* Mutant: the key does not look whether there is a server.
KillKeyWithoutServer ==
    /\ pc = "key" /\ confirm = NoModel
    /\ handle' = None
    /\ queue' = Append(queue, KillEvent)
    /\ KeyUnchanged
    /\ UNCHANGED <<pendLoad, pendUnload, confirm, agreed, modelVars>>
    /\ NextTurn

\* Ctrl+Alt+K, and Esc while a benchmark runs in Bench mode.
KillKey ==
    /\ pc = "key" /\ confirm = NoModel
    /\ handle # None
    /\ handle' = None
    /\ queue' = Append(queue, KillEvent)
    /\ KeyUnchanged
    /\ UNCHANGED <<pendLoad, pendUnload, confirm, agreed, modelVars>>
    /\ NextTurn

\* Ctrl+C.  The confirmation that loaded models call for is left out: its no
\* changes nothing here.  Without a server the loop's end is the program's.
QuitKey ==
    /\ pc = "key" /\ confirm = NoModel
    /\ handle' = None
    /\ IF handle = None
       THEN pc' = "exited" /\ UNCHANGED <<killed, killRx, exitRx>>
       ELSE /\ Ask(handle)
            /\ pc' = IF exitRx = None THEN "exited" ELSE "exiting"
            /\ killRx' = exitRx /\ exitRx' = None
    /\ UNCHANGED <<mode, proc, model, exitMsg, taskVars, ready, spawned, queue, pendKill,
                   pendLoad, pendUnload, confirm, agreed, modelVars, routerVars, feedVars>>

\* At most five seconds for the exit notification; the runtime then drops
\* every task.  killed keeps what was asked for.
Exit ==
    /\ pc = "exiting"
    /\ \/ killRx \in exitMsg
       \/ killRx \notin killed \/ (proc[killRx] = "gone" /\ killRx \notin exitMsg)
    /\ pc' = "exited"
    /\ UNCHANGED <<mode, procVars, taskVars, handleVars, pendVars, modelVars,
                   routerVars, feedVars>>

-----------------------------------------------------------------------------
ProcStep(g) ==
    SpawnSucceeds(g) \/ SpawnFails(g) \/ BecomesReady(g) \/ Dies(g)
    \/ IsKilled(g) \/ Announces(g) \/ LogsError(g)

TaskStep ==
    \/ PollSucceeds \/ SyncPoll \/ RouterStep
    \/ \E g \in MaybeServer, m \in Models : LoadRequest(g, m)
    \/ \E g \in Server, m \in Models : UnloadRequest(g, m)

Tick ==
    \/ TickServerLogs \/ TickSync \/ TickSyncThrottled
    \/ TickLoadingCompletion \/ TickServerExit

Key ==
    \/ \E m \in Models : LoadKey(m) \/ UnloadKey(m) \/ ClearFailureKey(m) \/ SelectKey(m)
    \/ ConfirmYes \/ ConfirmNo \/ ConfirmReplaced \/ KillKey \/ QuitKey

LoopStep ==
    \/ Tick \/ DrainQueue \/ SpawnPending \/ TickSpawnResult
    \/ TryExecuteApiLoad \/ TryExecuteApiUnload
    \/ ProcessPendingKill \/ FinishPendingKill
    \/ NoKey \/ Exit

Next == (\E g \in Server : ProcStep(g)) \/ TaskStep \/ LoopStep \/ Key

Spec == Init /\ [][Next]_vars

(***************************************************************************)
(* Fairness.  The loop turns for ever and handles one event per turn; a    *)
(* throttled tick runs on a later turn.  Spawn tasks finish, and what      *)
(* ServerProcess promises is kept: an accepted kill is carried out and an  *)
(* exit is announced.  Polls are repeated as long as they are needed.      *)
(* Nothing obliges a server to become ready, to die or to log, nor a user  *)
(* to press a key.                                                         *)
(***************************************************************************)
Fairness ==
    /\ WF_vars(LoopStep) /\ SF_vars(TickSync)
    /\ \A g \in Server : /\ WF_vars(SpawnSucceeds(g) \/ SpawnFails(g))
                         /\ WF_vars(IsKilled(g)) /\ WF_vars(Announces(g))
    /\ WF_vars(PollSucceeds)

FairSpec == Spec /\ Fairness

-----------------------------------------------------------------------------
(***************************************************************************)
(* Properties.                                                             *)
(***************************************************************************)

\* The app never takes the exit of another server for that of the server it
\* keeps a handle of: server_exit_rx belongs to that server, or is gone, or
\* belongs to a spawn request that never started a process.
ListensToItsServer ==
    handle # None =>
        exitRx \in {None, handle} \/ proc[exitRx] = "none"

\* Normal mode serves a single model, whatever servers were replaced and
\* whichever of them the health poll happened to reach.
OneModelInNormalMode ==
    mode = "Normal" => Cardinality({m \in Models : mstate[m] = "Loaded"}) <= 1

Running == pc \notin {"exiting", "exited"}

\* No model is shown as loaded once the app has lost its server: either the
\* handle is there, or a kill is under way that will reset the model.
KillUnderWay == pendKill # None \/ \E i \in DOMAIN queue : queue[i].kind = "KillHandle"

LoadedHasServer ==
    Running =>
        \A m \in Models : mstate[m] = "Loaded" => handle # None \/ KillUnderWay

\* loaded_model_names, which the metrics and the WebSocket broadcast read,
\* lists every model that is shown as loaded and, but for a router that is
\* asked to load a model again, no other.
NamesAgree ==
    LET loaded == {m \in Models : mstate[m] = "Loaded"}
    IN loaded \subseteq names /\ (mode # "Router" => names \subseteq loaded)

\* The error of a failed load stays on the card until the user acts: neither
\* the server's exit, nor a kill, nor another load wipes it.
FailedIsKept ==
    [][\A m \in Models : mstate[m] = "Failed" /\ mstate'[m] = "Available"
                         => pc \in {"key", "unload"}]_vars

\* The death of the server the app has a handle of and listens to is noticed:
\* the handle goes.  (A server that dies before tick_spawn_result installs its
\* handle is not covered: tick_server_exit has then used up the notification.)
Dying(g) == proc[g] = "dead" \/ g \in exitMsg

CrashIsNoticed ==
    \A g \in Server : handle = g /\ exitRx = g /\ Dying(g) ~> handle # g

\* The same without fairness: nothing the loop does uses up the notice of the death of
\* the server it has a handle of, or the channel it will come through, but the step
\* that gives up the handle.
NoticeIsKept ==
    [][\A g \in Server :
           handle = g /\ handle' = g /\ g \in {exitRx, killRx} /\ Dying(g)
               => g \in {exitRx', killRx'} /\ Dying(g)']_vars

\* A model does not stay in Loading once every server process is gone and no
\* spawn is under way: the card never gets stuck.
Doomed(m) ==
    /\ Running
    /\ mstate[m] = "Loading"
    /\ \A g \in Server : proc[g] # "spawning" /\ ~Alive(g)

NeverStuckLoading == \A m \in Models : Doomed(m) ~> ~Doomed(m)

\* Nothing is unloaded without the user's yes: the unload that u arms is only
\* carried out after the confirmation was answered.
UnloadIsConfirmed ==
    [][pc = "unload" /\ pendUnload # NoModel /\ pendUnload' = NoModel => agreed]_vars

\* The program does not end while the server whose handle it has still runs.
ExitLeavesNoServer ==
    [][pc = "key" /\ handle # None /\ pc' = "exited" => ~Alive(handle)]_vars

\* One server as its spawn task's contract knows it: ServerProcess implements it, and
\* nothing that the app, the other servers or the tasks do is beyond it.
Contract(g) == INSTANCE ServerContract WITH
    alive <- proc[g] \notin {"failed", "dead", "gone"},
    asked <- g \in killed,
    announced <- proc[g] = "gone"

\* Every server is used within its contract.
KeepsContract == \A g \in Server : Contract(g)!Spec

\* The app never holds an exit notification of a process that was not announced.
ExitsAreReal == \A g \in exitMsg : proc[g] = "gone"
=============================================================================
