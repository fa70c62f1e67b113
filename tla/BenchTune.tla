------------------------------ MODULE BenchTune ------------------------------
(***************************************************************************)
(* Benchmark sweeps: run_bench_tune starts one llama-server per            *)
(* combination of parameters, waits for its health, measures it and kills  *)
(* it; the app starts, shows, cancels and leaves sweeps.  Every server     *)
(* takes the one port of the settings, and a cancelled sweep finishes the  *)
(* test it is in.                                                          *)
(***************************************************************************)
EXTENDS Integers, Sequences, FiniteSets

CONSTANTS
    Models,     \* the models of the list
    NoModel,    \* no model
    MaxSweeps,  \* bound: sweeps started in one session
    MaxTests,   \* bound: combinations of a sweep
    Iterations  \* num_iterations

ASSUME BenchAssumption ==
    /\ MaxSweeps \in Nat \ {0} /\ MaxTests \in Nat \ {0} /\ Iterations \in Nat \ {0}
    /\ NoModel \notin Models

Sweeps == 1..MaxSweeps
None == 0                       \* no sweep
Read == "read"                  \* every status sent was read

VARIABLES
    pc,         \* sweep |-> where it is in run_bench_tune
    total,      \* sweep |-> its number of combinations
    test,       \* sweep |-> the test it is in
    good,       \* sweep |-> tests in results
    bad,        \* sweep |-> tests in failed_tests
    verdict,    \* sweep |-> what the iterations of its test gave
    result,     \* sweep |-> what its task returned
    server,     \* sweep |-> the server of its test
    canceled,   \* sweeps whose cancel channel says true
    chan,       \* sweep |-> the last status sent, until it is read
    lone,       \* history: sweeps that never overlapped with another
    foreign,    \* history: sweeps that measured another's server
    pending,    \* the model of a Spawn event that is not drained yet
    of,         \* sweep |-> its model
    handle,     \* bench_tune_task_handle
    rx,         \* the sweep bench_tune_rx belongs to
    cancelTx,   \* the sweep bench_tune_cancel_tx belongs to
    running,    \* bench_tune_running
    progress,   \* bench_tune_progress
    results,    \* the sweep bench_tune_results is of
    view,       \* models_mode: the list or the sweep
    state       \* model |-> its model state

task == <<pc, total, test, good, bad, verdict, result, lone, foreign>>
app == <<pending, of, handle, rx, cancelTx, running, progress, results, view, state>>
vars == <<task, server, canceled, chan, app>>

Place == {"none", "next", "spawn", "health", "measure", "kill", "pause", "sort", "done"}
Status == {"running", "completed", "partial", "cancelled"}

TypeOK ==
    /\ pc \in [Sweeps -> Place]
    /\ total \in [Sweeps -> 0..MaxTests] /\ test \in [Sweeps -> 0..MaxTests]
    /\ \A s \in Sweeps : good[s] + bad[s] \in 0..test[s]
    /\ verdict \in [Sweeps -> {"ok", "error"}] /\ result \in [Sweeps -> {"ok", "error"}]
    /\ server \in [Sweeps -> {"none", "starting", "up", "dying"}]
    /\ canceled \subseteq Sweeps /\ lone \subseteq Sweeps /\ foreign \subseteq Sweeps
    /\ chan \in [Sweeps -> Status \cup {Read}]
    /\ pending \in Models \cup {NoModel} /\ of \in [Sweeps -> Models \cup {NoModel}]
    /\ {handle, rx, cancelTx, results} \subseteq Sweeps \cup {None}
    /\ progress \in (Sweeps \X Status) \cup {<<>>}
    /\ running \in BOOLEAN /\ view \in {"list", "sweep"}
    /\ state \in [Models -> {"available", "benchmarking", "failed"}]

Each(x) == [s \in Sweeps |-> x]

Init ==
    /\ pc = Each("none") /\ total = Each(0) /\ test = Each(0) /\ good = Each(0) /\ bad = Each(0)
    /\ verdict = Each("error") /\ result = Each("error") /\ server = Each("none")
    /\ canceled = {} /\ chan = Each(Read) /\ lone = Sweeps /\ foreign = {}
    /\ pending = NoModel /\ of = Each(NoModel)
    /\ handle = None /\ rx = None /\ cancelTx = None
    /\ running = FALSE /\ progress = <<>> /\ results = None
    /\ view = "list" /\ state = [m \in Models |-> "available"]

Working(s) == pc[s] \notin {"none", "done"}
Newest == Cardinality({s \in Sweeps : pc[s] # "none"})

-----------------------------------------------------------------------------
(* The servers: environment.                                               *)

Listening == {s \in Sweeps : server[s] \in {"up", "dying"}}

\* The server binds the port, or finds it taken and ends.
Starts(s) ==
    /\ server[s] = "starting"
    /\ server' = [server EXCEPT ![s] = IF Listening = {} THEN "up" ELSE "none"]
    /\ UNCHANGED <<task, canceled, chan, app>>

Ends(s) ==
    /\ server[s] = "dying"
    /\ server' = [server EXCEPT ![s] = "none"]
    /\ UNCHANGED <<task, canceled, chan, app>>

\* It cannot load the model, or crashes.
Crashes(s) ==
    /\ server[s] \in {"starting", "up"}
    /\ server' = [server EXCEPT ![s] = "none"]
    /\ UNCHANGED <<task, canceled, chan, app>>

\* kill_server: the request; the process dies later.
Killed(s) == [server EXCEPT ![s] = IF @ = "none" THEN "none" ELSE "dying"]

-----------------------------------------------------------------------------
(* A sweep.                                                                *)

GoTo(s, place) == pc' = [pc EXCEPT ![s] = place]

\* progress_tx.send: an error when the app has replaced the receiver.
Report(s, status, place) ==
    IF rx = s
    THEN /\ chan' = [chan EXCEPT ![s] = status]
         /\ GoTo(s, place)
         /\ result' = [result EXCEPT ![s] = IF place = "done" THEN "ok" ELSE @]
    ELSE /\ GoTo(s, "done") /\ result' = [result EXCEPT ![s] = "error"]
         /\ UNCHANGED chan

\* The cancellation is looked for between tests only.
NextTest(s) ==
    /\ pc[s] = "next" /\ test[s] < total[s]
    /\ IF s \in canceled
       THEN Report(s, "cancelled", "done") /\ UNCHANGED test
       ELSE Report(s, "running", "spawn") /\ test' = [test EXCEPT ![s] = @ + 1]
    /\ UNCHANGED <<total, good, bad, verdict, lone, foreign, server, canceled, app>>

AllTested(s) ==
    /\ pc[s] = "next" /\ test[s] = total[s]
    /\ GoTo(s, "sort")
    /\ UNCHANGED <<total, test, good, bad, verdict, result, lone, foreign, server, canceled, chan, app>>

Finish(s) ==
    /\ pc[s] = "sort"
    /\ Report(s, IF bad[s] > 0 THEN "partial" ELSE "completed", "done")
    /\ UNCHANGED <<total, test, good, bad, verdict, lone, foreign, server, canceled, app>>

TestFails(s) == bad' = [bad EXCEPT ![s] = @ + 1] /\ GoTo(s, "next")

\* Mutant: the port is not looked at.
SpawnAnyway(s) ==
    /\ pc[s] = "spawn"
    /\ GoTo(s, "health") /\ server' = [server EXCEPT ![s] = "starting"] /\ UNCHANGED bad
    /\ UNCHANGED <<total, test, good, verdict, result, lone, foreign, canceled, chan, app>>

\* spawn_server: refused when the port is taken or the binary is missing.
SpawnServer(s) ==
    /\ pc[s] = "spawn"
    /\ \/ /\ Listening = {}
          /\ GoTo(s, "health") /\ server' = [server EXCEPT ![s] = "starting"] /\ UNCHANGED bad
       \/ TestFails(s) /\ UNCHANGED server
    /\ UNCHANGED <<total, test, good, verdict, result, lone, foreign, canceled, chan, app>>

\* The health check asks the port, whoever listens there.
Healthy(s) ==
    /\ pc[s] = "health" /\ Listening # {}
    /\ GoTo(s, "measure")
    /\ foreign' = IF server[s] = "up" THEN foreign ELSE foreign \cup {s}
    /\ UNCHANGED <<total, test, good, bad, verdict, result, lone, server, canceled, chan, app>>

\* Mutant: the server of a failed health check is left alone.
HealthTimeoutOnly(s) ==
    /\ pc[s] = "health" /\ TestFails(s) /\ UNCHANGED server
    /\ UNCHANGED <<total, test, good, verdict, result, lone, foreign, canceled, chan, app>>

\* Mutant: the wait for the health ends only when the server has died.
HealthForever(s) ==
    /\ pc[s] = "health" /\ server[s] = "none"
    /\ TestFails(s) /\ UNCHANGED server
    /\ UNCHANGED <<total, test, good, verdict, result, lone, foreign, canceled, chan, app>>

HealthTimeout(s) ==
    /\ pc[s] = "health"
    /\ TestFails(s) /\ server' = Killed(s)
    /\ UNCHANGED <<total, test, good, verdict, result, lone, foreign, canceled, chan, app>>

\* A test counts when its first iteration gave an answer; later ones may fail.
Outcome(answers) == IF answers[1] THEN "ok" ELSE "error"

\* run_iteration_loop, within test_timeout
Measure(s) ==
    /\ pc[s] = "measure"
    /\ \E answers \in [1..Iterations -> BOOLEAN] :
           /\ Listening = {} => \A i \in 1..Iterations : ~answers[i]
           /\ verdict' = [verdict EXCEPT ![s] = Outcome(answers)]
    /\ GoTo(s, "kill")
    /\ UNCHANGED <<total, test, good, bad, result, lone, foreign, server, canceled, chan, app>>

TestTimeout(s) ==
    /\ pc[s] = "measure"
    /\ TestFails(s) /\ server' = Killed(s)
    /\ UNCHANGED <<total, test, good, verdict, result, lone, foreign, canceled, chan, app>>

Kill(s) ==
    /\ pc[s] = "kill"
    /\ server' = Killed(s) /\ GoTo(s, "pause")
    /\ UNCHANGED <<total, test, good, bad, verdict, result, lone, foreign, canceled, chan, app>>

\* Mutant: a test without an answer is counted nowhere.
PauseAndForget(s) ==
    /\ pc[s] = "pause" /\ GoTo(s, "next") /\ UNCHANGED bad
    /\ good' = IF verdict[s] = "ok" THEN [good EXCEPT ![s] = @ + 1] ELSE good
    /\ UNCHANGED <<total, test, verdict, result, lone, foreign, server, canceled, chan, app>>

\* Mutant: an answered test counts as failed as well.
PauseAndFail(s) ==
    /\ pc[s] = "pause" /\ TestFails(s)
    /\ good' = IF verdict[s] = "ok" THEN [good EXCEPT ![s] = @ + 1] ELSE good
    /\ UNCHANGED <<total, test, verdict, result, lone, foreign, server, canceled, chan, app>>

\* One second later, whether or not the server has gone.
Pause(s) ==
    /\ pc[s] = "pause"
    /\ IF verdict[s] = "ok"
       THEN good' = [good EXCEPT ![s] = @ + 1] /\ GoTo(s, "next") /\ UNCHANGED bad
       ELSE TestFails(s) /\ UNCHANGED good
    /\ verdict' = [verdict EXCEPT ![s] = "error"]
    /\ UNCHANGED <<total, test, result, lone, foreign, server, canceled, chan, app>>

-----------------------------------------------------------------------------
(* The app.                                                                *)

\* Enter in the setup dialog, opened from the list.
EnterSetup(m) ==
    /\ view = "list" /\ pending = NoModel /\ Newest < MaxSweeps
    /\ pending' = m
    /\ UNCHANGED <<task, server, canceled, chan, of, handle, rx, cancelTx, running, progress,
                   results, view, state>>

\* Mutant: the results of the sweep before stay.
SpawnOverResults ==
    /\ pending # NoModel /\ Newest < MaxSweeps
    /\ LET s == Newest + 1
           others == {r \in Sweeps : Working(r)}
       IN /\ \E n \in 1..MaxTests : total' = [total EXCEPT ![s] = n]
          /\ GoTo(s, "next") /\ of' = [of EXCEPT ![s] = pending]
          /\ state' = [state EXCEPT ![pending] = "benchmarking"]
          /\ handle' = s /\ rx' = s /\ cancelTx' = s
          /\ lone' = IF others = {} THEN lone ELSE lone \ (others \cup {s})
    /\ pending' = NoModel /\ running' = TRUE /\ view' = "sweep"
    /\ UNCHANGED <<test, good, bad, verdict, result, foreign, server, canceled, chan, progress, results>>

\* process_pending_spawn: handle, receiver and cancel channel are replaced, and
\* the task that had them goes on.
ProcessPendingSpawn ==
    /\ pending # NoModel /\ Newest < MaxSweeps
    /\ LET s == Newest + 1
           others == {r \in Sweeps : Working(r)}
       IN /\ \E n \in 1..MaxTests : total' = [total EXCEPT ![s] = n]
          /\ GoTo(s, "next") /\ of' = [of EXCEPT ![s] = pending]
          /\ state' = [state EXCEPT ![pending] = "benchmarking"]
          /\ handle' = s /\ rx' = s /\ cancelTx' = s
          /\ lone' = IF others = {} THEN lone ELSE lone \ (others \cup {s})
    /\ pending' = NoModel /\ running' = TRUE /\ results' = None /\ view' = "sweep"
    /\ UNCHANGED <<test, good, bad, verdict, result, foreign, server, canceled, chan, progress>>

\* Esc in the sweep's view.
Cancel ==
    /\ view = "sweep" /\ pending = NoModel
    /\ canceled' = IF cancelTx = None THEN canceled ELSE canceled \cup {cancelTx}
    /\ handle' = None
    /\ state' = [m \in Models |-> IF state[m] = "benchmarking" THEN "available" ELSE state[m]]
    /\ view' = "list"
    /\ UNCHANGED <<task, server, chan, pending, of, rx, cancelTx, running, progress, results>>

\* The command palette opens the search, and Esc there the list: not a cancel.
Leave ==
    /\ view = "sweep" /\ pending = NoModel /\ view' = "list"
    /\ UNCHANGED <<task, server, canceled, chan, pending, of, handle, rx, cancelTx, running,
                   progress, results, state>>

TickBenchTuneProgress ==
    /\ running \/ handle # None
    /\ rx # None /\ chan[rx] # Read
    /\ progress' = <<rx, chan[rx]>>
    /\ chan' = [chan EXCEPT ![rx] = Read]
    /\ UNCHANGED <<task, server, canceled, pending, of, handle, rx, cancelTx, running, results,
                   view, state>>

\* The task has returned; the selected model's state is set as well.
TickBenchTuneResult ==
    /\ handle # None /\ pc[handle] = "done"
    /\ LET m == of[handle]
       IN IF result[handle] = "ok"
          THEN /\ results' = handle
               /\ \E selected \in Models :
                      state' = [state EXCEPT ![m] = "available", ![selected] = "available"]
          ELSE /\ state' = [state EXCEPT ![m] = "failed"]
               /\ UNCHANGED results
    /\ running' = FALSE /\ handle' = None
    /\ UNCHANGED <<task, server, canceled, chan, pending, of, rx, cancelTx, progress, view>>

-----------------------------------------------------------------------------
SweepStep(s) ==
    \/ NextTest(s) \/ AllTested(s) \/ Finish(s) \/ SpawnServer(s)
    \/ Healthy(s) \/ HealthTimeout(s) \/ Measure(s) \/ TestTimeout(s) \/ Kill(s) \/ Pause(s)

ServerStep(s) == Starts(s) \/ Ends(s) \/ Crashes(s)

Next ==
    \/ \E s \in Sweeps : SweepStep(s) \/ ServerStep(s)
    \/ \E m \in Models : EnterSetup(m)
    \/ ProcessPendingSpawn \/ Cancel \/ Leave \/ TickBenchTuneProgress \/ TickBenchTuneResult

Spec == Init /\ [][Next]_vars

(***************************************************************************)
(* Fairness: every wait of a sweep has a timeout, and the loop's ticks and *)
(* the drain of the pending events run on every turn.                      *)
(***************************************************************************)
FairSpec ==
    /\ Spec
    /\ \A s \in Sweeps : WF_vars(SweepStep(s))
    /\ WF_vars(ProcessPendingSpawn) /\ WF_vars(TickBenchTuneProgress) /\ WF_vars(TickBenchTuneResult)

-----------------------------------------------------------------------------
(***************************************************************************)
(* Properties.                                                             *)
(***************************************************************************)

\* Between tests, and after the last one, no server of the sweep runs on that
\* was not told to end, whichever way the test ended.
ServersAreKilled ==
    \A s \in Sweeps : pc[s] \in {"next", "spawn", "sort", "done"} => server[s] \in {"none", "dying"}

\* A sweep that had no other beside it measures the server it started, with the
\* parameters of its test, although the next test does not wait for the last
\* server to be gone.
MeasuresItsServer == foreign \cap lone = {}

\* A sweep that ran to its end counts every test once.
EveryTestCounts ==
    \A s \in Sweeps :
        pc[s] = "done" /\ result[s] = "ok" /\ s \notin canceled => good[s] + bad[s] = total[s]

\* The table shows the results of the sweep started last, never of one before,
\* and what the app waits for is that sweep.
ShowsNewest == results \in {None, Newest} /\ handle \in {None, Newest}

\* Every sweep comes to its end, cancelled or not.
SweepsEnd == []<>(\A s \in Sweeps : ~Working(s))

\* The app takes a sweep as running only while it runs.
RunningEnds == running ~> ~running
=============================================================================
