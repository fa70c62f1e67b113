--------------------------- MODULE ServerProcess ---------------------------
(***************************************************************************)
(* One llama-server (or llama-bench) child process and the tokio tasks     *)
(* that spawn_server_inner leaves behind for it: a reader task per output  *)
(* stream, the spawn task that merges both streams, listens for kill       *)
(* requests, reaps the child and announces its exit, the holders of        *)
(* ServerHandle clones that call kill_server, and ensure_killed, which the *)
(* main loop runs after a kill.                                            *)
(*                                                                         *)
(* A line of output is a token: only how many lines wait in a pipe or a    *)
(* channel matters.  Heirs are descendants of the child that inherited an  *)
(* output stream and keep its pipe open after the child is gone.           *)
(***************************************************************************)
EXTENDS Integers

CONSTANTS
    Streams,    \* the output streams: stdout and stderr
    Killers,    \* holders of a clone of the ServerHandle
    MainLoop,   \* the holder that also drains the UI log: the TUI main loop
    PipeCap,    \* lines the operating system buffers per pipe
    LineCap,    \* capacity of a reader's channel to the spawn task (64)
    LogCap,     \* capacity of the UI log channel (100)
    Heirs       \* the streams that a descendant of the child may inherit

ASSUME StreamsAssumption == Heirs \subseteq Streams
ASSUME KillersAssumption == MainLoop \in Killers
ASSUME CapAssumption ==
    /\ PipeCap \in Nat \ {0}
    /\ LineCap \in Nat \ {0}
    /\ LogCap \in Nat \ {0}

VARIABLES
    child,      \* "running", "zombie" (exited, its pid still there), "reaped"
    holds,      \* stream |-> who has the write end of its pipe open
    pipe,       \* stream |-> lines in the pipe
    reader,     \* stream |-> its reader task: "read", "send", "done", "aborted"
    chan,       \* stream |-> lines in the reader's channel
    open,       \* stream |-> stdout_open / stderr_open of the merge loop
    killOpen,   \* kill_open of the merge loop
    task,       \* where the spawn task is
    killQ,      \* the kill channel (capacity 1)
    killer,     \* holder |-> "holding", "asking", "sent", "refused", "dropped"
    log,        \* lines in the UI log channel
    exitQ,      \* the exit channel (capacity 1)
    exitRx,     \* who has the exit receiver: "app", "ensure", "gone"
    verdict     \* where ensure_killed is, then what it returned

childVars == <<child, holds, pipe>>
readerVars == <<reader, chan>>
taskVars == <<open, killOpen, task>>
killVars == <<killQ, killer>>
ensureVars == <<exitRx, verdict>>
vars == <<child, holds, pipe, reader, chan, open, killOpen, task,
          killQ, killer, log, exitQ, exitRx, verdict>>

TypeOK ==
    /\ child \in {"running", "zombie", "reaped"}
    /\ holds \in [Streams -> SUBSET {"child", "heir"}]
    /\ pipe \in [Streams -> 0..PipeCap]
    /\ reader \in [Streams -> {"read", "send", "done", "aborted"}]
    /\ chan \in [Streams -> 0..LineCap]
    /\ open \in [Streams -> BOOLEAN]
    /\ killOpen \in BOOLEAN
    /\ task \in {"merge", "join", "late", "wait", "notify", "log", "done"}
    /\ killQ \in {0, 1}
    /\ killer \in [Killers -> {"holding", "asking", "sent", "refused", "dropped"}]
    /\ log \in 0..LogCap
    /\ exitQ \in {0, 1}
    /\ exitRx \in {"app", "ensure", "gone"}
    /\ verdict \in {"none", "await", "probe", "signal", "poll",
                    "Exited", "Gone", "Forced", "Failed"}

Init ==
    /\ child = "running"
    /\ holds \in [Streams -> {{"child"}, {"child", "heir"}}]
    /\ \A s \in Streams \ Heirs : holds[s] = {"child"}
    /\ pipe = [s \in Streams |-> 0]
    /\ reader = [s \in Streams |-> "read"]
    /\ chan = [s \in Streams |-> 0]
    /\ open = [s \in Streams |-> TRUE]
    /\ killOpen = TRUE
    /\ task = "merge"
    /\ killQ = 0
    /\ killer = [k \in Killers |-> "holding"]
    /\ log = 0
    /\ exitQ = 0
    /\ exitRx = "app"
    /\ verdict = "none"

-----------------------------------------------------------------------------
(* The child and its descendants.                                           *)

PidAlive == child # "reaped"        \* kill -0 succeeds on a zombie too

\* The child's end of every pipe closes when it dies.
Orphaned == [s \in Streams |-> holds[s] \ {"child"}]

Write(s) ==
    /\ holds[s] # {}
    /\ pipe[s] < PipeCap
    /\ pipe' = [pipe EXCEPT ![s] = @ + 1]
    /\ UNCHANGED <<child, holds, readerVars, taskVars, killVars, log, exitQ, ensureVars>>

\* A process may close an output stream and go on running.
CloseStream(s) ==
    /\ child = "running"
    /\ "child" \in holds[s]
    /\ holds' = [holds EXCEPT ![s] = @ \ {"child"}]
    /\ UNCHANGED <<child, pipe, readerVars, taskVars, killVars, log, exitQ, ensureVars>>

\* The child exits on its own: crash, out of memory, external kill.
ChildExit ==
    /\ child = "running"
    /\ child' = "zombie"
    /\ holds' = Orphaned
    /\ UNCHANGED <<pipe, readerVars, taskVars, killVars, log, exitQ, ensureVars>>

HeirExit(s) ==
    /\ "heir" \in holds[s]
    /\ holds' = [holds EXCEPT ![s] = @ \ {"heir"}]
    /\ UNCHANGED <<child, pipe, readerVars, taskVars, killVars, log, exitQ, ensureVars>>

-----------------------------------------------------------------------------
(* The reader tasks: read_until, then send into a bounded channel.          *)

ReadLine(s) ==
    /\ reader[s] = "read"
    /\ pipe[s] > 0
    /\ pipe' = [pipe EXCEPT ![s] = @ - 1]
    /\ reader' = [reader EXCEPT ![s] = "send"]
    /\ UNCHANGED <<child, holds, chan, taskVars, killVars, log, exitQ, ensureVars>>

ReadEof(s) ==
    /\ reader[s] = "read"
    /\ pipe[s] = 0
    /\ holds[s] = {}
    /\ reader' = [reader EXCEPT ![s] = "done"]
    /\ UNCHANGED <<childVars, chan, taskVars, killVars, log, exitQ, ensureVars>>

SendLine(s) ==
    /\ reader[s] = "send"
    /\ chan[s] < LineCap
    /\ chan' = [chan EXCEPT ![s] = @ + 1]
    /\ reader' = [reader EXCEPT ![s] = "read"]
    /\ UNCHANGED <<childVars, taskVars, killVars, log, exitQ, ensureVars>>

-----------------------------------------------------------------------------
(* The spawn task.                                                          *)

Finished == {"done", "aborted"}

\* Mutant: a send that ignores the capacity of the channel.
TrySendUnbounded(n) == log' = log + n

\* log_tx.try_send: a full log channel drops the line.
TrySend(n) == log' = IF log + n > LogCap THEN LogCap ELSE log + n

\* child.wait() and try_wait() collect an exited child.
Reap == child' = IF child = "zombie" THEN "reaped" ELSE child

Listening == task = "merge" /\ (killOpen \/ \E s \in Streams : open[s])

\* Holders that still own a sender of the kill channel.
Senders == {k \in Killers : killer[k] \in {"holding", "asking"}}

MergeLine(s) ==
    /\ Listening
    /\ open[s]
    /\ chan[s] > 0
    /\ chan' = [chan EXCEPT ![s] = @ - 1]
    /\ TrySend(1)
    /\ UNCHANGED <<childVars, reader, taskVars, killVars, exitQ, ensureVars>>

\* Mutant: the first closed stream ends the loop, as it did before kill_open.
MergeClosedBreaks(s) ==
    /\ Listening
    /\ open[s]
    /\ chan[s] = 0
    /\ reader[s] \in Finished
    /\ open' = [open EXCEPT ![s] = FALSE]
    /\ task' = "join"
    /\ Reap
    /\ TrySend(1)
    /\ UNCHANGED <<holds, pipe, readerVars, killOpen, killVars, exitQ, ensureVars>>

\* recv() returns None: the branch is disabled, the loop goes on.
MergeClosed(s) ==
    /\ Listening
    /\ open[s]
    /\ chan[s] = 0
    /\ reader[s] \in Finished
    /\ open' = [open EXCEPT ![s] = FALSE]
    /\ Reap
    /\ TrySend(1)
    /\ UNCHANGED <<holds, pipe, readerVars, killOpen, task, killVars, exitQ, ensureVars>>

\* Mutant: the kill branch leaves the readers running for the join below.
MergeKillKeepsReaders ==
    /\ Listening
    /\ killOpen
    /\ killQ = 1
    /\ killQ' = 0
    /\ child' = "reaped"
    /\ holds' = Orphaned
    /\ TrySend(2)
    /\ task' = "join"
    /\ UNCHANGED <<pipe, readerVars, open, killOpen, killer, exitQ, ensureVars>>

\* A kill request: SIGKILL, reap, abort the readers, leave the loop.
MergeKill ==
    /\ Listening
    /\ killOpen
    /\ killQ = 1
    /\ killQ' = 0
    /\ child' = "reaped"
    /\ holds' = Orphaned
    /\ reader' = [s \in Streams |-> IF reader[s] = "done" THEN "done" ELSE "aborted"]
    /\ TrySend(2)
    /\ task' = "join"
    /\ UNCHANGED <<pipe, chan, open, killOpen, killer, exitQ, ensureVars>>

\* Every sender is gone without a request.
MergeNoSenders ==
    /\ Listening
    /\ killOpen
    /\ killQ = 0
    /\ Senders = {}
    /\ killOpen' = FALSE
    /\ UNCHANGED <<childVars, readerVars, open, task, killVars, log, exitQ, ensureVars>>

\* Mutant: no child.wait() branch in the loop.
MergeExitedMissing == FALSE /\ UNCHANGED vars

\* child.wait(), a branch only once both streams are closed.
MergeExited ==
    /\ Listening
    /\ \A s \in Streams : ~open[s]
    /\ child # "running"
    /\ child' = "reaped"
    /\ task' = "join"
    /\ UNCHANGED <<holds, pipe, readerVars, open, killOpen, killVars, log, exitQ, ensureVars>>

\* All three sources are closed: the loop ends with the child still unwaited.
MergeEnd ==
    /\ task = "merge"
    /\ ~Listening
    /\ task' = "join"
    /\ UNCHANGED <<childVars, readerVars, open, killOpen, killVars, log, exitQ, ensureVars>>

JoinReaders ==
    /\ task = "join"
    /\ \A s \in Streams : reader[s] \in Finished
    /\ task' = "late"
    /\ UNCHANGED <<childVars, readerVars, open, killOpen, killVars, log, exitQ, ensureVars>>

\* A kill that was buffered while the loop was draining.
LateKill ==
    /\ task = "late"
    /\ IF killOpen /\ killQ = 1
       THEN /\ killQ' = 0
            /\ child' = "reaped"
            /\ holds' = Orphaned
            /\ TrySend(1)
       ELSE UNCHANGED <<killQ, child, holds, log>>
    /\ task' = "wait"
    /\ UNCHANGED <<pipe, readerVars, open, killOpen, killer, exitQ, ensureVars>>

\* Mutant: try_wait() in place of wait().
WaitChildPolls ==
    /\ task = "wait"
    /\ Reap
    /\ task' = "notify"
    /\ UNCHANGED <<holds, pipe, readerVars, open, killOpen, killVars, log, exitQ, ensureVars>>

WaitChild ==
    /\ task = "wait"
    /\ child # "running"
    /\ child' = "reaped"
    /\ task' = "notify"
    /\ UNCHANGED <<holds, pipe, readerVars, open, killOpen, killVars, log, exitQ, ensureVars>>

\* exit_tx.send: a dropped receiver loses the notification.
NotifyExit ==
    /\ task = "notify"
    /\ exitQ = 0
    /\ exitQ' = IF exitRx = "gone" THEN 0 ELSE 1
    /\ task' = "log"
    /\ UNCHANGED <<childVars, readerVars, open, killOpen, killVars, log, ensureVars>>

\* The last line is sent with send().await: it waits for room in the channel.
LogExit ==
    /\ task = "log"
    /\ log < LogCap
    /\ log' = log + 1
    /\ task' = "done"
    /\ UNCHANGED <<childVars, readerVars, open, killOpen, killVars, exitQ, ensureVars>>

-----------------------------------------------------------------------------
(* Holders of the handle: kill_server consumes the clone it is given.       *)

CallKill(k) ==
    /\ killer[k] = "holding"
    /\ killer' = [killer EXCEPT ![k] = "asking"]
    /\ UNCHANGED <<childVars, readerVars, taskVars, killQ, log, exitQ, ensureVars>>

KillAccepted(k) ==
    /\ killer[k] = "asking"
    /\ task # "done"
    /\ killQ = 0
    /\ killQ' = 1
    /\ killer' = [killer EXCEPT ![k] = "sent"]
    /\ UNCHANGED <<childVars, readerVars, taskVars, log, exitQ, ensureVars>>

\* The spawn task is gone and with it the receiver.
KillRefused(k) ==
    /\ killer[k] = "asking"
    /\ task = "done"
    /\ killer' = [killer EXCEPT ![k] = "refused"]
    /\ UNCHANGED <<childVars, readerVars, taskVars, killQ, log, exitQ, ensureVars>>

DropHandle(k) ==
    /\ killer[k] = "holding"
    /\ killer' = [killer EXCEPT ![k] = "dropped"]
    /\ UNCHANGED <<childVars, readerVars, taskVars, killQ, log, exitQ, ensureVars>>

-----------------------------------------------------------------------------
(* The main loop and ensure_killed.                                         *)

Ensuring == verdict \in {"await", "probe", "signal", "poll"}

\* While the main loop awaits a kill it drains nothing.
LoopFree == killer[MainLoop] # "asking" /\ ~Ensuring

DrainLog ==
    /\ LoopFree
    /\ log > 0
    /\ log' = 0
    /\ UNCHANGED <<childVars, readerVars, taskVars, killVars, exitQ, ensureVars>>

\* tick_server_exit takes the notification.
TickServerExit ==
    /\ LoopFree
    /\ exitRx = "app"
    /\ exitQ = 1
    /\ exitQ' = 0
    /\ UNCHANGED <<childVars, readerVars, taskVars, killVars, log, ensureVars>>

\* process_pending_spawn replaces the channel of the previous server.
ReplaceExitRx ==
    /\ LoopFree
    /\ exitRx = "app"
    /\ exitRx' = "gone"
    /\ exitQ' = 0
    /\ UNCHANGED <<childVars, readerVars, taskVars, killVars, log, verdict>>

\* process_pending_kill goes on with ensure_killed(pid, server_exit_rx.take()).
EnsureStart ==
    /\ verdict = "none"
    /\ killer[MainLoop] \in {"sent", "refused"}
    /\ verdict' = IF exitRx = "app" THEN "await" ELSE "probe"
    /\ exitRx' = IF exitRx = "app" THEN "ensure" ELSE exitRx
    /\ UNCHANGED <<childVars, readerVars, taskVars, killVars, log, exitQ>>

EnsureRecv ==
    /\ verdict = "await"
    /\ exitQ = 1
    /\ exitQ' = 0
    /\ verdict' = "Exited"
    /\ exitRx' = "gone"
    /\ UNCHANGED <<childVars, readerVars, taskVars, killVars, log>>

\* Five seconds without a notification; the receiver goes out of scope.
EnsureTimeout ==
    /\ verdict = "await"
    /\ exitQ = 0
    /\ verdict' = "probe"
    /\ exitRx' = "gone"
    /\ UNCHANGED <<childVars, readerVars, taskVars, killVars, log, exitQ>>

\* Mutant: an exited but unreaped process counts as gone.
EnsureProbeZombieGone ==
    /\ verdict = "probe"
    /\ verdict' = IF child = "running" THEN "signal" ELSE "Gone"
    /\ UNCHANGED <<childVars, readerVars, taskVars, killVars, log, exitQ, exitRx>>

EnsureProbe ==
    /\ verdict = "probe"
    /\ verdict' = IF PidAlive THEN "signal" ELSE "Gone"
    /\ UNCHANGED <<childVars, readerVars, taskVars, killVars, log, exitQ, exitRx>>

\* kill -9 fails when the pid is gone by then.
EnsureSignal ==
    /\ verdict = "signal"
    /\ IF PidAlive
       THEN /\ child' = "zombie"
            /\ holds' = Orphaned
            /\ verdict' = "poll"
       ELSE verdict' = "Failed" /\ UNCHANGED <<child, holds>>
    /\ UNCHANGED <<pipe, readerVars, taskVars, killVars, log, exitQ, exitRx>>

\* Ten probes 200 ms apart; the number of probes is abstracted.
EnsurePoll ==
    /\ verdict = "poll"
    /\ verdict' = IF PidAlive THEN "Failed" ELSE "Forced"
    /\ UNCHANGED <<childVars, readerVars, taskVars, killVars, log, exitQ, exitRx>>

-----------------------------------------------------------------------------
ChildStep ==
    \/ ChildExit
    \/ \E s \in Streams : Write(s) \/ CloseStream(s) \/ HeirExit(s)

ReaderStep(s) == ReadLine(s) \/ ReadEof(s) \/ SendLine(s)

TaskStep ==
    \/ \E s \in Streams : MergeLine(s) \/ MergeClosed(s)
    \/ MergeKill \/ MergeNoSenders \/ MergeExited \/ MergeEnd
    \/ JoinReaders \/ LateKill \/ WaitChild \/ NotifyExit \/ LogExit

KillerStep(k) == CallKill(k) \/ KillAccepted(k) \/ KillRefused(k) \/ DropHandle(k)

EnsureStep ==
    \/ EnsureStart \/ EnsureRecv \/ EnsureTimeout
    \/ EnsureProbe \/ EnsureSignal \/ EnsurePoll

Next ==
    \/ ChildStep
    \/ \E s \in Streams : ReaderStep(s)
    \/ TaskStep
    \/ \E k \in Killers : KillerStep(k)
    \/ DrainLog \/ TickServerExit \/ ReplaceExitRx
    \/ EnsureStep

Spec == Init /\ [][Next]_vars

(***************************************************************************)
(* Fairness.  tokio polls every ready task, and select! picks among its    *)
(* ready branches at random, so a branch that stays ready is taken.  The   *)
(* kill senders and ensure_killed are tasks too, and the main loop drains  *)
(* the log each time round.  Nothing obliges the child or its heirs to     *)
(* write, to close or to exit, nor a holder to call kill_server.           *)
(***************************************************************************)
Fairness ==
    /\ \A s \in Streams : WF_vars(ReaderStep(s)) /\ WF_vars(MergeClosed(s))
                          /\ WF_vars(MergeLine(s))
    /\ WF_vars(MergeKill) /\ WF_vars(MergeNoSenders)
    /\ WF_vars(MergeExited) /\ WF_vars(MergeEnd)
    /\ WF_vars(JoinReaders) /\ WF_vars(LateKill) /\ WF_vars(WaitChild)
    /\ WF_vars(NotifyExit) /\ WF_vars(LogExit)
    /\ \A k \in Killers : WF_vars(KillAccepted(k) \/ KillRefused(k))
    /\ WF_vars(EnsureStep) /\ WF_vars(DrainLog)

FairSpec == Spec /\ Fairness

-----------------------------------------------------------------------------
(***************************************************************************)
(* Properties.                                                             *)
(***************************************************************************)

SomeSent == \E k \in Killers : killer[k] = "sent"

\* A kill request that kill_server accepted is never lost: as long as the
\* child runs, the request waits in the channel of a merge loop that still
\* listens.  (The comment at the loop describes the orphaned process that an
\* early exit from the loop once left behind.)
AcceptedKillIsPending ==
    SomeSent /\ child = "running" =>
        /\ killQ = 1
        /\ killOpen
        /\ task = "merge"

\* The spawn task never waits for a reader that can only be released by the
\* spawn task itself: at the join every reader is finished or aborted.
JoinNeverBlocks ==
    task = "join" => \A s \in Streams : reader[s] \in Finished

\* Nobody is told that the server is gone while its pid exists: not by the
\* exit notification, nor by ensure_killed's Exited, Gone and Forced.
DeadWhenTold ==
    \/ exitQ = 1
    \/ task \in {"log", "done"}
    \/ verdict \in {"Exited", "Gone", "Forced"}
    => ~PidAlive

\* A child that dies on its own is reaped and announced, however full the
\* readers' channels are, once no descendant holds its output streams.
Unattended == child # "running" /\ \A s \in Streams : holds[s] = {}

CrashIsAnnounced == Unattended ~> task \in {"log", "done"}

\* What the spawn task promises, as the abstract specification states it.
Contract == INSTANCE ServerContract WITH
    alive <- child = "running",
    asked <- SomeSent,
    announced <- task \in {"log", "done"}

\* Every step of the tasks is a step of the contract.
RefinesContract == Contract!Spec

\* An accepted kill request ends the child.
KillEndsChild == Contract!KillPromise
=============================================================================
