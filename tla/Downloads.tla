----------------------------- MODULE Downloads -----------------------------
(***************************************************************************)
(* Model downloads of the TUI: the tasks that run hub::download_file, the  *)
(* control byte each shares with the keys, the lossy broadcast channel     *)
(* they report to, and the main loop that reads it, ends entries and       *)
(* starts tasks.                                                           *)
(*                                                                         *)
(* Each started download is a task with a number.  A file is known by its  *)
(* destination; an existing file is truncated when a task creates it, so   *)
(* what a name holds is what the task that created it last has written.    *)
(* The progress of the backend download, which has the same channel, and   *)
(* the numbers shown with an entry are left out.                           *)
(***************************************************************************)
EXTENDS Integers, Sequences

CONSTANTS
    Files,      \* the files that can be downloaded
    NoFile,     \* not a file
    MaxTasks,   \* bound: downloads started in one session
    Cap         \* capacity of the broadcast channel

ASSUME FilesAssumption == NoFile \notin Files
ASSUME BoundsAssumption == MaxTasks \in Nat /\ Cap \in Nat \ {0}

Task == 1..MaxTasks
NoTask == 0
Downloading == 1                \* DOWNLOAD_STATE_*, the control byte
Paused == 2
Cancelled == 3
Pausing == 4

VARIABLES
    pc,         \* the part of the main loop that runs next
    want,       \* the file of a pending Download event
    started,    \* how many tasks were started
    entry,      \* file |-> the task and status download_progress shows
    downloading,\* download.downloading
    chan,       \* messages nobody read yet, oldest first
    lost,       \* history: tasks whose latest message the channel dropped
    step,       \* task |-> where it is in download_file
    file,       \* task |-> its file
    ctrl,       \* task |-> the shared control byte
    token,      \* tasks whose cancel_token is set
    got,        \* tasks that received data
    eof,        \* tasks whose stream ended
    disk        \* file |-> the task that created it last, or NoTask

loopVars == <<pc, want, started, downloading>>
taskVars == <<step, file, got, eof>>
vars == <<loopVars, entry, chan, lost, taskVars, ctrl, token, disk>>

Status == {"Downloading", "Pausing", "Paused", "Complete", "Cancelled", "Error"}
NoEntry == [task |-> NoTask, status |-> "none"]
Message == [task : Task, status : Status]

TypeOK ==
    /\ pc \in {"progress", "completed", "drain", "key"}
    /\ want \in Files \cup {NoFile}
    /\ started \in 0..MaxTasks
    /\ entry \in [Files -> Message \cup {NoEntry}]
    /\ downloading \in BOOLEAN
    /\ chan \in Seq(Message) /\ Len(chan) <= Cap
    /\ lost \subseteq Task
    /\ step \in [Task -> {"none", "connect", "top", "pause", "tell", "chunk", "check",
                          "failing", "failed", "done"}]
    /\ file \in [Task -> Files \cup {NoFile}]
    /\ ctrl \in [Task -> {Downloading, Paused, Cancelled, Pausing}]
    /\ token \subseteq Task
    /\ got \subseteq Task /\ eof \subseteq Task
    /\ disk \in [Files -> Task \cup {NoTask}]

Init ==
    /\ pc = "key" /\ want = NoFile /\ started = 0 /\ downloading = FALSE
    /\ entry = [f \in Files |-> NoEntry]
    /\ chan = << >> /\ lost = {}
    /\ step = [t \in Task |-> "none"]
    /\ file = [t \in Task |-> NoFile]
    /\ ctrl = [t \in Task |-> Downloading]
    /\ token = {} /\ got = {} /\ eof = {}
    /\ disk = [f \in Files |-> NoTask]

-----------------------------------------------------------------------------
(* The download tasks.                                                      *)

InChan(t, messages) == \E i \in DOMAIN messages : messages[i].task = t

\* Mutant: the channel never drops a message.
SendUnbounded(t, status) ==
    /\ chan' = Append(chan, [task |-> t, status |-> status])
    /\ lost' = lost \ {t}

\* broadcast::Sender::send: a full channel drops its oldest message.
Send(t, status) ==
    LET rest == IF Len(chan) = Cap THEN Tail(chan) ELSE chan
        messages == Append(rest, [task |-> t, status |-> status])
    IN /\ chan' = messages
       /\ lost' = (lost \ {t}) \cup {d \in Task : InChan(d, chan) /\ ~InChan(d, messages)}

Silent == UNCHANGED <<chan, lost>>

GoTo(t, place) == step' = [step EXCEPT ![t] = place]

\* remove_file(dest), whoever wrote the file.
Remove(t) == disk' = [disk EXCEPT ![file[t]] = NoTask]

\* The request and File::create; nothing is left when they fail.
Connect(t) ==
    /\ step[t] = "connect"
    /\ \/ GoTo(t, "top") /\ disk' = [disk EXCEPT ![file[t]] = t]
       \/ GoTo(t, "failing") /\ UNCHANGED disk
    /\ Silent
    /\ UNCHANGED <<loopVars, entry, file, got, eof, ctrl, token>>

\* The top of the loop reads the control byte.  A paused task comes back later.
SeesCancel(t) ==
    /\ step[t] = "top" /\ ctrl[t] = Cancelled
    /\ Remove(t) /\ GoTo(t, "failing")
    /\ Silent
    /\ UNCHANGED <<loopVars, entry, file, got, eof, ctrl, token>>

SeesEnd(t) ==
    /\ step[t] = "top" /\ ctrl[t] # Cancelled /\ t \in eof
    /\ GoTo(t, "check")
    /\ Send(t, "Complete")
    /\ UNCHANGED <<loopVars, entry, file, got, eof, ctrl, token, disk>>

SeesPausing(t) ==
    /\ step[t] = "top" /\ ctrl[t] = Pausing /\ t \notin eof
    /\ GoTo(t, "pause")
    /\ Silent
    /\ UNCHANGED <<loopVars, entry, file, got, eof, ctrl, token, disk>>

SeesDownloading(t) ==
    /\ step[t] = "top" /\ ctrl[t] = Downloading /\ t \notin eof
    /\ GoTo(t, "chunk")
    /\ Silent
    /\ UNCHANGED <<loopVars, entry, file, got, eof, ctrl, token, disk>>

\* Stores PAUSED over whatever was stored since the byte was read, then tells.
StorePaused(t) ==
    /\ step[t] = "pause"
    /\ ctrl' = [ctrl EXCEPT ![t] = Paused]
    /\ GoTo(t, "tell")
    /\ Silent
    /\ UNCHANGED <<loopVars, entry, file, got, eof, token, disk>>

\* Mutant: the loop is not told that the task paused.
TellNobody(t) ==
    /\ step[t] = "tell"
    /\ GoTo(t, "top")
    /\ Silent
    /\ UNCHANGED <<loopVars, entry, file, got, eof, ctrl, token, disk>>

TellPaused(t) ==
    /\ step[t] = "tell"
    /\ GoTo(t, "top")
    /\ Send(t, "Paused")
    /\ UNCHANGED <<loopVars, entry, file, got, eof, ctrl, token, disk>>

\* A chunk, written to the file; at most every 100 ms it is reported.
Chunk(t) ==
    /\ step[t] = "chunk"
    /\ got' = got \cup {t}
    /\ GoTo(t, "top")
    /\ Send(t, "Downloading") \/ Silent
    /\ UNCHANGED <<loopVars, entry, file, eof, ctrl, token, disk>>

StreamEnds(t) ==
    /\ step[t] = "chunk"
    /\ eof' = eof \cup {t}
    /\ GoTo(t, "top")
    /\ Silent
    /\ UNCHANGED <<loopVars, entry, file, got, ctrl, token, disk>>

\* Mutant: a stream that fails or stalls leaves the partial file.
ChunkFailsAndLeaves(t) ==
    /\ step[t] = "chunk"
    /\ GoTo(t, "failing")
    /\ Silent
    /\ UNCHANGED <<loopVars, entry, file, got, eof, ctrl, token, disk>>

\* A stream error, 60 seconds without data, or a failing write.
ChunkFails(t) ==
    /\ step[t] = "chunk"
    /\ Remove(t) /\ GoTo(t, "failing")
    /\ Silent
    /\ UNCHANGED <<loopVars, entry, file, got, eof, ctrl, token>>

\* After Complete was sent: an empty file is an error.
Check(t) ==
    /\ step[t] = "check"
    /\ IF t \in got
       THEN GoTo(t, "done") /\ UNCHANGED disk
       ELSE GoTo(t, "failing") /\ Remove(t)
    /\ Silent
    /\ UNCHANGED <<loopVars, entry, file, got, eof, ctrl, token>>

\* The task reports the error that download_file returned.
Fail(t) ==
    /\ step[t] = "failing"
    /\ GoTo(t, "failed")
    /\ Send(t, IF t \in token THEN "Cancelled" ELSE "Error")
    /\ UNCHANGED <<loopVars, entry, file, got, eof, ctrl, token, disk>>

-----------------------------------------------------------------------------
(* The main loop.                                                           *)

\* Message i is the last one about f in the channel.
LastAbout(f, i) ==
    /\ file[chan[i].task] = f
    /\ \A j \in DOMAIN chan : j > i => file[chan[j].task] # f

\* What an entry is after its messages: the last one replaces it, and any but
\* a cancellation creates it.
Updated(f) ==
    IF /\ \E i \in DOMAIN chan : LastAbout(f, i)
       /\ \/ entry[f] # NoEntry
          \/ \E i \in DOMAIN chan : file[chan[i].task] = f /\ chan[i].status # "Cancelled"
    THEN chan[CHOOSE i \in DOMAIN chan : LastAbout(f, i)]
    ELSE entry[f]

TickDownloadProgress ==
    /\ pc = "progress" /\ pc' = "completed"
    /\ entry' = [f \in Files |-> Updated(f)]
    /\ chan' = << >>
    /\ UNCHANGED <<want, started, downloading, lost, taskVars, ctrl, token, disk>>

\* Mutant: entries that ended in an error stay.
OverExceptErrors(f) == entry[f].status \in {"Complete", "Cancelled"}

Over(f) == entry[f].status \in {"Complete", "Error", "Cancelled"}

AnyEntry(entries) == \E f \in Files : entries[f] # NoEntry

TickCompletedDownloads ==
    /\ pc = "completed" /\ pc' = "drain"
    /\ entry' = [f \in Files |-> IF Over(f) THEN NoEntry ELSE entry[f]]
    /\ disk' = [f \in Files |-> IF entry[f].status = "Cancelled" THEN NoTask ELSE disk[f]]
    /\ downloading' = IF \E f \in Files : Over(f) THEN AnyEntry(entry') ELSE downloading
    /\ UNCHANGED <<want, started, chan, lost, taskVars, ctrl, token>>

\* process_pending_download; without the space on the disk nothing starts.
ProcessPendingDownload ==
    /\ want # NoFile
    /\ want' = NoFile
    /\ started < MaxTasks
    /\ LET t == started + 1
       IN \/ /\ started' = t
             /\ file' = [file EXCEPT ![t] = want]
             /\ step' = [step EXCEPT ![t] = "connect"]
             /\ downloading' = TRUE
          \/ UNCHANGED <<started, file, step, downloading>>

Drain ==
    /\ pc = "drain" /\ pc' = "key"
    /\ \/ ProcessPendingDownload
       \/ want = NoFile /\ UNCHANGED <<want, started, file, step, downloading>>
    /\ UNCHANGED <<entry, chan, lost, got, eof, ctrl, token, disk>>

\* The ticks are skipped when nothing is going on; other parts of the app may
\* keep them running.
NextTurn == pc' \in IF downloading' THEN {"progress"} ELSE {"progress", "drain"}

KeyUnchanged == UNCHANGED <<started, chan, lost, taskVars>>

NoKey ==
    /\ pc = "key"
    /\ KeyUnchanged /\ UNCHANGED <<want, entry, downloading, ctrl, token, disk>>
    /\ NextTurn

\* Enter in the list of files.  MaxTasks bounds the downloads asked for.
EnterKey(f) ==
    /\ pc = "key"
    /\ entry[f] = NoEntry /\ disk[f] = NoTask
    /\ started < MaxTasks
    /\ want' = f
    /\ KeyUnchanged /\ UNCHANGED <<entry, downloading, ctrl, token, disk>>
    /\ NextTurn

\* p on a download that shows Downloading, or Paused.
PauseKey(f) ==
    /\ pc = "key"
    /\ entry[f].status = "Downloading"
    /\ entry' = [entry EXCEPT ![f].status = "Pausing"]
    /\ ctrl' = [ctrl EXCEPT ![entry[f].task] = Pausing]
    /\ KeyUnchanged /\ UNCHANGED <<want, downloading, token, disk>>
    /\ NextTurn

\* Mutant: the task is not told that its download goes on.
ResumeShownOnly(f) ==
    /\ pc = "key"
    /\ entry[f].status = "Paused"
    /\ entry' = [entry EXCEPT ![f].status = "Downloading"]
    /\ KeyUnchanged /\ UNCHANGED <<want, downloading, ctrl, token, disk>>
    /\ NextTurn

ResumeKey(f) ==
    /\ pc = "key"
    /\ entry[f].status = "Paused"
    /\ entry' = [entry EXCEPT ![f].status = "Downloading"]
    /\ ctrl' = [ctrl EXCEPT ![entry[f].task] = Downloading]
    /\ KeyUnchanged /\ UNCHANGED <<want, downloading, token, disk>>
    /\ NextTurn

\* Alt+C: cancel_download removes the file and the entry at once.
CancelKey(f) ==
    /\ pc = "key"
    /\ entry[f] # NoEntry
    /\ token' = token \cup {entry[f].task}
    /\ ctrl' = [ctrl EXCEPT ![entry[f].task] = Cancelled]
    /\ disk' = [disk EXCEPT ![f] = NoTask]
    /\ entry' = [entry EXCEPT ![f] = NoEntry]
    /\ downloading' = AnyEntry(entry')
    /\ KeyUnchanged /\ UNCHANGED want
    /\ NextTurn

-----------------------------------------------------------------------------
TaskStep(t) ==
    Connect(t) \/ SeesCancel(t) \/ SeesEnd(t) \/ SeesPausing(t) \/ SeesDownloading(t)
    \/ StorePaused(t) \/ TellPaused(t) \/ Chunk(t) \/ StreamEnds(t) \/ ChunkFails(t)
    \/ Check(t) \/ Fail(t)

LoopStep == TickDownloadProgress \/ TickCompletedDownloads \/ Drain \/ NoKey

Key == \E f \in Files : EnterKey(f) \/ PauseKey(f) \/ ResumeKey(f) \/ CancelKey(f)

Next == (\E t \in Task : TaskStep(t)) \/ LoopStep \/ Key

Spec == Init /\ [][Next]_vars

(***************************************************************************)
(* Fairness: the loop turns for ever, and every await of a task ends by    *)
(* its timeout.                                                            *)
(***************************************************************************)
FairSpec == Spec /\ WF_vars(LoopStep) /\ \A t \in Task : WF_vars(TaskStep(t))

-----------------------------------------------------------------------------
(***************************************************************************)
(* Properties.                                                             *)
(***************************************************************************)

\* Whatever failed, stalled, was cancelled or was started twice: what a name
\* holds is being written or was written to its end.  discover_models would
\* take the rest of a failed download for a model.
NoPartialLeft ==
    \A f \in Files :
        disk[f] # NoTask => step[disk[f]] \in {"top", "pause", "tell", "chunk", "check", "done"}

\* A task that rests in its pause is never shown as downloading, once its last
\* message was read: whatever order pauses, resumes, stale messages and cancels
\* came in, p still resumes it.
PauseIsShown ==
    \A f \in Files :
        LET t == entry[f].task
        IN t # NoTask /\ step[t] = "top" /\ ctrl[t] = Paused
           /\ ~InChan(t, chan) /\ t \notin lost
              => entry[f].status = "Paused"

\* The entry of a task that ended goes, unless its last message is lost.
ShownEnded(t) ==
    /\ step[t] \in {"done", "failed"} /\ downloading
    /\ \E f \in Files : entry[f].task = t

EndedEntryGoes ==
    \A t \in Task :
        ShownEnded(t) ~> t \in lost \/ \A f \in Files : entry[f].task # t

\* The same without fairness: once the last message of a task that ended was read, its
\* entry says that it ended, whichever keys and other downloads came between, so the
\* next completion tick takes it away.
EndIsShown ==
    \A f \in Files :
        LET t == entry[f].task
        IN t # NoTask /\ step[t] \in {"done", "failed"} /\ ~InChan(t, chan) /\ t \notin lost
              => Over(f)

\* The panel is there as long as a download that nobody cancelled runs.
PanelShown ==
    \A t \in Task : step[t] \in {"top", "chunk"} /\ t \notin token => downloading

\* A file whose download ended well and was not cancelled is still there: the
\* late step of another download of the name does not take it away.
CompletedStays ==
    \A t \in Task : step[t] = "done" /\ t \notin token => disk[file[t]] # NoTask

\* A cancelled download comes to an end: it never rests in a pause, from which
\* only another key would wake it.
CancelledNeverRests ==
    \A t \in Task : t \in token => ~(step[t] = "top" /\ ctrl[t] = Paused)
=============================================================================
