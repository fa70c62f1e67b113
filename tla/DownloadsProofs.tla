--------------------------- MODULE DownloadsProofs --------------------------
(***************************************************************************)
(* Type correctness of Downloads, that no partial file is left, and that a *)
(* download that rests in its pause, or has ended, is shown so, for every  *)
(* set of files, every capacity of the channel and every number of         *)
(* downloads.                                                              *)
(***************************************************************************)
EXTENDS Downloads, SequenceTheorems, WellFoundedInduction, TLAPS

\* Tasks that no download got yet have not begun, and the others know a file.
NotYetStarted == \A t \in Task : t > started => step[t] = "none"

\* What a name holds was created by a task for that name.
OwnFile == \A f \in Files : disk[f] # NoTask => file[disk[f]] = f

\* The inductive invariant of the first theorems.
IInv == TypeOK /\ NotYetStarted /\ OwnFile /\ NoPartialLeft

-----------------------------------------------------------------------------
\* Sending keeps the channel within its capacity.
LEMMA SendKeepsType ==
    ASSUME TypeOK, NEW t \in Task, NEW status \in Status, Send(t, status)
    PROVE  /\ chan' \in Seq(Message) /\ Len(chan') <= Cap
           /\ lost' \subseteq Task
<1> DEFINE message == [task |-> t, status |-> status]
           rest == IF Len(chan) = Cap THEN Tail(chan) ELSE chan
<1>1. message \in Message
  BY DEF Message
<1>2. rest \in Seq(Message) /\ Len(rest) + 1 <= Cap
  <2>1. chan \in Seq(Message) /\ Len(chan) <= Cap /\ Cap \in Nat \ {0} /\ Len(chan) \in Nat
    BY BoundsAssumption DEF TypeOK
  <2>2. CASE Len(chan) = Cap
    <3>1. chan # << >>
      BY <2>1, <2>2
    <3>2. Tail(chan) \in Seq(Message) /\ Len(Tail(chan)) = Len(chan) - 1
      BY <2>1, <3>1, HeadTailProperties
    <3> QED
      BY <2>1, <2>2, <3>2
  <2>3. CASE Len(chan) # Cap
    BY <2>1, <2>3
  <2> QED
    BY <2>2, <2>3
<1>3. chan' = Append(rest, message)
  BY DEF Send
<1>4. Append(rest, message) \in Seq(Message) /\ Len(Append(rest, message)) = Len(rest) + 1
  <2> HIDE DEF rest, message
  <2> QED
    BY <1>1, <1>2, AppendProperties
<1>5. Len(rest) \in Nat
  <2> HIDE DEF rest
  <2> QED
    BY <1>2, LenProperties
<1>6. lost' \subseteq Task
  BY DEF Send, TypeOK
<1> QED
  BY <1>2, <1>3, <1>4, <1>5, <1>6

\* An updated entry shows a task and a status, or nothing.
LEMMA UpdatedType ==
    ASSUME TypeOK, NEW f \in Files
    PROVE  Updated(f) \in Message \cup {NoEntry}
<1>1. CASE \E i \in DOMAIN chan : LastAbout(f, i)
  <2> DEFINE last == CHOOSE i \in DOMAIN chan : LastAbout(f, i)
  <2>1. last \in DOMAIN chan
    BY <1>1
  <2>2. chan[last] \in Message
    <3> HIDE DEF last
    <3> QED
      BY <2>1 DEF TypeOK
  <2> QED
    BY <2>2 DEF Updated, TypeOK
<1>2. CASE ~ \E i \in DOMAIN chan : LastAbout(f, i)
  BY <1>2 DEF Updated, TypeOK
<1> QED
  BY <1>1, <1>2

\* Init establishes the invariant.
LEMMA InitIInv == Init => IInv
<1> SUFFICES ASSUME Init PROVE IInv
  OBVIOUS
<1>1. chan \in Seq(Message) /\ Len(chan) = 0
  BY DEF Init
<1>2. Cap \in Nat /\ MaxTasks \in Nat
  BY BoundsAssumption
<1>3. started \in 0..MaxTasks /\ Len(chan) <= Cap
  BY <1>1, <1>2 DEF Init
<1>4. ctrl \in [Task -> {Downloading, Paused, Cancelled, Pausing}]
  BY DEF Init
<1>5. TypeOK
  BY <1>1, <1>3, <1>4 DEF Init, TypeOK
<1> QED
  BY <1>5 DEF Init, IInv, NotYetStarted, OwnFile, NoPartialLeft, NoTask

\* A step of a task leaves the loop's variables alone and the channel well typed.
LEMMA TaskStepTypes ==
    ASSUME TypeOK, NEW t \in Task, TaskStep(t)
    PROVE  TypeOK'
<1>1. \/ Silent
      \/ \E status \in Status : Send(t, status)
  BY DEF TaskStep, Connect, SeesCancel, SeesEnd, SeesPausing, SeesDownloading, StorePaused,
         TellPaused, Chunk, StreamEnds, ChunkFails, Check, Fail, Status
<1>2. chan' \in Seq(Message) /\ Len(chan') <= Cap /\ lost' \subseteq Task
  BY <1>1, SendKeepsType DEF Silent, TypeOK
<1>3. UNCHANGED <<loopVars, entry, file, token>>
  BY DEF TaskStep, Connect, SeesCancel, SeesEnd, SeesPausing, SeesDownloading, StorePaused,
         TellPaused, Chunk, StreamEnds, ChunkFails, Check, Fail
<1>4. step' \in [Task -> {"none", "connect", "top", "pause", "tell", "chunk", "check",
                          "failing", "failed", "done"}]
  BY DEF TaskStep, Connect, SeesCancel, SeesEnd, SeesPausing, SeesDownloading, StorePaused,
         TellPaused, Chunk, StreamEnds, ChunkFails, Check, Fail, GoTo, TypeOK
<1>5. disk' \in [Files -> Task \cup {NoTask}]
  BY DEF TaskStep, Connect, SeesCancel, SeesEnd, SeesPausing, SeesDownloading, StorePaused,
         TellPaused, Chunk, StreamEnds, ChunkFails, Check, Fail, Remove, TypeOK
<1>6. /\ ctrl' \in [Task -> {Downloading, Paused, Cancelled, Pausing}]
      /\ got' \subseteq Task /\ eof' \subseteq Task
  BY DEF TaskStep, Connect, SeesCancel, SeesEnd, SeesPausing, SeesDownloading, StorePaused,
         TellPaused, Chunk, StreamEnds, ChunkFails, Check, Fail, TypeOK, taskVars
<1> QED
  BY <1>2, <1>3, <1>4, <1>5, <1>6 DEF TypeOK, loopVars

\* A step of a task leaves no partial file: it ends only after it removed what
\* its name holds, and creates a file only as its own.
LEMMA TaskStepFiles ==
    ASSUME IInv, NEW t \in Task, TaskStep(t)
    PROVE  NotYetStarted' /\ OwnFile' /\ NoPartialLeft'
<1> USE DEF IInv, TypeOK, NotYetStarted, OwnFile, NoPartialLeft, loopVars, taskVars, GoTo
<1>0. t # NoTask
  BY DEF Task, NoTask
<1>1. CASE Connect(t)
  <2>1. CASE GoTo(t, "top") /\ disk' = [disk EXCEPT ![file[t]] = t]
    <3>1. \A f \in Files : disk'[f] = disk[f] \/ (disk'[f] = t /\ f = file[t])
      BY <2>1
    <3>2. \A u \in Task : step'[u] = IF u = t THEN "top" ELSE step[u]
      BY <2>1
    <3>3. UNCHANGED <<file, started>> /\ step[t] = "connect"
      BY <1>1 DEF Connect
    <3>4. OwnFile'
      BY <3>1, <3>3
    <3>5. NoPartialLeft'
      BY <3>1, <3>2
    <3> QED
      BY <3>2, <3>3, <3>4, <3>5
  <2>2. CASE GoTo(t, "failing") /\ UNCHANGED disk
    BY <1>1, <2>2 DEF Connect
  <2> QED
    BY <1>1, <2>1, <2>2 DEF Connect
<1>2. CASE SeesCancel(t)
  BY <1>2 DEF SeesCancel, Remove, NoTask, Task
<1>3. CASE SeesEnd(t)
  BY <1>3 DEF SeesEnd
<1>4. CASE SeesPausing(t)
  BY <1>4 DEF SeesPausing
<1>5. CASE SeesDownloading(t)
  BY <1>5 DEF SeesDownloading
<1>6. CASE StorePaused(t)
  BY <1>6 DEF StorePaused
<1>7. CASE TellPaused(t)
  BY <1>7 DEF TellPaused
<1>8. CASE Chunk(t)
  BY <1>8 DEF Chunk
<1>9. CASE StreamEnds(t)
  BY <1>9 DEF StreamEnds
<1>10. CASE ChunkFails(t)
  BY <1>10 DEF ChunkFails, Remove, NoTask, Task
<1>11. CASE Check(t)
  <2>1. CASE t \in got
    BY <1>11, <2>1 DEF Check
  <2>2. CASE t \notin got
    <3>1. \A f \in Files : disk'[f] = IF f = file[t] THEN NoTask ELSE disk[f]
      BY <1>11, <2>2 DEF Check, Remove
    <3>2. \A u \in Task : step'[u] = IF u = t THEN "failing" ELSE step[u]
      BY <1>11, <2>2 DEF Check
    <3>3. UNCHANGED <<file, started>> /\ step[t] = "check"
      BY <1>11 DEF Check
    <3>4. OwnFile' /\ NoPartialLeft'
      BY <3>1, <3>2, <3>3
    <3> QED
      BY <3>2, <3>3, <3>4
  <2> QED
    BY <2>1, <2>2
<1>12. CASE Fail(t)
  BY <1>12 DEF Fail
<1> QED
  BY <1>1, <1>2, <1>3, <1>4, <1>5, <1>6, <1>7, <1>8, <1>9, <1>10, <1>11, <1>12 DEF TaskStep

\* What the keys and the ticks store in an entry stays well typed.
LEMMA LoopTypes ==
    ASSUME TypeOK, LoopStep \/ Key
    PROVE  TypeOK'
<1> USE DEF TypeOK, loopVars, taskVars
<1>1. CASE TickDownloadProgress
  <2>1. entry' \in [Files -> Message \cup {NoEntry}]
    BY <1>1, UpdatedType DEF TickDownloadProgress
  <2>2. chan' \in Seq(Message) /\ Len(chan') <= Cap
    BY <1>1, BoundsAssumption DEF TickDownloadProgress
  <2> QED
    BY <1>1, <2>1, <2>2 DEF TickDownloadProgress
<1>2. CASE TickCompletedDownloads
  BY <1>2 DEF TickCompletedDownloads, AnyEntry
<1>3. CASE Drain
  <2>1. CASE ProcessPendingDownload
    <3>1. started < MaxTasks /\ started \in Nat /\ MaxTasks \in Nat
      BY <2>1, BoundsAssumption DEF ProcessPendingDownload
    <3>2. started + 1 \in Task /\ started + 1 \in 0..MaxTasks
      BY <3>1 DEF Task
    <3> QED
      BY <1>3, <2>1, <3>2 DEF Drain, ProcessPendingDownload
  <2> QED
    BY <1>3, <2>1 DEF Drain
<1>4. CASE NoKey
  BY <1>4 DEF NoKey, KeyUnchanged, NextTurn
<1>5. ASSUME NEW f \in Files, EnterKey(f) PROVE TypeOK'
  BY <1>5 DEF EnterKey, KeyUnchanged, NextTurn
<1>6. ASSUME NEW f \in Files, entry[f] # NoEntry
      PROVE  entry[f].task \in Task /\ entry[f].status \in Status
                /\ \A s \in Status : [entry[f] EXCEPT !.status = s] \in Message
  BY <1>6 DEF Message
<1>7. ASSUME NEW f \in Files, PauseKey(f) PROVE TypeOK'
  <2>1. entry[f] # NoEntry
    BY <1>7 DEF PauseKey, NoEntry
  <2>2. entry' \in [Files -> Message \cup {NoEntry}]
    BY <1>6, <1>7, <2>1 DEF PauseKey, Status
  <2>3. ctrl' \in [Task -> {Downloading, Paused, Cancelled, Pausing}]
    BY <1>7 DEF PauseKey
  <2> QED
    BY <1>7, <2>2, <2>3 DEF PauseKey, KeyUnchanged, NextTurn
<1>8. ASSUME NEW f \in Files, ResumeKey(f) PROVE TypeOK'
  <2>1. entry[f] # NoEntry
    BY <1>8 DEF ResumeKey, NoEntry
  <2>2. entry' \in [Files -> Message \cup {NoEntry}]
    BY <1>6, <1>8, <2>1 DEF ResumeKey, Status
  <2>3. ctrl' \in [Task -> {Downloading, Paused, Cancelled, Pausing}]
    BY <1>8 DEF ResumeKey
  <2> QED
    BY <1>8, <2>2, <2>3 DEF ResumeKey, KeyUnchanged, NextTurn
<1>9. ASSUME NEW f \in Files, CancelKey(f) PROVE TypeOK'
  <2>1. entry[f].task \in Task
    BY <1>6, <1>9 DEF CancelKey
  <2> QED
    BY <1>9, <2>1 DEF CancelKey, KeyUnchanged, NextTurn, AnyEntry
<1> QED
  BY <1>1, <1>2, <1>3, <1>4, <1>5, <1>7, <1>8, <1>9 DEF LoopStep, Key

\* The loop only removes files, and gives a task its file before it begins.
LEMMA LoopFiles ==
    ASSUME IInv, LoopStep \/ Key
    PROVE  NotYetStarted' /\ OwnFile' /\ NoPartialLeft'
<1> USE DEF IInv, TypeOK, NotYetStarted, OwnFile, NoPartialLeft, loopVars, taskVars
<1>1. CASE TickDownloadProgress
  BY <1>1 DEF TickDownloadProgress
<1>2. CASE TickCompletedDownloads
  BY <1>2 DEF TickCompletedDownloads
<1>3. CASE Drain
  <2>1. CASE ProcessPendingDownload /\ started' = started + 1
    <3>1. started + 1 \in Task /\ started \in Nat
      BY <2>1, BoundsAssumption DEF ProcessPendingDownload, Task
    <3>2. step[started + 1] = "none"
      BY <3>1
    <3>3. \A f \in Files : disk[f] # started + 1
      <4>1. started + 1 # NoTask
        BY <3>1 DEF NoTask
      <4> QED
        BY <3>2, <4>1
    <3>4. /\ step' = [step EXCEPT ![started + 1] = "connect"]
          /\ file' = [file EXCEPT ![started + 1] = want]
      BY <2>1, <3>1 DEF ProcessPendingDownload
    <3>5. NotYetStarted'
      BY <2>1, <3>1, <3>4 DEF Task
    <3>6. OwnFile' /\ NoPartialLeft'
      BY <1>3, <3>1, <3>3, <3>4 DEF Drain
    <3> QED
      BY <3>5, <3>6
  <2>2. CASE UNCHANGED <<started, file, step>>
    BY <1>3, <2>2 DEF Drain
  <2> QED
    BY <1>3, <2>1, <2>2 DEF Drain, ProcessPendingDownload
<1>4. CASE NoKey
  BY <1>4 DEF NoKey, KeyUnchanged
<1>5. ASSUME NEW f \in Files, EnterKey(f) \/ PauseKey(f) \/ ResumeKey(f) \/ CancelKey(f)
      PROVE  /\ UNCHANGED <<started, file, step>>
             /\ disk' \in {disk, [disk EXCEPT ![f] = NoTask]}
  BY <1>5 DEF EnterKey, PauseKey, ResumeKey, CancelKey, KeyUnchanged
<1>6. CASE Key
  BY <1>5, <1>6 DEF Key
<1> QED
  BY <1>1, <1>2, <1>3, <1>4, <1>6 DEF LoopStep

\* The invariant is inductive.
LEMMA StepIInv == IInv /\ [Next]_vars => IInv'
<1> SUFFICES ASSUME IInv, [Next]_vars PROVE IInv'
  OBVIOUS
<1>1. ASSUME NEW t \in Task, TaskStep(t) PROVE IInv'
  BY <1>1, TaskStepTypes, TaskStepFiles DEF IInv
<1>2. CASE LoopStep \/ Key
  BY <1>2, LoopTypes, LoopFiles DEF IInv
<1>3. CASE UNCHANGED vars
  BY <1>3 DEF vars, loopVars, taskVars, IInv, TypeOK, NotYetStarted, OwnFile, NoPartialLeft
<1> QED
  BY <1>1, <1>2, <1>3 DEF Next

\* The invariant holds in every reachable state.
LEMMA IInvHolds == Spec => []IInv
  BY InitIInv, StepIInv, PTL DEF Spec

\* Every variable keeps its type; the channel stays within its capacity.
THEOREM TypeCorrect == Spec => []TypeOK
<1>1. IInv => TypeOK
  BY DEF IInv
<1> QED
  BY <1>1, IInvHolds, PTL

\* What a name holds is being written or was written to its end: a download
\* that fails, stalls or is cancelled leaves no partial file, and neither does
\* the second of two downloads of one file.
THEOREM NothingPartialStays == Spec => []NoPartialLeft
<1>1. IInv => NoPartialLeft
  BY DEF IInv
<1> QED
  BY <1>1, IInvHolds, PTL

-----------------------------------------------------------------------------
(* What the panel shows of a pause.                                         *)

\* An entry and a message are those of a task that has begun, and an entry is that
\* of a task of its file.
EntryIsOwn ==
    \A f \in Files :
        entry[f].task # NoTask => file[entry[f].task] = f /\ step[entry[f].task] # "none"

\* Nothing is sent before the task begins.
SendersHaveBegun == \A i \in DOMAIN chan : step[chan[i].task] # "none"

\* Only the task itself stores Paused, and only the loop takes it back.
PausesItself ==
    \A t \in Task : ctrl[t] = Paused => step[t] \notin {"none", "connect", "chunk", "pause"}

\* The task waits in its pause.
Resting(t) == step[t] = "top" /\ ctrl[t] = Paused

\* The last thing that a resting task said is that it paused.
LastOf(t, i) == chan[i].task = t /\ \A j \in DOMAIN chan : j > i => chan[j].task # t

\* What a resting task still has in the channel ends with its pause.
RestingSaidSo ==
    \A t \in Task : Resting(t) =>
        \A i \in DOMAIN chan : LastOf(t, i) => chan[i].status = "Paused"

\* With IInv, the inductive invariant of what is shown of a pause.
ShowInv == EntryIsOwn /\ SendersHaveBegun /\ PausesItself /\ RestingSaidSo /\ PauseIsShown

-----------------------------------------------------------------------------
\* Of some positions up to n one is the last.
LEMMA LastPosition ==
    ASSUME NEW n \in Nat, NEW S, S \subseteq 1..n, S # {}
    PROVE  \E x \in S : \A y \in S : y <= x
<1> DEFINE T == {n - x : x \in S}
<1>0. \A x \in S : x \in 1..n /\ n - x \in Nat
  OBVIOUS
<1>1. T \subseteq Nat /\ T # {}
  BY <1>0
<1>2. PICK d \in T : \A e \in T : ~(<<e, d>> \in OpToRel(<, Nat))
  <2> HIDE DEF T
  <2> QED
    BY <1>1, NatLessThanWellFounded, WFMin
<1>3. \A a, b \in Nat : <<b, a>> \in OpToRel(<, Nat) <=> b < a
  BY DEF OpToRel
<1>4. \A e \in T : e \in Nat /\ d \in Nat /\ ~(e < d)
  BY <1>1, <1>2, <1>3
<1>5. PICK x \in S : d = n - x
  OBVIOUS
<1>6. ASSUME NEW y \in S PROVE y <= x
  <2>1. n - y \in T
    OBVIOUS
  <2>2. ~(n - y < d)
    BY <1>4, <2>1
  <2> QED
    BY <1>5, <2>2
<1> QED
  BY <1>6

\* Entries and messages name tasks.
LEMMA ShownTasks ==
    ASSUME TypeOK
    PROVE  /\ \A f \in Files : entry[f].task \in Task \cup {NoTask}
           /\ \A i \in DOMAIN chan : chan[i].task \in Task
<1>1. \A f \in Files : entry[f] \in Message \cup {NoEntry}
  BY DEF TypeOK
<1>2. \A i \in DOMAIN chan : chan[i] \in Message
  BY DEF TypeOK
<1>3. \A m \in Message : m.task \in Task
  BY DEF Message
<1>4. NoEntry.task = NoTask
  BY DEF NoEntry
<1> QED
  BY <1>1, <1>2, <1>3, <1>4

\* A file that is in the channel has a last message there.
LEMMA LastExists ==
    ASSUME TypeOK, NEW f \in Files, NEW i \in DOMAIN chan, file[chan[i].task] = f
    PROVE  \E k \in DOMAIN chan : LastAbout(f, k)
<1> DEFINE S == {k \in DOMAIN chan : file[chan[k].task] = f}
<1>1. Len(chan) \in Nat /\ DOMAIN chan = 1..Len(chan)
  BY DEF TypeOK
<1>2. S \subseteq 1..Len(chan) /\ S # {}
  BY <1>1
<1>3. PICK x \in S : \A y \in S : y <= x
  <2> HIDE DEF S
  <2> QED
    BY <1>1, <1>2, LastPosition
<1>4. \A j \in DOMAIN chan : j > x => j \notin S
  BY <1>1, <1>3
<1> QED
  BY <1>3, <1>4 DEF LastAbout

\* What a message changes in the channel, for its sender and for the others.
LEMMA SendShows ==
    ASSUME TypeOK, NEW t \in Task, NEW status \in Status, Send(t, status)
    PROVE  /\ InChan(t, chan')
           /\ \A i \in DOMAIN chan' :
                 chan'[i].task = t \/ \E j \in DOMAIN chan : chan'[i] = chan[j]
           /\ \A i \in DOMAIN chan' : LastOf(t, i)' => chan'[i].status = status
           /\ \A u \in Task \ {t} : \A i \in DOMAIN chan' :
                 LastOf(u, i)' => \E j \in DOMAIN chan : LastOf(u, j) /\ chan'[i] = chan[j]
           /\ \A u \in Task \ {t} : ~InChan(u, chan') /\ u \notin lost' =>
                                    ~InChan(u, chan) /\ u \notin lost
<1> DEFINE message == [task |-> t, status |-> status]
           rest == IF Len(chan) = Cap THEN Tail(chan) ELSE chan
           k == IF Len(chan) = Cap THEN 1 ELSE 0
           n == Len(chan) - k
<1>1. chan \in Seq(Message) /\ Len(chan) \in Nat /\ Cap \in Nat \ {0} /\ message \in Message
  BY BoundsAssumption DEF TypeOK, Message
<1>2. rest \in Seq(Message) /\ Len(rest) = n /\ n \in Nat
      /\ \A i \in 1..n : rest[i] = chan[i + k] /\ i + k \in 1..Len(chan)
  BY <1>1
<1>3. chan' = Append(rest, message)
  BY DEF Send
<1>4. /\ DOMAIN chan' = 1..(n + 1)
      /\ \A i \in 1..n : chan'[i] = rest[i]
      /\ chan'[n + 1] = message
  <2> HIDE DEF message, rest, n
  <2> QED
    BY <1>1, <1>2, <1>3
<1>5. DOMAIN chan = 1..Len(chan) /\ k \in {0, 1} /\ n + k = Len(chan)
  BY <1>1
<1>6. InChan(t, chan')
  BY <1>2, <1>4 DEF InChan
<1>7. \A u \in Task \ {t} : ~InChan(u, chan') /\ u \notin lost' =>
                            ~InChan(u, chan) /\ u \notin lost
  BY DEF Send
<1> HIDE DEF rest, k, n
<1>8. ASSUME NEW i \in DOMAIN chan' PROVE i = n + 1 \/ (i \in 1..n /\ chan'[i] = chan[i + k])
  BY <1>2, <1>4
<1>9. ASSUME NEW i \in DOMAIN chan', LastOf(t, i)' PROVE chan'[i].status = status
  <2>1. i = n + 1
    <3> SUFFICES ASSUME i # n + 1 PROVE FALSE
      OBVIOUS
    <3>1. n + 1 \in DOMAIN chan' /\ n + 1 > i
      BY <1>2, <1>4, <1>8, <1>9
    <3> QED
      BY <1>4, <1>9, <3>1 DEF LastOf
  <2> QED
    BY <1>4, <2>1
<1>10. ASSUME NEW u \in Task \ {t}, NEW i \in DOMAIN chan', LastOf(u, i)'
       PROVE  \E j \in DOMAIN chan : LastOf(u, j) /\ chan'[i] = chan[j]
  <2>1. i \in 1..n /\ chan'[i] = chan[i + k] /\ i + k \in DOMAIN chan
    <3>1. chan'[n + 1].task = t
      BY <1>4
    <3>2. chan'[i].task = u /\ i # n + 1
      BY <1>10, <3>1 DEF LastOf
    <3> QED
      BY <1>2, <1>5, <1>8, <3>2
  <2>2. ASSUME NEW j \in DOMAIN chan, j > i + k PROVE chan[j].task # u
    <3>1. j - k \in 1..n /\ (j - k) + k = j /\ j - k > i
      BY <1>1, <1>2, <1>5, <2>1, <2>2
    <3>2. j - k \in DOMAIN chan' /\ chan'[j - k] = chan[j]
      BY <1>2, <1>4, <3>1
    <3> QED
      BY <1>10, <3>1, <3>2 DEF LastOf
  <2>3. LastOf(u, i + k)
    BY <1>10, <2>1, <2>2 DEF LastOf
  <2> QED
    BY <2>1, <2>3
<1>11. \A i \in DOMAIN chan' :
          chan'[i].task = t \/ \E j \in DOMAIN chan : chan'[i] = chan[j]
  BY <1>2, <1>4, <1>5, <1>8
<1> QED
  BY <1>6, <1>7, <1>9, <1>10, <1>11

\* A task that comes to rest tells so.
LEMMA TaskSays ==
    ASSUME TypeOK, PausesItself, NEW t \in Task, TaskStep(t), Resting(t)'
    PROVE  TellPaused(t)
  BY DEF TypeOK, GoTo, TaskStep, Connect, SeesCancel, SeesEnd, SeesPausing, SeesDownloading,
     StorePaused, TellPaused, Chunk, StreamEnds, ChunkFails, Check, Fail, PausesItself, Resting

\* The steps of a task change what is shown of a pause by its messages only.
LEMMA TaskShows ==
    ASSUME IInv, ShowInv, NEW t \in Task, TaskStep(t)
    PROVE  ShowInv'
<1> USE DEF IInv, ShowInv, TypeOK, GoTo
<1>1. /\ UNCHANGED <<entry, file>> /\ step[t] # "none" /\ step'[t] # "none"
      /\ \A u \in Task \ {t} : step'[u] = step[u] /\ ctrl'[u] = ctrl[u]
  BY DEF TaskStep, Connect, SeesCancel, SeesEnd, SeesPausing, SeesDownloading, StorePaused,
     TellPaused, Chunk, StreamEnds, ChunkFails, Check, Fail
<1>2. EntryIsOwn'
  BY <1>1, ShownTasks DEF EntryIsOwn
<1>3. PausesItself'
  <2>1. ctrl'[t] = Paused => step'[t] \notin {"none", "connect", "chunk", "pause"}
    BY DEF TaskStep, Connect, SeesCancel, SeesEnd, SeesPausing, SeesDownloading, StorePaused,
       TellPaused, Chunk, StreamEnds, ChunkFails, Check, Fail, PausesItself, Downloading,
       Paused, Pausing, Cancelled
  <2> QED
    BY <1>1, <2>1 DEF PausesItself
<1>4. Resting(t)' => Send(t, "Paused")
  BY TaskSays DEF TellPaused
<1>5. CASE Silent /\ ~Resting(t)'
  <2>1. ~Resting(t)'
    BY <1>5
  <2>2. SendersHaveBegun'
    BY <1>1, <1>5, ShownTasks DEF Silent, SendersHaveBegun
  <2>3. RestingSaidSo'
    BY <1>1, <1>5, <2>1 DEF Silent, RestingSaidSo, Resting, LastOf
  <2>4. PauseIsShown'
    <3> SUFFICES ASSUME NEW f \in Files, entry[f].task # NoTask, step'[entry[f].task] = "top",
                        ctrl'[entry[f].task] = Paused, ~InChan(entry[f].task, chan),
                        entry[f].task \notin lost
                 PROVE  entry[f].status = "Paused"
      BY <1>1, <1>5 DEF Silent, PauseIsShown
    <3>1. entry[f].task \in Task \ {t}
      BY <2>1 DEF Resting, Message, NoEntry
    <3> QED
      BY <1>1, <3>1 DEF PauseIsShown
  <2> QED
    BY <1>2, <1>3, <2>2, <2>3, <2>4
<1>6. ASSUME NEW status \in Status, Send(t, status), Resting(t)' => status = "Paused"
      PROVE  ShowInv'
  <2>1. Resting(t)' => status = "Paused"
    BY <1>6
  <2>2. SendersHaveBegun'
    <3> SUFFICES ASSUME NEW i \in DOMAIN chan' PROVE step'[chan'[i].task] # "none"
      BY DEF SendersHaveBegun
    <3>1. chan'[i].task = t \/ \E j \in DOMAIN chan : chan'[i] = chan[j]
      BY <1>6, SendShows
    <3> QED
      BY <1>1, <3>1, ShownTasks DEF SendersHaveBegun
  <2>3. RestingSaidSo'
    <3> SUFFICES ASSUME NEW u \in Task, Resting(u)', NEW i \in DOMAIN chan', LastOf(u, i)'
                 PROVE  chan'[i].status = "Paused"
      BY DEF RestingSaidSo
    <3>1. CASE u = t
      BY <1>6, <2>1, <3>1, SendShows
    <3>2. CASE u # t
      <4>1. PICK j \in DOMAIN chan : LastOf(u, j) /\ chan'[i] = chan[j]
        BY <1>6, <3>2, SendShows
      <4>2. Resting(u)
        BY <1>1, <3>2 DEF Resting
      <4> QED
        BY <4>1, <4>2 DEF RestingSaidSo
    <3> QED
      BY <3>1, <3>2
  <2>4. PauseIsShown'
    <3> SUFFICES ASSUME NEW f \in Files, entry[f].task # NoTask, step'[entry[f].task] = "top",
                        ctrl'[entry[f].task] = Paused, ~InChan(entry[f].task, chan'),
                        entry[f].task \notin lost'
                 PROVE  entry[f].status = "Paused"
      BY <1>1 DEF PauseIsShown
    <3>1. entry[f].task \in Task \ {t}
      BY <1>6, SendShows DEF Message, NoEntry
    <3>2. ~InChan(entry[f].task, chan) /\ entry[f].task \notin lost
      BY <1>6, <3>1, SendShows
    <3> QED
      BY <1>1, <3>1, <3>2 DEF PauseIsShown
  <2> QED
    BY <1>2, <1>3, <2>2, <2>3, <2>4
<1>7. Silent \/ \E status \in Status : Send(t, status)
  BY DEF TaskStep, Connect, SeesCancel, SeesEnd, SeesPausing, SeesDownloading, StorePaused,
     TellPaused, Chunk, StreamEnds, ChunkFails, Check, Fail, Status
<1>8. "Paused" \in Status
  BY DEF Status
<1> QED
  BY <1>4, <1>5, <1>6, <1>7, <1>8

\* The messages the loop reads put the last one about a file in its entry.
LEMMA ReadShows ==
    ASSUME IInv, ShowInv, TickDownloadProgress
    PROVE  ShowInv'
<1> USE DEF IInv, ShowInv, TypeOK
<1>1. /\ UNCHANGED <<step, file, ctrl, lost>> /\ chan' = << >>
      /\ entry' = [f \in Files |-> Updated(f)]
  BY DEF TickDownloadProgress, taskVars
<1>2. ASSUME NEW f \in Files, \E i \in DOMAIN chan : LastAbout(f, i)
      PROVE  LET k == CHOOSE i \in DOMAIN chan : LastAbout(f, i)
             IN k \in DOMAIN chan /\ LastAbout(f, k) /\ chan[k] \in Message
  <2> DEFINE k == CHOOSE i \in DOMAIN chan : LastAbout(f, i)
  <2>1. k \in DOMAIN chan /\ LastAbout(f, k)
    BY <1>2
  <2> HIDE DEF k
  <2>2. chan[k] \in Message
    BY <2>1
  <2> QED
    BY <2>1, <2>2 DEF k
<1>3. ASSUME NEW f \in Files
      PROVE  \/ \E k \in DOMAIN chan : LastAbout(f, k) /\ entry'[f] = chan[k]
             \/ /\ entry'[f] = entry[f]
                /\ entry[f] # NoEntry => \A k \in DOMAIN chan : ~LastAbout(f, k)
  BY <1>1, <1>2 DEF Updated
<1>4. EntryIsOwn'
  BY <1>1, <1>3 DEF EntryIsOwn, SendersHaveBegun, LastAbout
<1>5. SendersHaveBegun' /\ RestingSaidSo'
  BY <1>1 DEF SendersHaveBegun, RestingSaidSo
<1>6. PausesItself'
  BY <1>1 DEF PausesItself
<1>7. PauseIsShown'
  <2> SUFFICES ASSUME NEW f \in Files, entry'[f].task # NoTask, Resting(entry'[f].task),
                      entry'[f].task \notin lost
               PROVE  entry'[f].status = "Paused"
    BY <1>1 DEF PauseIsShown, Resting
  <2>1. CASE \E k \in DOMAIN chan : LastAbout(f, k) /\ entry'[f] = chan[k]
    <3>1. PICK k \in DOMAIN chan : LastAbout(f, k) /\ entry'[f] = chan[k]
      BY <2>1
    <3>2. LastOf(chan[k].task, k)
      BY <3>1 DEF LastAbout, LastOf
    <3>3. chan[k].task \in Task
      BY <3>1, ShownTasks
    <3> QED
      BY <3>1, <3>2, <3>3 DEF RestingSaidSo
  <2>2. CASE ~ \E k \in DOMAIN chan : LastAbout(f, k) /\ entry'[f] = chan[k]
    <3>1. entry'[f] = entry[f] /\ \A k \in DOMAIN chan : ~LastAbout(f, k)
      BY <1>3, <2>2 DEF NoEntry
    <3>2. file[entry[f].task] = f
      BY <3>1 DEF EntryIsOwn
    <3>3. ~InChan(entry[f].task, chan)
      BY <3>1, <3>2, LastExists DEF InChan
    <3> QED
      BY <3>1, <3>3 DEF PauseIsShown, Resting
  <2> QED
    BY <2>1, <2>2
<1> QED
  BY <1>4, <1>5, <1>6, <1>7

\* What the keys and the other ticks store.
LEMMA LoopShows ==
    ASSUME IInv, ShowInv, LoopStep \/ Key, ~TickDownloadProgress
    PROVE  ShowInv'
<1> USE DEF IInv, ShowInv, TypeOK, taskVars, loopVars
<1>e. ASSUME UNCHANGED <<chan, lost, step, file>>,
             \A f \in Files : entry'[f] = entry[f] \/ entry'[f] = NoEntry,
             \A t \in Task : ctrl'[t] = Paused => ctrl[t] = Paused
      PROVE  ShowInv'
  <2>1. EntryIsOwn' /\ SendersHaveBegun' /\ PausesItself'
    BY <1>e DEF EntryIsOwn, SendersHaveBegun, PausesItself, NoEntry
  <2>2. RestingSaidSo'
    BY <1>e DEF RestingSaidSo, Resting, LastOf
  <2>3. PauseIsShown'
    <3> SUFFICES ASSUME NEW f \in Files, entry'[f].task # NoTask, step[entry'[f].task] = "top",
                        ctrl'[entry'[f].task] = Paused, ~InChan(entry'[f].task, chan),
                        entry'[f].task \notin lost
                 PROVE  entry'[f].status = "Paused"
      BY <1>e DEF PauseIsShown
    <3>1. entry'[f] = entry[f] /\ entry[f].task \in Task
      BY <1>e DEF NoEntry, Message
    <3> QED
      BY <1>e, <3>1 DEF PauseIsShown
  <2> QED
    BY <2>1, <2>2, <2>3
<1>1. CASE TickCompletedDownloads \/ NoKey
  BY <1>1, <1>e DEF TickCompletedDownloads, NoKey, KeyUnchanged
<1>2. CASE Drain
  <2>1. CASE UNCHANGED <<started, file, step>>
    BY <1>2, <1>e, <2>1 DEF Drain
  <2>2. CASE ProcessPendingDownload /\ started' = started + 1
    <3> DEFINE u == started + 1
    <3>1. u \in Task /\ step[u] = "none"
      BY <2>2, BoundsAssumption DEF ProcessPendingDownload, Task, NotYetStarted
    <3> HIDE DEF u
    <3>2. /\ step' = [step EXCEPT ![u] = "connect"] /\ file' = [file EXCEPT ![u] = want]
          /\ UNCHANGED <<entry, chan, lost, ctrl>>
      BY <1>2, <2>2, <3>1 DEF Drain, ProcessPendingDownload, u
    <3>3. \A t \in Task \ {u} : step'[t] = step[t] /\ file'[t] = file[t]
      BY <3>2
    <3>4. step'[u] = "connect" /\ ctrl[u] # Paused
      BY <3>1, <3>2 DEF PausesItself
    <3>5. \A f \in Files : entry[f].task \in Task \cup {NoTask}
      BY ShownTasks
    <3>6. \A i \in DOMAIN chan : chan[i].task \in Task
      BY ShownTasks
    <3>7. EntryIsOwn' /\ SendersHaveBegun' /\ PausesItself'
      BY <3>1, <3>2, <3>3, <3>4, <3>5, <3>6 DEF EntryIsOwn, SendersHaveBegun, PausesItself
    <3>8. RestingSaidSo'
      BY <3>2, <3>3, <3>4 DEF RestingSaidSo, Resting, LastOf
    <3>9. PauseIsShown'
      BY <3>2, <3>3, <3>4, <3>5 DEF PauseIsShown
    <3> QED
      BY <3>7, <3>8, <3>9
  <2> QED
    BY <1>2, <2>1, <2>2 DEF Drain, ProcessPendingDownload
<1>3. ASSUME NEW f \in Files, EnterKey(f) \/ CancelKey(f) PROVE ShowInv'
  BY <1>3, <1>e DEF EnterKey, CancelKey, KeyUnchanged, Cancelled, Paused
<1>4. ASSUME NEW f \in Files, NEW status, NEW byte, byte # Paused,
             entry[f].task \in Task,
             entry' = [entry EXCEPT ![f].status = status],
             ctrl' = [ctrl EXCEPT ![entry[f].task] = byte],
             UNCHANGED <<chan, lost, step, file>>
      PROVE  ShowInv'
  <2>1. /\ entry'[f] = [entry[f] EXCEPT !.status = status] /\ entry'[f].task = entry[f].task
        /\ \A g \in Files \ {f} : entry'[g] = entry[g]
    BY <1>4 DEF Message, NoEntry
  <2>2. \A t \in Task : ctrl'[t] = IF t = entry[f].task THEN byte ELSE ctrl[t]
    BY <1>4
  <2>3. EntryIsOwn' /\ SendersHaveBegun' /\ PausesItself'
    BY <1>4, <2>1, <2>2 DEF EntryIsOwn, SendersHaveBegun, PausesItself
  <2>4. RestingSaidSo'
    BY <1>4, <2>2 DEF RestingSaidSo, Resting, LastOf
  <2>5. PauseIsShown'
    <3> SUFFICES ASSUME NEW g \in Files, entry'[g].task # NoTask, step[entry'[g].task] = "top",
                        ctrl'[entry'[g].task] = Paused, ~InChan(entry'[g].task, chan),
                        entry'[g].task \notin lost
                 PROVE  entry'[g].status = "Paused"
      BY <1>4 DEF PauseIsShown
    <3>1. g # f
      BY <1>4, <2>1, <2>2
    <3>2. entry'[g] = entry[g] /\ entry[g].task \in Task
      BY <2>1, <3>1 DEF Message, NoEntry
    <3> QED
      BY <2>2, <3>2, <1>4 DEF PauseIsShown
  <2> QED
    BY <2>3, <2>4, <2>5
<1>5. ASSUME NEW f \in Files, PauseKey(f) \/ ResumeKey(f) PROVE ShowInv'
  <2>1. entry[f].task \in Task
    BY <1>5 DEF PauseKey, ResumeKey, NoEntry, Message
  <2>2. CASE PauseKey(f)
    <3>1. /\ entry' = [entry EXCEPT ![f].status = "Pausing"]
          /\ ctrl' = [ctrl EXCEPT ![entry[f].task] = Pausing]
          /\ UNCHANGED <<chan, lost, step, file>> /\ Pausing # Paused
      BY <2>2 DEF PauseKey, KeyUnchanged, Pausing, Paused
    <3> QED
      BY <1>4, <2>1, <3>1
  <2>3. CASE ResumeKey(f)
    <3>1. /\ entry' = [entry EXCEPT ![f].status = "Downloading"]
          /\ ctrl' = [ctrl EXCEPT ![entry[f].task] = Downloading]
          /\ UNCHANGED <<chan, lost, step, file>> /\ Downloading # Paused
      BY <2>3 DEF ResumeKey, KeyUnchanged, Downloading, Paused
    <3> QED
      BY <1>4, <2>1, <3>1
  <2> QED
    BY <1>5, <2>2, <2>3
<1> QED
  BY <1>1, <1>2, <1>3, <1>5 DEF LoopStep, Key

\* The two invariants hold together.
LEMMA ShowHolds == Spec => [](IInv /\ ShowInv)
<1>1. Init => ShowInv
  BY DEF Init, ShowInv, EntryIsOwn, SendersHaveBegun, PausesItself, RestingSaidSo, Resting,
     PauseIsShown, NoEntry, Downloading, Paused
<1>2. IInv /\ ShowInv /\ [Next]_vars => ShowInv'
  <2> SUFFICES ASSUME IInv, ShowInv, [Next]_vars PROVE ShowInv'
    OBVIOUS
  <2>1. CASE UNCHANGED vars
    BY <2>1 DEF vars, loopVars, taskVars, ShowInv, EntryIsOwn, SendersHaveBegun, PausesItself,
       RestingSaidSo, Resting, LastOf, PauseIsShown
  <2> QED
    BY <2>1, TaskShows, ReadShows, LoopShows DEF Next, LoopStep
<1> QED
  BY <1>1, <1>2, InitIInv, StepIInv, PTL DEF Spec

\* A download that rests in its pause is shown as paused, so p resumes it: whatever
\* the order of pauses, resumes, cancels, stale and dropped messages, and however many
\* downloads of one file there are, as soon as its last message was read.
THEOREM PauseShows == Spec => []PauseIsShown
<1>1. ShowInv => PauseIsShown
  BY DEF ShowInv
<1> QED
  BY <1>1, ShowHolds, PTL

-----------------------------------------------------------------------------
(* What the panel shows of an end.                                          *)

\* A task at its end has told so, the one that checks its file already.
AtEnd(t) == step[t] \in {"check", "done", "failed"}
Ends == {"Complete", "Error", "Cancelled"}

\* What a task at its end still has in the channel ends with a status of its end.
EndedSaidSo ==
    \A t \in Task : AtEnd(t) => \A i \in DOMAIN chan : LastOf(t, i) => chan[i].status \in Ends

\* When the loop has read all of it, and nothing of it was lost, so does the entry.
EndShown ==
    \A f \in Files :
        LET t == entry[f].task
        IN t # NoTask /\ AtEnd(t) /\ ~InChan(t, chan) /\ t \notin lost
              => entry[f].status \in Ends

\* With the invariants before, the inductive invariant of what is shown of an end.
EndInv == EndedSaidSo /\ EndShown

\* A step that leads a task to its end, or keeps it there, says so or says nothing.
LEMMA EndSays ==
    ASSUME TypeOK, NEW t \in Task, TaskStep(t), AtEnd(t)'
    PROVE  (Silent /\ AtEnd(t)) \/ \E status \in Ends : Send(t, status)
  BY DEF TypeOK, GoTo, TaskStep, Connect, SeesCancel, SeesEnd, SeesPausing, SeesDownloading,
     StorePaused, TellPaused, Chunk, StreamEnds, ChunkFails, Check, Fail, AtEnd, Ends

\* The steps of a task change what is shown of its end by its messages only.
LEMMA TaskEnds ==
    ASSUME IInv, ShowInv, EndInv, NEW t \in Task, TaskStep(t)
    PROVE  EndInv'
<1> USE DEF IInv, TypeOK, GoTo
<1>1. /\ UNCHANGED <<entry, file>> /\ \A u \in Task \ {t} : step'[u] = step[u]
      /\ Silent \/ \E status \in Status : Send(t, status)
  BY DEF TaskStep, Connect, SeesCancel, SeesEnd, SeesPausing, SeesDownloading, StorePaused,
     TellPaused, Chunk, StreamEnds, ChunkFails, Check, Fail, Status
<1>2. \A f \in Files : entry[f].task \in Task \cup {NoTask}
  BY ShownTasks
<1>3. CASE Silent /\ (AtEnd(t)' => AtEnd(t))
  <2>1. \A u \in Task : AtEnd(u)' => AtEnd(u)
    BY <1>1, <1>3 DEF AtEnd
  <2>2. EndedSaidSo'
    BY <1>3, <2>1 DEF Silent, EndInv, EndedSaidSo, LastOf
  <2>3. EndShown'
    BY <1>1, <1>2, <1>3, <2>1 DEF Silent, EndInv, EndShown
  <2> QED
    BY <2>2, <2>3 DEF EndInv
<1>4. ASSUME NEW status \in Status, Send(t, status), AtEnd(t)' => status \in Ends
      PROVE  EndInv'
  <2>1. EndedSaidSo'
    <3> SUFFICES ASSUME NEW u \in Task, AtEnd(u)', NEW i \in DOMAIN chan', LastOf(u, i)'
                 PROVE  chan'[i].status \in Ends
      BY DEF EndedSaidSo
    <3>1. CASE u = t
      BY <1>4, <3>1, SendShows
    <3>2. CASE u # t
      <4>1. PICK j \in DOMAIN chan : LastOf(u, j) /\ chan'[i] = chan[j]
        BY <1>4, <3>2, SendShows
      <4>2. AtEnd(u)
        BY <1>1, <3>2 DEF AtEnd
      <4> QED
        BY <4>1, <4>2 DEF EndInv, EndedSaidSo
    <3> QED
      BY <3>1, <3>2
  <2>2. EndShown'
    <3> SUFFICES ASSUME NEW f \in Files, entry[f].task # NoTask, AtEnd(entry[f].task)',
                        ~InChan(entry[f].task, chan'), entry[f].task \notin lost'
                 PROVE  entry[f].status \in Ends
      BY <1>1 DEF EndShown, AtEnd
    <3>1. entry[f].task \in Task \ {t}
      BY <1>2, <1>4, SendShows
    <3>2. ~InChan(entry[f].task, chan) /\ entry[f].task \notin lost
      BY <1>4, <3>1, SendShows
    <3>3. AtEnd(entry[f].task)
      BY <1>1, <3>1 DEF AtEnd
    <3> QED
      BY <3>1, <3>2, <3>3 DEF EndInv, EndShown
  <2> QED
    BY <2>1, <2>2 DEF EndInv
<1>5. Ends \subseteq Status
  BY DEF Ends, Status
<1>6. CASE AtEnd(t)'
  BY <1>3, <1>4, <1>5, <1>6, EndSays
<1>7. CASE ~AtEnd(t)'
  BY <1>1, <1>3, <1>4, <1>7
<1> QED
  BY <1>6, <1>7

\* The messages the loop reads put the last one about a file in its entry.
LEMMA ReadEnds ==
    ASSUME IInv, ShowInv, EndInv, TickDownloadProgress
    PROVE  EndInv'
<1> USE DEF IInv, TypeOK
<1>1. /\ UNCHANGED <<step, file, lost>> /\ chan' = << >>
      /\ entry' = [f \in Files |-> Updated(f)]
  BY DEF TickDownloadProgress, taskVars
<1>2. ASSUME NEW f \in Files, \E i \in DOMAIN chan : LastAbout(f, i)
      PROVE  \E k \in DOMAIN chan :
                 /\ LastAbout(f, k) /\ k = CHOOSE i \in DOMAIN chan : LastAbout(f, i)
  BY <1>2
<1>3. ASSUME NEW f \in Files
      PROVE  \/ \E k \in DOMAIN chan : LastAbout(f, k) /\ entry'[f] = chan[k]
             \/ /\ entry'[f] = entry[f]
                /\ entry[f] # NoEntry => \A k \in DOMAIN chan : ~LastAbout(f, k)
  BY <1>1, <1>2 DEF Updated
<1>4. EndedSaidSo'
  BY <1>1 DEF EndedSaidSo
<1>5. EndShown'
  <2> SUFFICES ASSUME NEW f \in Files, entry'[f].task # NoTask, AtEnd(entry'[f].task),
                      entry'[f].task \notin lost
               PROVE  entry'[f].status \in Ends
    BY <1>1 DEF EndShown, AtEnd
  <2>1. CASE \E k \in DOMAIN chan : LastAbout(f, k) /\ entry'[f] = chan[k]
    <3>1. PICK k \in DOMAIN chan : LastAbout(f, k) /\ entry'[f] = chan[k]
      BY <2>1
    <3>2. LastOf(chan[k].task, k)
      BY <3>1 DEF LastAbout, LastOf
    <3>3. chan[k].task \in Task
      BY <3>1, ShownTasks
    <3> QED
      BY <3>1, <3>2, <3>3 DEF EndInv, EndedSaidSo
  <2>2. CASE ~ \E k \in DOMAIN chan : LastAbout(f, k) /\ entry'[f] = chan[k]
    <3>1. entry'[f] = entry[f] /\ \A k \in DOMAIN chan : ~LastAbout(f, k)
      BY <1>3, <2>2 DEF NoEntry
    <3>2. file[entry[f].task] = f
      BY <3>1 DEF ShowInv, EntryIsOwn
    <3>3. ~InChan(entry[f].task, chan)
      BY <3>1, <3>2, LastExists DEF InChan
    <3> QED
      BY <3>1, <3>3 DEF EndInv, EndShown
  <2> QED
    BY <2>1, <2>2
<1> QED
  BY <1>4, <1>5 DEF EndInv

\* Keys change the status only of an entry that goes on: it does not show an end, so
\* its task has none that was read.
LEMMA LoopEnds ==
    ASSUME IInv, ShowInv, EndInv, LoopStep \/ Key, ~TickDownloadProgress
    PROVE  EndInv'
<1> USE DEF IInv, TypeOK, taskVars, loopVars
<1>1. UNCHANGED <<chan, lost>>
  BY DEF LoopStep, TickCompletedDownloads, Drain, NoKey, Key, EnterKey, PauseKey, ResumeKey,
     CancelKey, KeyUnchanged
<1>2. \A u \in Task : AtEnd(u)' => AtEnd(u)
  <2>1. step' = step \/ \E u \in Task : step' = [step EXCEPT ![u] = "connect"]
    <3>1. CASE Drain
      BY <3>1, BoundsAssumption DEF Drain, ProcessPendingDownload, Task
    <3>2. CASE ~Drain
      BY <3>2 DEF LoopStep, TickCompletedDownloads, NoKey, Key, EnterKey, PauseKey, ResumeKey,
         CancelKey, KeyUnchanged
    <3> QED
      BY <3>1, <3>2
  <2> QED
    BY <2>1 DEF AtEnd
<1>3. ASSUME NEW f \in Files
      PROVE  \/ entry'[f] \in {entry[f], NoEntry}
             \/ /\ entry'[f].task = entry[f].task /\ entry[f].task \in Task
                /\ entry[f].status \in {"Downloading", "Paused"}
  <2>1. entry[f] \in Message \cup {NoEntry}
    OBVIOUS
  <2>2. CASE TickCompletedDownloads \/ Drain \/ NoKey
    BY <2>2 DEF TickCompletedDownloads, Drain, NoKey
  <2>3. CASE \E g \in Files : EnterKey(g) \/ CancelKey(g)
    BY <2>3 DEF EnterKey, CancelKey
  <2>4. CASE \E g \in Files : PauseKey(g) \/ ResumeKey(g)
    BY <2>1, <2>4 DEF PauseKey, ResumeKey, Message, NoEntry
  <2> QED
    BY <2>2, <2>3, <2>4 DEF LoopStep, Key
<1>4. EndedSaidSo'
  BY <1>1, <1>2 DEF EndInv, EndedSaidSo, LastOf
<1>5. EndShown'
  <2> SUFFICES ASSUME NEW f \in Files, entry'[f].task # NoTask,
                      step'[entry'[f].task] \in {"check", "done", "failed"},
                      ~InChan(entry'[f].task, chan), entry'[f].task \notin lost
               PROVE  entry'[f].status \in Ends
    BY <1>1 DEF EndShown, AtEnd
  <2>1. entry'[f] # NoEntry
    BY DEF NoEntry
  <2>2. entry'[f].task = entry[f].task /\ entry[f].task \in Task
    BY <1>3, <2>1, ShownTasks
  <2>3. AtEnd(entry[f].task)
    BY <1>2, <2>2 DEF AtEnd
  <2>4. entry[f].status \in Ends
    BY <2>2, <2>3 DEF EndInv, EndShown
  <2>5. entry'[f] = entry[f]
    BY <1>3, <2>1, <2>4 DEF Ends
  <2> QED
    BY <2>4, <2>5
<1> QED
  BY <1>4, <1>5 DEF EndInv

\* Once the last message of a download that ended was read, its entry shows that it
\* ended: no key, no other download of the file and no stale message puts it back to
\* one that goes on, and the completion tick finds it.  (async_ops.rs:332, 421)
THEOREM EndsAreShown == Spec => []EndIsShown
<1>1. Init => EndInv
  BY DEF Init, EndInv, EndedSaidSo, EndShown, AtEnd, NoEntry
<1>2. IInv /\ ShowInv /\ EndInv /\ [Next]_vars => EndInv'
  <2> SUFFICES ASSUME IInv, ShowInv, EndInv, [Next]_vars PROVE EndInv'
    OBVIOUS
  <2>1. CASE UNCHANGED vars
    BY <2>1 DEF vars, loopVars, taskVars, EndInv, EndedSaidSo, EndShown, AtEnd, LastOf
  <2> QED
    BY <2>1, TaskEnds, ReadEnds, LoopEnds DEF Next, LoopStep
<1>3. EndInv => EndIsShown
  BY DEF EndInv, EndShown, EndIsShown, AtEnd, Ends, Over
<1> QED
  BY <1>1, <1>2, <1>3, ShowHolds, PTL DEF Spec
=============================================================================
