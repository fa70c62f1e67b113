------------------------ MODULE ServerProcessProofs ------------------------
(***************************************************************************)
(* The safety properties of ServerProcess for every number of streams,     *)
(* holders and lines, and that it implements ServerContract.               *)
(***************************************************************************)
EXTENDS ServerProcess, TLAPS

\* The kill branch is given up only when nobody can send any more, and a
\* merge loop that is left with the child running has given it up.
KillBranchInv ==
    /\ ~killOpen => killQ = 0 /\ Senders = {}
    /\ child = "running" /\ task # "merge" => ~killOpen
    /\ child = "running" /\ SomeSent => killQ = 1

\* A stream counts as closed only after its reader ended.
ReaderInv ==
    /\ \A s \in Streams : ~open[s] => reader[s] \in Finished
    /\ JoinNeverBlocks

\* Past its wait the spawn task has reaped the child.
ReapedInv ==
    /\ task \in {"notify", "log", "done"} => child = "reaped"
    /\ exitQ = 1 => task \in {"log", "done"}
    /\ verdict \in {"Exited", "Gone", "Forced"} => child = "reaped"

\* The inductive invariant.
IInv == TypeOK /\ KillBranchInv /\ ReaderInv /\ ReapedInv

-----------------------------------------------------------------------------
\* Every state of the spawn task, its readers, the holders and ensure_killed
\* is well formed, whatever the capacities are.
LEMMA TypeInit == Init => TypeOK
  BY CapAssumption DEF Init, TypeOK

\* The types, by every step.
LEMMA TypeStep == TypeOK /\ [Next]_vars => TypeOK'
<1> SUFFICES ASSUME TypeOK, [Next]_vars PROVE TypeOK'
  OBVIOUS
<1> USE CapAssumption DEF TypeOK, childVars, readerVars, taskVars, killVars, ensureVars
<1>1. CASE ChildStep
  <2>1. CASE ChildExit
    BY <2>1 DEF ChildExit, Orphaned
  <2>2. ASSUME NEW s \in Streams, Write(s) \/ CloseStream(s) \/ HeirExit(s)
        PROVE  TypeOK'
    BY <2>2 DEF Write, CloseStream, HeirExit
  <2> QED
    BY <1>1, <2>1, <2>2 DEF ChildStep
<1>2. ASSUME NEW s \in Streams, ReaderStep(s) PROVE TypeOK'
  BY <1>2 DEF ReaderStep, ReadLine, ReadEof, SendLine
<1>3. CASE TaskStep
  <2>1. ASSUME NEW s \in Streams, MergeLine(s) PROVE TypeOK'
    BY <2>1 DEF MergeLine, TrySend
  <2>2. ASSUME NEW s \in Streams, MergeClosed(s) PROVE TypeOK'
    BY <2>2 DEF MergeClosed, Reap, TrySend
  <2>3. CASE MergeKill
    BY <2>3 DEF MergeKill, Orphaned, TrySend
  <2>4. CASE MergeNoSenders
    BY <2>4 DEF MergeNoSenders
  <2>7. CASE MergeExited
    BY <2>7 DEF MergeExited
  <2>8. CASE MergeEnd
    BY <2>8 DEF MergeEnd
  <2>9. CASE JoinReaders
    BY <2>9 DEF JoinReaders
  <2>5. CASE LateKill
    BY <2>5 DEF LateKill, Orphaned, TrySend
  <2>6. CASE WaitChild \/ NotifyExit \/ LogExit
    BY <2>6 DEF WaitChild, NotifyExit, LogExit
  <2> QED
    BY <1>3, <2>1, <2>2, <2>3, <2>4, <2>5, <2>6, <2>7, <2>8, <2>9 DEF TaskStep
<1>4. ASSUME NEW k \in Killers, KillerStep(k) PROVE TypeOK'
  BY <1>4 DEF KillerStep, CallKill, KillAccepted, KillRefused, DropHandle
<1>5. CASE DrainLog \/ TickServerExit \/ ReplaceExitRx
  BY <1>5 DEF DrainLog, TickServerExit, ReplaceExitRx
<1>6. CASE EnsureStep
  <2>1. CASE EnsureStart \/ EnsureRecv \/ EnsureTimeout \/ EnsureProbe \/ EnsurePoll
    BY <2>1 DEF EnsureStart, EnsureRecv, EnsureTimeout, EnsureProbe, EnsurePoll
  <2>2. CASE EnsureSignal
    BY <2>2 DEF EnsureSignal, Orphaned
  <2> QED
    BY <1>6, <2>1, <2>2 DEF EnsureStep
<1>7. CASE UNCHANGED vars
  BY <1>7 DEF vars
<1> QED
  BY <1>1, <1>2, <1>3, <1>4, <1>5, <1>6, <1>7 DEF Next

\* The type invariant of the process model holds in every reachable state.
THEOREM TypeCorrect == Spec => []TypeOK
<1>1. Init => TypeOK
  BY TypeInit
<1>2. TypeOK /\ [Next]_vars => TypeOK'
  BY TypeStep
<1> QED
  BY <1>1, <1>2, PTL DEF Spec

-----------------------------------------------------------------------------
(* The three parts of the inductive invariant, one lemma each.              *)

\* The kill channel is never abandoned while a holder could still use it, and
\* no step takes an accepted request away from a running child.
LEMMA KillBranchStep ==
    ASSUME TypeOK, KillBranchInv, [Next]_vars
    PROVE  KillBranchInv'
<1> USE DEF KillBranchInv, childVars, readerVars, taskVars, killVars, ensureVars,
            Senders, SomeSent
<1>1. CASE ChildStep
  <2>1. CASE ChildExit
    BY <2>1 DEF ChildExit
  <2>2. ASSUME NEW s \in Streams, Write(s) \/ CloseStream(s) \/ HeirExit(s)
        PROVE  KillBranchInv'
    BY <2>2 DEF Write, CloseStream, HeirExit
  <2> QED
    BY <1>1, <2>1, <2>2 DEF ChildStep
<1>2. ASSUME NEW s \in Streams, ReaderStep(s) PROVE KillBranchInv'
  BY <1>2 DEF ReaderStep, ReadLine, ReadEof, SendLine
<1>3. CASE TaskStep
  <2>1. ASSUME NEW s \in Streams, MergeLine(s) PROVE KillBranchInv'
    BY <2>1 DEF MergeLine
  <2>2. ASSUME NEW s \in Streams, MergeClosed(s) PROVE KillBranchInv'
    BY <2>2 DEF MergeClosed, Reap
  <2>3. CASE MergeKill
    BY <2>3 DEF MergeKill
  <2>4. CASE MergeNoSenders
    BY <2>4 DEF MergeNoSenders
  <2>5. CASE MergeExited
    BY <2>5 DEF MergeExited
  <2>6. CASE MergeEnd
    BY <2>6 DEF MergeEnd, Listening
  <2>7. CASE JoinReaders
    BY <2>7 DEF JoinReaders
  <2>8. CASE LateKill
    BY <2>8 DEF LateKill
  <2>9. CASE WaitChild \/ NotifyExit \/ LogExit
    BY <2>9 DEF WaitChild, NotifyExit, LogExit
  <2> QED
    BY <1>3, <2>1, <2>2, <2>3, <2>4, <2>5, <2>6, <2>7, <2>8, <2>9 DEF TaskStep
<1>4. ASSUME NEW k \in Killers, KillerStep(k) PROVE KillBranchInv'
  <2>1. CASE CallKill(k)
    BY <2>1 DEF CallKill, TypeOK
  <2>2. CASE KillAccepted(k)
    BY <2>2 DEF KillAccepted, TypeOK
  <2>3. CASE KillRefused(k)
    BY <2>3 DEF KillRefused, TypeOK
  <2>4. CASE DropHandle(k)
    BY <2>4 DEF DropHandle, TypeOK
  <2> QED
    BY <1>4, <2>1, <2>2, <2>3, <2>4 DEF KillerStep
<1>5. CASE DrainLog \/ TickServerExit \/ ReplaceExitRx
  BY <1>5 DEF DrainLog, TickServerExit, ReplaceExitRx
<1>6. CASE EnsureStep
  BY <1>6 DEF EnsureStep, EnsureStart, EnsureRecv, EnsureTimeout, EnsureProbe,
              EnsureSignal, EnsurePoll
<1>7. CASE UNCHANGED vars
  BY <1>7 DEF vars
<1> QED
  BY <1>1, <1>2, <1>3, <1>4, <1>5, <1>6, <1>7 DEF Next

\* A reader that ended stays ended, and the loop is left only when every
\* reader has ended or has just been aborted.
LEMMA ReaderStepInv ==
    ASSUME TypeOK, ReaderInv, [Next]_vars
    PROVE  ReaderInv'
<1> USE DEF ReaderInv, JoinNeverBlocks, Finished,
            childVars, readerVars, taskVars, killVars, ensureVars
<1>1. CASE ChildStep
  BY <1>1 DEF ChildStep, ChildExit, Write, CloseStream, HeirExit
<1>2. ASSUME NEW s \in Streams, ReaderStep(s) PROVE ReaderInv'
  <2>1. CASE ReadLine(s)
    BY <2>1 DEF ReadLine, TypeOK
  <2>2. CASE ReadEof(s)
    BY <2>2 DEF ReadEof, TypeOK
  <2>3. CASE SendLine(s)
    BY <2>3 DEF SendLine, TypeOK
  <2> QED
    BY <1>2, <2>1, <2>2, <2>3 DEF ReaderStep
<1>3. CASE TaskStep
  <2>1. ASSUME NEW s \in Streams, MergeLine(s) PROVE ReaderInv'
    BY <2>1 DEF MergeLine
  <2>2. ASSUME NEW s \in Streams, MergeClosed(s) PROVE ReaderInv'
    BY <2>2 DEF MergeClosed, Listening, TypeOK
  <2>3. CASE MergeKill
    BY <2>3 DEF MergeKill, TypeOK
  <2>4. CASE MergeNoSenders
    BY <2>4 DEF MergeNoSenders, Listening
  <2>5. CASE MergeExited
    BY <2>5 DEF MergeExited
  <2>6. CASE MergeEnd
    BY <2>6 DEF MergeEnd, Listening
  <2>7. CASE JoinReaders
    BY <2>7 DEF JoinReaders
  <2>8. CASE LateKill
    BY <2>8 DEF LateKill
  <2>9. CASE WaitChild \/ NotifyExit \/ LogExit
    BY <2>9 DEF WaitChild, NotifyExit, LogExit
  <2> QED
    BY <1>3, <2>1, <2>2, <2>3, <2>4, <2>5, <2>6, <2>7, <2>8, <2>9 DEF TaskStep
<1>4. ASSUME NEW k \in Killers, KillerStep(k) PROVE ReaderInv'
  BY <1>4 DEF KillerStep, CallKill, KillAccepted, KillRefused, DropHandle
<1>5. CASE DrainLog \/ TickServerExit \/ ReplaceExitRx
  BY <1>5 DEF DrainLog, TickServerExit, ReplaceExitRx
<1>6. CASE EnsureStep
  BY <1>6 DEF EnsureStep, EnsureStart, EnsureRecv, EnsureTimeout, EnsureProbe,
              EnsureSignal, EnsurePoll
<1>7. CASE UNCHANGED vars
  BY <1>7 DEF vars
<1> QED
  BY <1>1, <1>2, <1>3, <1>4, <1>5, <1>6, <1>7 DEF Next

\* Nothing is announced before the wait, and a reaped child stays reaped.
LEMMA ReapedStep ==
    ASSUME TypeOK, ReapedInv, [Next]_vars
    PROVE  ReapedInv'
<1> USE DEF ReapedInv, PidAlive, childVars, readerVars, taskVars, killVars, ensureVars
<1>1. CASE ChildStep
  BY <1>1 DEF ChildStep, ChildExit, Write, CloseStream, HeirExit
<1>2. ASSUME NEW s \in Streams, ReaderStep(s) PROVE ReapedInv'
  BY <1>2 DEF ReaderStep, ReadLine, ReadEof, SendLine
<1>3. CASE TaskStep
  <2>1. ASSUME NEW s \in Streams, MergeLine(s) PROVE ReapedInv'
    BY <2>1 DEF MergeLine
  <2>2. ASSUME NEW s \in Streams, MergeClosed(s) PROVE ReapedInv'
    BY <2>2 DEF MergeClosed, Reap
  <2>3. CASE MergeKill
    BY <2>3 DEF MergeKill, Listening
  <2>4. CASE MergeNoSenders
    BY <2>4 DEF MergeNoSenders
  <2>5. CASE MergeExited
    BY <2>5 DEF MergeExited, Listening
  <2>6. CASE MergeEnd
    BY <2>6 DEF MergeEnd
  <2>7. CASE JoinReaders
    BY <2>7 DEF JoinReaders
  <2>8. CASE LateKill
    BY <2>8 DEF LateKill
  <2>9. CASE WaitChild
    BY <2>9 DEF WaitChild
  <2>10. CASE NotifyExit \/ LogExit
    BY <2>10 DEF NotifyExit, LogExit
  <2> QED
    BY <1>3, <2>1, <2>2, <2>3, <2>4, <2>5, <2>6, <2>7, <2>8, <2>9, <2>10 DEF TaskStep
<1>4. ASSUME NEW k \in Killers, KillerStep(k) PROVE ReapedInv'
  BY <1>4 DEF KillerStep, CallKill, KillAccepted, KillRefused, DropHandle
<1>5. CASE DrainLog \/ TickServerExit \/ ReplaceExitRx
  BY <1>5 DEF DrainLog, TickServerExit, ReplaceExitRx
<1>6. CASE EnsureStep
  <2>1. CASE EnsureStart \/ EnsureTimeout \/ EnsureProbe \/ EnsurePoll
    BY <2>1 DEF EnsureStart, EnsureTimeout, EnsureProbe, EnsurePoll, TypeOK
  <2>2. CASE EnsureRecv
    BY <2>2 DEF EnsureRecv
  <2>3. CASE EnsureSignal
    BY <2>3 DEF EnsureSignal, TypeOK
  <2> QED
    BY <1>6, <2>1, <2>2, <2>3 DEF EnsureStep
<1>7. CASE UNCHANGED vars
  BY <1>7 DEF vars
<1> QED
  BY <1>1, <1>2, <1>3, <1>4, <1>5, <1>6, <1>7 DEF Next

\* The inductive invariant holds in every reachable state.
THEOREM IInvCorrect == Spec => []IInv
<1>1. Init => IInv
  <2>1. Init => TypeOK
    BY TypeInit
  <2>2. Init => KillBranchInv /\ ReaderInv /\ ReapedInv
    BY DEF Init, KillBranchInv, SomeSent, ReaderInv, JoinNeverBlocks, ReapedInv
  <2> QED
    BY <2>1, <2>2 DEF IInv
<1>2. IInv /\ [Next]_vars => IInv'
  BY TypeStep, KillBranchStep, ReaderStepInv, ReapedStep DEF IInv
<1> QED
  BY <1>1, <1>2, PTL DEF Spec

-----------------------------------------------------------------------------
\* A kill request that kill_server accepted while the child runs waits in
\* front of a merge loop that still listens: it is never lost.
THEOREM KillNeverLost == Spec => []AcceptedKillIsPending
<1>1. IInv => AcceptedKillIsPending
  BY DEF IInv, KillBranchInv, AcceptedKillIsPending
<1> QED
  BY <1>1, IInvCorrect, PTL

\* The spawn task's join never waits for a reader that only the spawn task
\* could release.
THEOREM JoinIsSafe == Spec => []JoinNeverBlocks
<1>1. IInv => JoinNeverBlocks
  BY DEF IInv, ReaderInv
<1> QED
  BY <1>1, IInvCorrect, PTL

\* Neither the exit notification nor ensure_killed reports a death before the
\* pid is gone.
THEOREM DeathIsReal == Spec => []DeadWhenTold
<1>1. IInv => DeadWhenTold
  BY DEF IInv, ReapedInv, DeadWhenTold, PidAlive
<1> QED
  BY <1>1, IInvCorrect, PTL

-----------------------------------------------------------------------------
\* Every step of the detailed process is a step of the contract or leaves the
\* contract's state alone: only a running child dies, an accepted request is
\* not taken back, and the announcement follows the death.
LEMMA ContractStep ==
    ASSUME IInv, [Next]_vars
    PROVE  [Contract!Next]_(Contract!vars)
<1> USE DEF Contract!Next, Contract!vars, Contract!Ask, Contract!Die, Contract!Announce,
            childVars, readerVars, taskVars, killVars, ensureVars, SomeSent
<1>1. CASE ChildStep
  BY <1>1 DEF ChildStep, ChildExit, Write, CloseStream, HeirExit
<1>2. ASSUME NEW s \in Streams, ReaderStep(s) PROVE [Contract!Next]_(Contract!vars)
  BY <1>2 DEF ReaderStep, ReadLine, ReadEof, SendLine
<1>3. CASE TaskStep
  <2>1. ASSUME NEW s \in Streams, MergeLine(s) \/ MergeClosed(s)
        PROVE  [Contract!Next]_(Contract!vars)
    BY <2>1 DEF MergeLine, MergeClosed, Reap
  <2>2. CASE MergeKill
    BY <2>2 DEF MergeKill, Listening
  <2>3. CASE MergeNoSenders \/ MergeEnd \/ JoinReaders
    BY <2>3 DEF MergeNoSenders, MergeEnd, JoinReaders
  <2>4. CASE MergeExited
    BY <2>4 DEF MergeExited, Listening
  <2>5. CASE LateKill
    BY <2>5 DEF LateKill
  <2>6. CASE WaitChild
    BY <2>6 DEF WaitChild
  <2>7. CASE NotifyExit \/ LogExit
    BY <2>7 DEF NotifyExit, LogExit, IInv, ReapedInv
  <2> QED
    BY <1>3, <2>1, <2>2, <2>3, <2>4, <2>5, <2>6, <2>7 DEF TaskStep
<1>4. ASSUME NEW k \in Killers, KillerStep(k) PROVE [Contract!Next]_(Contract!vars)
  <2>1. UNCHANGED <<child, task>>
    BY <1>4 DEF KillerStep, CallKill, KillAccepted, KillRefused, DropHandle
  <2>2. SomeSent => SomeSent'
    BY <1>4 DEF KillerStep, CallKill, KillAccepted, KillRefused, DropHandle, IInv, TypeOK
  <2> QED
    BY <2>1, <2>2
<1>5. CASE DrainLog \/ TickServerExit \/ ReplaceExitRx
  BY <1>5 DEF DrainLog, TickServerExit, ReplaceExitRx
<1>6. CASE EnsureStep
  BY <1>6 DEF EnsureStep, EnsureStart, EnsureRecv, EnsureTimeout, EnsureProbe,
              EnsureSignal, EnsurePoll
<1>7. CASE UNCHANGED vars
  BY <1>7 DEF vars
<1> QED
  BY <1>1, <1>2, <1>3, <1>4, <1>5, <1>6, <1>7 DEF Next

\* The spawn task with its readers, channels and kill requests implements the
\* contract its callers rely on.
THEOREM ImplementsContract == Spec => RefinesContract
<1>1. Init => Contract!Init
  BY DEF Init, Contract!Init, SomeSent
<1>2. IInv /\ [Next]_vars => [Contract!Next]_(Contract!vars)
  BY ContractStep
<1> QED
  BY <1>1, <1>2, IInvCorrect, PTL DEF Spec, RefinesContract, Contract!Spec
=============================================================================
