--------------------------- MODULE BenchTuneProofs ---------------------------
(***************************************************************************)
(* Benchmark sweeps, for any number of sweeps, tests and iterations: the   *)
(* servers of a sweep are told to end, a sweep that had no other beside it *)
(* measures its own, one that ran to its end counts every test, each comes *)
(* nearer to its end with every step, and the app shows the newest.        *)
(***************************************************************************)
EXTENDS BenchTune, FiniteSetTheorems, TLAPS

\* The types the argument needs; the counters are not bounded here.
Typed ==
    /\ pc \in [Sweeps -> Place]
    /\ total \in [Sweeps -> Nat] /\ test \in [Sweeps -> Nat]
    /\ good \in [Sweeps -> Nat] /\ bad \in [Sweeps -> Nat]
    /\ server \in [Sweeps -> {"none", "starting", "up", "dying"}]
    /\ result \in [Sweeps -> {"ok", "error"}]

\* Sweeps are numbered in the order they start in.
InOrder == \E n \in 0 .. MaxSweeps : \A s \in Sweeps : pc[s] # "none" <=> s <= n

\* A sweep that has not started has nothing.
Fresh == \A s \in Sweeps : pc[s] = "none" =>
             server[s] = "none" /\ test[s] = 0 /\ good[s] = 0 /\ bad[s] = 0

\* ServersAreKilled, and the pause after a kill.
Calm == \A s \in Sweeps : pc[s] \in {"next", "spawn", "sort", "done", "pause"} =>
            server[s] \in {"none", "dying"}

\* A sweep that never overlapped with another works alone, and from the moment its
\* server was spawned no other sweep has one left: the port was free then, and only
\* a sweep that works starts another.
Alone == \A s \in lone : s \in Sweeps /\ Working(s) => \A t \in Sweeps \ {s} : ~Working(t)
OwnPort == \A s \in lone : s \in Sweeps /\ pc[s] = "health" =>
               server[s] # "dying" /\ \A t \in Sweeps \ {s} : server[t] = "none"

\* Between tests every test begun is counted, within one all but it.
InTest == {"spawn", "health", "measure", "kill", "pause"}
Counted ==
    \A s \in Sweeps :
        /\ pc[s] \in {"next", "sort"} => good[s] + bad[s] = test[s]
        /\ pc[s] \in InTest => good[s] + bad[s] + 1 = test[s]
        /\ pc[s] = "sort" => test[s] = total[s]
        /\ pc[s] = "done" /\ result[s] = "ok" /\ s \notin canceled => good[s] + bad[s] = total[s]

\* The inductive invariant: the order of the sweeps, their ports, their counts.
Order == Typed /\ InOrder /\ Fresh
Ports == Calm /\ Alone /\ OwnPort /\ MeasuresItsServer
IInv == Order /\ Ports /\ Counted

USE DEF Sweeps
-----------------------------------------------------------------------------
\* The sweep that starts next has not started yet.
LEMMA NewestIsLast ==
    ASSUME Order, Newest < MaxSweeps
    PROVE  /\ Newest \in Nat /\ Newest + 1 \in Sweeps /\ pc[Newest + 1] = "none"
           /\ \A s \in Sweeps : pc[s] # "none" <=> s <= Newest
<1>1. PICK n \in 0 .. MaxSweeps : \A s \in Sweeps : pc[s] # "none" <=> s <= n
  BY DEF Order, InOrder
<1>2. {s \in Sweeps : pc[s] # "none"} = 1 .. n
  BY <1>1, BenchAssumption
<1>3. Cardinality(1 .. n) = n
  BY FS_Interval
<1>4. Newest = n
  BY <1>2, <1>3 DEF Newest
<1> QED
  BY <1>1, <1>4, BenchAssumption

\* Nothing runs at first.
LEMMA InitEstablishes == Init => IInv
<1> SUFFICES ASSUME Init PROVE IInv
  OBVIOUS
<1>1. Order
  <2>1. Typed
    BY DEF Init, Typed, Each, Place
  <2>2. InOrder
    <3>1. 0 \in 0 .. MaxSweeps /\ \A s \in Sweeps : pc[s] # "none" <=> s <= 0
      BY BenchAssumption DEF Init, Each
    <3> QED
      BY <3>1 DEF InOrder
  <2> QED
    BY <2>1, <2>2 DEF Init, Each, Order, Fresh
<1>2. Ports
  BY DEF Init, Each, Ports, Calm, Alone, OwnPort, MeasuresItsServer, Working
<1>3. Counted
  BY DEF Init, Each, Counted, InTest
<1> QED
  BY <1>1, <1>2, <1>3 DEF IInv

\* Nothing of the argument changes when a sweep is shown, left or cancelled.
LEMMA AppKeeps ==
    ASSUME IInv, UNCHANGED <<task, server>>, canceled \subseteq canceled' PROVE IInv'
<1>1. Order'
  BY DEF IInv, Order, Typed, InOrder, Fresh, task
<1>2. Ports'
  BY DEF IInv, Ports, Calm, Alone, OwnPort, MeasuresItsServer, Working, task
<1>3. Counted'
  BY DEF IInv, Counted, task
<1> QED
  BY <1>1, <1>2, <1>3 DEF IInv

-----------------------------------------------------------------------------
(* The servers.                                                            *)

\* A server that starts is one in a health check; the others only end.
LEMMA ServersKeep == ASSUME IInv, NEW s \in Sweeps, ServerStep(s) PROVE IInv'
<1>1. UNCHANGED <<task, canceled>>
  BY DEF ServerStep, Starts, Ends, Crashes
<1>2. PICK b \in {"none", "up"} :
        /\ server' = [server EXCEPT ![s] = b] /\ server[s] # "none"
        /\ b = "up" => server[s] = "starting"
  BY DEF ServerStep, Starts, Ends, Crashes
<1>3. Order'
  BY <1>1, <1>2 DEF IInv, Order, Typed, InOrder, Fresh, task
<1>4. Ports'
  <2>1. Calm'
    BY <1>1, <1>2 DEF IInv, Order, Typed, Ports, Calm, task
  <2>2. Alone' /\ MeasuresItsServer'
    BY <1>1 DEF IInv, Ports, Alone, MeasuresItsServer, Working, task
  <2>3. OwnPort'
    BY <1>1, <1>2 DEF IInv, Order, Typed, Ports, OwnPort, task
  <2> QED
    BY <2>1, <2>2, <2>3 DEF Ports
<1>5. Counted'
  BY <1>1 DEF IInv, Counted, task
<1> QED
  BY <1>3, <1>4, <1>5 DEF IInv

-----------------------------------------------------------------------------
(* The steps of a sweep.                                                   *)

\* What a sweep that works does with its place: it stays one that has started, so
\* the order and what has not started are as before.
LEMMA OrderKeeps ==
    ASSUME IInv, NEW s \in Sweeps, pc[s] # "none", NEW place \in Place \ {"none"}, GoTo(s, place),
           Typed', \A t \in Sweeps \ {s} : /\ server'[t] = server[t] /\ test'[t] = test[t]
                                           /\ good'[t] = good[t] /\ bad'[t] = bad[t]
    PROVE  Order'
<1>1. \A t \in Sweeps : pc'[t] = "none" <=> pc[t] = "none"
  BY DEF GoTo, IInv, Order, Typed
<1>2. InOrder'
  BY <1>1 DEF IInv, Order, InOrder
<1>3. Fresh'
  BY <1>1 DEF IInv, Order, Fresh
<1> QED
  BY <1>2, <1>3 DEF Order

\* Where a sweep can be after a step, and that it is alone as before.
LEMMA AloneKeeps ==
    ASSUME IInv, NEW s \in Sweeps, Working(s), NEW place \in Place \ {"none"}, GoTo(s, place),
           lone' = lone
    PROVE  Alone'
  BY DEF IInv, Order, Typed, Ports, Alone, Working, GoTo

\* A step of a sweep that does not end in the health check: no other sweep that is
\* alone is in it, for this one works.
LEMMA OwnPortKeeps ==
    ASSUME IInv, NEW s \in Sweeps, Working(s), NEW place \in Place \ {"health"}, GoTo(s, place),
           lone' = lone
    PROVE  OwnPort'
<1>1. pc'[s] # "health"
  BY DEF GoTo, IInv, Order, Typed
<1>2. \A u \in Sweeps \ {s} : u \in lone => pc'[u] # "health"
  <2>1. SUFFICES ASSUME NEW u \in Sweeps \ {s}, u \in lone, pc[u] = "health" PROVE FALSE
    BY DEF GoTo, IInv, Order, Typed
  <2>2. Working(u)
    BY <2>1 DEF Working
  <2> QED
    BY <2>1, <2>2 DEF IInv, Ports, Alone
<1> QED
  BY <1>1, <1>2 DEF OwnPort

\* Between tests: the next one begins, or the sweep was cancelled or lost its reader.
LEMMA NextTestKeeps == ASSUME IInv, NEW s \in Sweeps, NextTest(s) PROVE IInv'
<1>1. Working(s)
  BY DEF NextTest, Working
<1>2. PICK place \in Place \ {"none"} : GoTo(s, place)
  BY DEF NextTest, Report, Place
<1>3. Typed'
  BY DEF NextTest, Report, IInv, Order, Typed, GoTo, Place
<1>4. Order'
  BY <1>1, <1>2, <1>3, OrderKeeps DEF NextTest, Report, Working, IInv, Order, Typed, GoTo
<1>5. Calm'
  BY DEF NextTest, Report, IInv, Order, Typed, Ports, Calm, GoTo
<1>6. Alone'
  BY <1>1, <1>2, AloneKeeps DEF NextTest, Report
<1>7. OwnPort'
  BY <1>1, OwnPortKeeps DEF NextTest, Report, Place
<1>8. MeasuresItsServer'
  BY DEF NextTest, Report, IInv, Ports, MeasuresItsServer
<1>9. Counted'
  <2>1. ASSUME NEW t \in Sweeps \ {s}
        PROVE  /\ pc'[t] = pc[t] /\ test'[t] = test[t] /\ total'[t] = total[t]
               /\ good'[t] = good[t] /\ bad'[t] = bad[t] /\ result'[t] = result[t]
    BY DEF NextTest, Report, GoTo, IInv, Order, Typed
  <2>2. canceled' = canceled
    BY DEF NextTest
  <2>3. CASE s \in canceled /\ Report(s, "cancelled", "done") /\ UNCHANGED test
    <3>1. pc'[s] = "done"
      BY <2>3 DEF Report, GoTo, IInv, Order, Typed
    <3> QED
      BY <2>1, <2>2, <2>3, <3>1 DEF IInv, Counted, InTest
  <2>4. CASE Report(s, "running", "spawn") /\ test' = [test EXCEPT ![s] = @ + 1]
    <3>1. CASE rx = s
      <4>1. pc'[s] = "spawn" /\ good'[s] + bad'[s] + 1 = test'[s]
        BY <2>4, <3>1 DEF NextTest, Report, GoTo, IInv, Order, Typed, Counted
      <4> QED
        BY <2>1, <2>2, <4>1 DEF IInv, Counted, InTest
    <3>2. CASE rx # s
      <4>1. pc'[s] = "done" /\ result'[s] = "error"
        BY <2>4, <3>2 DEF Report, GoTo, IInv, Order, Typed
      <4> QED
        BY <2>1, <2>2, <4>1 DEF IInv, Counted, InTest
    <3> QED
      BY <3>1, <3>2
  <2> QED
    BY <2>3, <2>4 DEF NextTest
<1> QED
  BY <1>4, <1>5, <1>6, <1>7, <1>8, <1>9 DEF IInv, Ports

\* All tests were begun.
LEMMA AllTestedKeeps == ASSUME IInv, NEW s \in Sweeps, AllTested(s) PROVE IInv'
<1>1. Working(s)
  BY DEF AllTested, Working
<1>2. PICK place \in Place \ {"none"} : GoTo(s, place)
  BY DEF AllTested, Place
<1>3. Typed'
  BY DEF AllTested, IInv, Order, Typed, GoTo, Place
<1>4. Order'
  BY <1>1, <1>2, <1>3, OrderKeeps DEF AllTested, Working, IInv, Order, Typed, GoTo
<1>5. Calm'
  BY DEF AllTested, IInv, Order, Typed, Ports, Calm, GoTo
<1>6. Alone'
  BY <1>1, <1>2, AloneKeeps DEF AllTested
<1>7. OwnPort'
  BY <1>1, OwnPortKeeps DEF AllTested, Place
<1>8. MeasuresItsServer'
  BY DEF AllTested, IInv, Ports, MeasuresItsServer
<1>9. Counted'
  BY DEF AllTested, IInv, Order, Typed, Counted, InTest, GoTo
<1> QED
  BY <1>4, <1>5, <1>6, <1>7, <1>8, <1>9 DEF IInv, Ports

\* The last status, or a lost reader.
LEMMA FinishKeeps == ASSUME IInv, NEW s \in Sweeps, Finish(s) PROVE IInv'
<1>1. Working(s)
  BY DEF Finish, Working
<1>2. PICK place \in Place \ {"none"} : GoTo(s, place)
  BY DEF Finish, Report, Place
<1>3. Typed'
  BY DEF Finish, Report, IInv, Order, Typed, GoTo, Place
<1>4. Order'
  BY <1>1, <1>2, <1>3, OrderKeeps DEF Finish, Report, Working, IInv, Order, Typed, GoTo
<1>5. Calm'
  BY DEF Finish, Report, IInv, Order, Typed, Ports, Calm, GoTo
<1>6. Alone'
  BY <1>1, <1>2, AloneKeeps DEF Finish, Report
<1>7. OwnPort'
  BY <1>1, OwnPortKeeps DEF Finish, Report, Place
<1>8. MeasuresItsServer'
  BY DEF Finish, Report, IInv, Ports, MeasuresItsServer
<1>9. Counted'
  BY DEF Finish, Report, IInv, Order, Typed, Counted, InTest, GoTo
<1> QED
  BY <1>4, <1>5, <1>6, <1>7, <1>8, <1>9 DEF IInv, Ports

\* The port is free, or the test fails.
LEMMA SpawnServerKeeps == ASSUME IInv, NEW s \in Sweeps, SpawnServer(s) PROVE IInv'
<1>1. Working(s)
  BY DEF SpawnServer, Working
<1>2. PICK place \in Place \ {"none"} : GoTo(s, place)
  BY DEF SpawnServer, TestFails, Listening, Place
<1>3. Typed'
  BY DEF SpawnServer, TestFails, Listening, IInv, Order, Typed, GoTo, Place
<1>4. Order'
  <2>1. \A t \in Sweeps \ {s} : server'[t] = server[t] /\ bad'[t] = bad[t]
    BY DEF SpawnServer, TestFails, IInv, Order, Typed
  <2> QED
    BY <1>1, <1>2, <1>3, <2>1, OrderKeeps DEF SpawnServer, Working
<1>5. Calm'
  BY DEF SpawnServer, TestFails, Listening, IInv, Order, Typed, Ports, Calm, GoTo
<1>6. Alone'
  BY <1>1, <1>2, AloneKeeps DEF SpawnServer, TestFails, Listening
<1>7. OwnPort'
  <2>1. CASE GoTo(s, "next")
    BY <1>1, <2>1, OwnPortKeeps DEF SpawnServer, Place
  <2>2. CASE Listening = {} /\ GoTo(s, "health") /\ server' = [server EXCEPT ![s] = "starting"]
    <3>1. ASSUME NEW u \in Sweeps \ {s}, u \in lone PROVE pc'[u] # "health"
      BY <1>1, <2>2, <3>1 DEF GoTo, Working, IInv, Order, Typed, Ports, Alone
    <3>2. server'[s] = "starting"
      BY <2>2 DEF IInv, Order, Typed
    <3>3. ASSUME s \in lone, NEW t \in Sweeps \ {s} PROVE server'[t] = "none"
      <4>1. pc[t] \in {"none", "done"}
        BY <1>1, <3>3 DEF IInv, Ports, Alone, Working
      <4>2. server[t] \in {"none", "dying"}
        BY <4>1 DEF IInv, Order, Fresh, Ports, Calm
      <4>3. server[t] # "dying"
        BY <2>2 DEF Listening
      <4> QED
        BY <2>2, <4>2, <4>3 DEF IInv, Order, Typed
    <3> QED
      BY <3>1, <3>2, <3>3 DEF SpawnServer, OwnPort
  <2> QED
    BY <2>1, <2>2 DEF SpawnServer, TestFails
<1>8. MeasuresItsServer'
  BY DEF SpawnServer, TestFails, Listening, IInv, Ports, MeasuresItsServer
<1>9. Counted'
  <2>1. ASSUME NEW t \in Sweeps \ {s}
        PROVE  /\ pc'[t] = pc[t] /\ test'[t] = test[t] /\ total'[t] = total[t]
               /\ good'[t] = good[t] /\ bad'[t] = bad[t] /\ result'[t] = result[t]
    BY DEF SpawnServer, TestFails, GoTo, IInv, Order, Typed
  <2>2. canceled' = canceled
    BY DEF SpawnServer
  <2>3. CASE GoTo(s, "health") /\ UNCHANGED bad
    <3>1. pc'[s] = "health" /\ good'[s] + bad'[s] + 1 = test'[s]
      BY <2>3 DEF SpawnServer, GoTo, IInv, Order, Typed, Counted, InTest
    <3> QED
      BY <2>1, <2>2, <3>1 DEF IInv, Counted, InTest
  <2>4. CASE TestFails(s)
    <3>1. pc'[s] = "next" /\ good'[s] + bad'[s] = test'[s]
      BY <2>4 DEF SpawnServer, TestFails, GoTo, IInv, Order, Typed, Counted, InTest
    <3> QED
      BY <2>1, <2>2, <3>1 DEF IInv, Counted, InTest
  <2> QED
    BY <2>3, <2>4 DEF SpawnServer
<1> QED
  BY <1>4, <1>5, <1>6, <1>7, <1>8, <1>9 DEF IInv, Ports

\* The port answers.  A lone sweep meets its own server there: no other has one,
\* and its own is not dying.
LEMMA HealthyKeeps == ASSUME IInv, NEW s \in Sweeps, Healthy(s) PROVE IInv'
<1>1. Working(s)
  BY DEF Healthy, Working
<1>2. PICK place \in Place \ {"none"} : GoTo(s, place)
  BY DEF Healthy, Listening, Place
<1>3. Typed'
  BY DEF Healthy, Listening, IInv, Order, Typed, GoTo, Place
<1>4. Order'
  BY <1>1, <1>2, <1>3, OrderKeeps DEF Healthy, Listening, Working, IInv, Order, Typed, GoTo
<1>5. Calm'
  BY DEF Healthy, Listening, IInv, Order, Typed, Ports, Calm, GoTo
<1>6. Alone'
  BY <1>1, <1>2, AloneKeeps DEF Healthy, Listening
<1>7. OwnPort'
  BY <1>1, OwnPortKeeps DEF Healthy, Listening, Place
<1>8. MeasuresItsServer'
  <2>1. CASE server[s] = "up"
    BY <2>1 DEF Healthy, IInv, Ports, MeasuresItsServer
  <2>2. CASE server[s] # "up"
    <3>1. s \notin lone
      <4>1. SUFFICES ASSUME s \in lone PROVE FALSE
        OBVIOUS
      <4>2. server[s] # "dying" /\ \A t \in Sweeps \ {s} : server[t] = "none"
        BY <4>1 DEF Healthy, IInv, Ports, OwnPort
      <4>3. Listening = {}
        BY <2>2, <4>2 DEF Listening
      <4> QED
        BY <4>3 DEF Healthy
    <3> QED
      BY <3>1 DEF Healthy, IInv, Ports, MeasuresItsServer
  <2> QED
    BY <2>1, <2>2
<1>9. Counted'
  BY DEF Healthy, Listening, IInv, Order, Typed, Counted, InTest, GoTo
<1> QED
  BY <1>4, <1>5, <1>6, <1>7, <1>8, <1>9 DEF IInv, Ports

\* No health in time.
LEMMA HealthTimeoutKeeps == ASSUME IInv, NEW s \in Sweeps, HealthTimeout(s) PROVE IInv'
<1>1. Working(s)
  BY DEF HealthTimeout, Working
<1>2. PICK place \in Place \ {"none"} : GoTo(s, place)
  BY DEF HealthTimeout, TestFails, Killed, Place
<1>3. Typed'
  BY DEF HealthTimeout, TestFails, Killed, IInv, Order, Typed, GoTo, Place
<1>4. Order'
  BY <1>1, <1>2, <1>3, OrderKeeps DEF HealthTimeout, TestFails, Killed, Working, IInv, Order, Typed, GoTo
<1>5. Calm'
  BY DEF HealthTimeout, TestFails, Killed, IInv, Order, Typed, Ports, Calm, GoTo
<1>6. Alone'
  BY <1>1, <1>2, AloneKeeps DEF HealthTimeout, TestFails, Killed
<1>7. OwnPort'
  BY <1>1, OwnPortKeeps DEF HealthTimeout, TestFails, Killed, Place
<1>8. MeasuresItsServer'
  BY DEF HealthTimeout, TestFails, Killed, IInv, Ports, MeasuresItsServer
<1>9. Counted'
  BY DEF HealthTimeout, TestFails, Killed, IInv, Order, Typed, Counted, InTest, GoTo
<1> QED
  BY <1>4, <1>5, <1>6, <1>7, <1>8, <1>9 DEF IInv, Ports

\* The iterations.
LEMMA MeasureKeeps == ASSUME IInv, NEW s \in Sweeps, Measure(s) PROVE IInv'
<1>1. Working(s)
  BY DEF Measure, Working
<1>2. PICK place \in Place \ {"none"} : GoTo(s, place)
  BY DEF Measure, Place
<1>3. Typed'
  BY DEF Measure, IInv, Order, Typed, GoTo, Place
<1>4. Order'
  BY <1>1, <1>2, <1>3, OrderKeeps DEF Measure, Working, IInv, Order, Typed, GoTo
<1>5. Calm'
  BY DEF Measure, IInv, Order, Typed, Ports, Calm, GoTo
<1>6. Alone'
  BY <1>1, <1>2, AloneKeeps DEF Measure
<1>7. OwnPort'
  BY <1>1, OwnPortKeeps DEF Measure, Place
<1>8. MeasuresItsServer'
  BY DEF Measure, IInv, Ports, MeasuresItsServer
<1>9. Counted'
  BY DEF Measure, IInv, Order, Typed, Counted, InTest, GoTo
<1> QED
  BY <1>4, <1>5, <1>6, <1>7, <1>8, <1>9 DEF IInv, Ports

\* Not enough time for them.
LEMMA TestTimeoutKeeps == ASSUME IInv, NEW s \in Sweeps, TestTimeout(s) PROVE IInv'
<1>1. Working(s)
  BY DEF TestTimeout, Working
<1>2. PICK place \in Place \ {"none"} : GoTo(s, place)
  BY DEF TestTimeout, TestFails, Killed, Place
<1>3. Typed'
  BY DEF TestTimeout, TestFails, Killed, IInv, Order, Typed, GoTo, Place
<1>4. Order'
  BY <1>1, <1>2, <1>3, OrderKeeps DEF TestTimeout, TestFails, Killed, Working, IInv, Order, Typed, GoTo
<1>5. Calm'
  BY DEF TestTimeout, TestFails, Killed, IInv, Order, Typed, Ports, Calm, GoTo
<1>6. Alone'
  BY <1>1, <1>2, AloneKeeps DEF TestTimeout, TestFails, Killed
<1>7. OwnPort'
  BY <1>1, OwnPortKeeps DEF TestTimeout, TestFails, Killed, Place
<1>8. MeasuresItsServer'
  BY DEF TestTimeout, TestFails, Killed, IInv, Ports, MeasuresItsServer
<1>9. Counted'
  BY DEF TestTimeout, TestFails, Killed, IInv, Order, Typed, Counted, InTest, GoTo
<1> QED
  BY <1>4, <1>5, <1>6, <1>7, <1>8, <1>9 DEF IInv, Ports

\* The request to end.
LEMMA KillKeeps == ASSUME IInv, NEW s \in Sweeps, Kill(s) PROVE IInv'
<1>1. Working(s)
  BY DEF Kill, Working
<1>2. PICK place \in Place \ {"none"} : GoTo(s, place)
  BY DEF Kill, Killed, Place
<1>3. Typed'
  BY DEF Kill, Killed, IInv, Order, Typed, GoTo, Place
<1>4. Order'
  BY <1>1, <1>2, <1>3, OrderKeeps DEF Kill, Killed, Working, IInv, Order, Typed, GoTo
<1>5. Calm'
  BY DEF Kill, Killed, IInv, Order, Typed, Ports, Calm, GoTo
<1>6. Alone'
  BY <1>1, <1>2, AloneKeeps DEF Kill, Killed
<1>7. OwnPort'
  BY <1>1, OwnPortKeeps DEF Kill, Killed, Place
<1>8. MeasuresItsServer'
  BY DEF Kill, Killed, IInv, Ports, MeasuresItsServer
<1>9. Counted'
  BY DEF Kill, Killed, IInv, Order, Typed, Counted, InTest, GoTo
<1> QED
  BY <1>4, <1>5, <1>6, <1>7, <1>8, <1>9 DEF IInv, Ports

\* The test is counted.
LEMMA PauseKeeps == ASSUME IInv, NEW s \in Sweeps, Pause(s) PROVE IInv'
<1>1. Working(s)
  BY DEF Pause, Working
<1>2. PICK place \in Place \ {"none"} : GoTo(s, place)
  BY DEF Pause, TestFails, Place
<1>3. Typed'
  BY DEF Pause, TestFails, IInv, Order, Typed, GoTo, Place
<1>4. Order'
  BY <1>1, <1>2, <1>3, OrderKeeps DEF Pause, TestFails, Working, IInv, Order, Typed, GoTo
<1>5. Calm'
  BY DEF Pause, TestFails, IInv, Order, Typed, Ports, Calm, GoTo
<1>6. Alone'
  BY <1>1, <1>2, AloneKeeps DEF Pause, TestFails
<1>7. OwnPort'
  BY <1>1, OwnPortKeeps DEF Pause, TestFails, Place
<1>8. MeasuresItsServer'
  BY DEF Pause, TestFails, IInv, Ports, MeasuresItsServer
<1>9. Counted'
  <2>1. ASSUME NEW t \in Sweeps \ {s}
        PROVE  /\ pc'[t] = pc[t] /\ test'[t] = test[t] /\ total'[t] = total[t]
               /\ good'[t] = good[t] /\ bad'[t] = bad[t] /\ result'[t] = result[t]
    BY DEF Pause, TestFails, GoTo, IInv, Order, Typed
  <2>2. canceled' = canceled
    BY DEF Pause
  <2>3. pc'[s] = "next" /\ good'[s] + bad'[s] = test'[s]
    <3>1. pc'[s] = "next" /\ test'[s] = test[s]
      BY DEF Pause, TestFails, GoTo, IInv, Order, Typed
    <3>2. good[s] \in Nat /\ bad[s] \in Nat /\ good[s] + bad[s] + 1 = test[s]
      BY DEF Pause, IInv, Order, Typed, Counted, InTest
    <3>3. \/ good'[s] = good[s] + 1 /\ bad'[s] = bad[s]
          \/ good'[s] = good[s] /\ bad'[s] = bad[s] + 1
      BY DEF Pause, TestFails, IInv, Order, Typed
    <3> QED
      BY <3>1, <3>2, <3>3
  <2> QED
    BY <2>1, <2>2, <2>3 DEF IInv, Counted, InTest
<1> QED
  BY <1>4, <1>5, <1>6, <1>7, <1>8, <1>9 DEF IInv, Ports

\* The steps of one sweep together.
LEMMA SweepStepKeeps == ASSUME IInv, NEW s \in Sweeps, SweepStep(s) PROVE IInv'
  BY NextTestKeeps, AllTestedKeeps, FinishKeeps, SpawnServerKeeps, HealthyKeeps, HealthTimeoutKeeps,
     MeasureKeeps, TestTimeoutKeeps, KillKeeps, PauseKeeps DEF SweepStep

-----------------------------------------------------------------------------
(* The app starts a sweep, alone or beside others that go on.              *)

\* The new sweep is the next number, and alone only if no other works.
LEMMA StartKeeps == ASSUME IInv, ProcessPendingSpawn PROVE IInv'
<1> DEFINE s == Newest + 1
           others == {r \in Sweeps : Working(r)}
<1>1. /\ Newest \in Nat /\ s \in Sweeps /\ pc[s] = "none"
      /\ \A t \in Sweeps : pc[t] # "none" <=> t <= Newest
  BY NewestIsLast DEF ProcessPendingSpawn, IInv
<1>2. PICK n \in 1 .. MaxTests : total' = [total EXCEPT ![s] = n]
  BY DEF ProcessPendingSpawn
<1>3. /\ GoTo(s, "next") /\ lone' = IF others = {} THEN lone ELSE lone \ (others \cup {s})
      /\ UNCHANGED <<test, good, bad, verdict, result, foreign, server, canceled>>
  BY DEF ProcessPendingSpawn
<1>4. server[s] = "none" /\ test[s] = 0 /\ good[s] = 0 /\ bad[s] = 0
  BY <1>1 DEF IInv, Order, Fresh
<1> HIDE DEF s, others
<1>5. pc' = [pc EXCEPT ![s] = "next"] /\ pc'[s] = "next" /\ \A t \in Sweeps \ {s} : pc'[t] = pc[t]
  BY <1>1, <1>3 DEF GoTo, IInv, Order, Typed
<1>6. Order'
  <2>1. Typed'
    <3>1. pc' \in [Sweeps -> Place]
      BY <1>1, <1>5 DEF IInv, Order, Typed, Place
    <3>2. n \in Nat
      BY BenchAssumption
    <3>3. total' \in [Sweeps -> Nat]
      BY <1>1, <1>2, <3>2 DEF IInv, Order, Typed
    <3> QED
      BY <1>3, <3>1, <3>3 DEF IInv, Order, Typed
  <2>2. InOrder'
    <3>1. s \in 0 .. MaxSweeps
      BY <1>1
    <3>2. \A t \in Sweeps : pc'[t] # "none" <=> t = s \/ t <= Newest
      BY <1>1, <1>5
    <3>3. \A t \in Sweeps : t = s \/ t <= Newest <=> t <= s
      BY <1>1 DEF s
    <3> QED
      BY <3>1, <3>2, <3>3 DEF InOrder
  <2>3. Fresh'
    BY <1>3, <1>5 DEF IInv, Order, Fresh
  <2> QED
    BY <2>1, <2>2, <2>3 DEF Order
<1>7. Ports'
  <2>1. Calm'
    BY <1>3, <1>4, <1>5 DEF IInv, Ports, Calm
  <2>2. Alone'
    <3>1. CASE others = {}
      BY <1>1, <1>3, <1>5, <3>1 DEF others, Alone, Working
    <3>2. CASE others # {}
      <4>1. \A u \in lone' : u \in Sweeps => ~Working(u)'
        BY <1>3, <1>5, <3>2 DEF others, Working
      <4> QED
        BY <4>1 DEF Alone
    <3> QED
      BY <3>1, <3>2
  <2>3. OwnPort'
    BY <1>3, <1>5 DEF IInv, Ports, OwnPort
  <2>4. MeasuresItsServer'
    BY <1>3 DEF IInv, Ports, MeasuresItsServer
  <2> QED
    BY <2>1, <2>2, <2>3, <2>4 DEF Ports
<1>8. Counted'
  <2>1. \A t \in Sweeps \ {s} : total'[t] = total[t]
    BY <1>2 DEF IInv, Order, Typed
  <2> QED
    BY <1>3, <1>4, <1>5, <2>1 DEF IInv, Counted, InTest
<1> QED
  BY <1>6, <1>7, <1>8 DEF IInv

\* Every step keeps the invariant.
LEMMA NextKeeps == ASSUME IInv, [Next]_vars PROVE IInv'
<1>1. CASE \/ \E m \in Models : EnterSetup(m)
           \/ Cancel \/ Leave \/ TickBenchTuneProgress \/ TickBenchTuneResult \/ UNCHANGED vars
  <2>1. UNCHANGED <<task, server>> /\ canceled \subseteq canceled'
    BY <1>1 DEF EnterSetup, Cancel, Leave, TickBenchTuneProgress, TickBenchTuneResult, vars
  <2> QED
    BY <2>1, AppKeeps
<1> QED
  BY <1>1, SweepStepKeeps, ServersKeep, StartKeeps DEF Next

-----------------------------------------------------------------------------
\* The invariant is inductive, whatever the users and the servers do.
THEOREM Inductive == Spec => []IInv
<1>1. IInv /\ [Next]_vars => IInv'
  BY NextKeeps
<1> QED
  BY InitEstablishes, <1>1, PTL DEF Spec

\* Whichever way a test ends, by its answers, a timeout or no health at all, no
\* server of the sweep runs on that was not told to end, cancelled or not.
\* (benchmark.rs:492)
THEOREM SweepsKillTheirServers == Spec => []ServersAreKilled
<1>1. IInv => ServersAreKilled
  BY DEF IInv, Ports, Calm, ServersAreKilled
<1> QED
  BY Inductive, <1>1, PTL

\* The next test does not wait for the last server to be gone, yet a sweep that had
\* no other beside it never takes the answer of another server for that of its own:
\* the port was free when its server was spawned.  (benchmark.rs:467, 502)
THEOREM LoneSweepsMeasureTheirServer == Spec => []MeasuresItsServer
<1>1. IInv => MeasuresItsServer
  BY DEF IInv, Ports
<1> QED
  BY Inductive, <1>1, PTL

\* A sweep that ran to its end has counted every test once, as good or as bad.
THEOREM SweepsCountEveryTest == Spec => []EveryTestCounts
<1>1. IInv => EveryTestCounts
  BY DEF IInv, Counted, EveryTestCounts
<1> QED
  BY Inductive, <1>1, PTL

-----------------------------------------------------------------------------
(* How much of a sweep is left.                                            *)

\* The steps a sweep may still take: at most seven for a test that has not begun,
\* what is left of the test it is in, the sorting and the last status.
Rest == [place \in Place |->
            CASE place = "spawn" -> 8 [] place = "health" -> 7 [] place = "measure" -> 6
              [] place = "kill" -> 5 [] place = "pause" -> 4 [] place = "next" -> 2
              [] place = "sort" -> 1 [] OTHER -> 0]
Left(s) == IF pc[s] \in {"sort", "done"} THEN Rest[pc[s]]
           ELSE 7 * (total[s] - test[s]) + Rest[pc[s]]

\* No test is begun beyond the last.
Within == \A s \in Sweeps : test[s] <= total[s]

\* What is left is a number, and each step of a sweep makes it smaller.
LeftIsNatural == \A s \in Sweeps : Left(s) \in Nat
NearsItsEnd == \A s \in Sweeps : Working(s) =>
                   Left(s)' <= Left(s) /\ (SweepStep(s) => Left(s)' < Left(s))

\* The table of Rest, place by place.
LEMMA RestIs ==
    /\ Rest["spawn"] = 8 /\ Rest["health"] = 7 /\ Rest["measure"] = 6 /\ Rest["kill"] = 5
    /\ Rest["pause"] = 4 /\ Rest["next"] = 2 /\ Rest["sort"] = 1 /\ Rest["done"] = 0
    /\ Rest["none"] = 0
  BY DEF Rest, Place

\* A step of a sweep leaves the other sweeps' counts alone, and its own is smaller.
LEMMA StepShortens ==
    ASSUME IInv, Within, NEW s \in Sweeps, SweepStep(s)
    PROVE  Within' /\ Left(s)' < Left(s) /\ \A t \in Sweeps \ {s} : Left(t)' = Left(t)
<1>1. /\ total' = total
      /\ \A t \in Sweeps \ {s} : pc'[t] = pc[t] /\ test'[t] = test[t]
  BY DEF SweepStep, NextTest, AllTested, Finish, SpawnServer, Healthy, HealthTimeout, Measure,
         TestTimeout, Kill, Pause, Report, TestFails, GoTo, IInv, Order, Typed
<1>2. /\ total[s] \in Nat /\ test[s] \in Nat /\ test[s] <= total[s] /\ pc[s] \in Place
      /\ pc' \in [Sweeps -> Place]
  BY SweepStepKeeps DEF IInv, Order, Typed, Within
<1>3. \/ /\ pc[s] = "next" /\ test[s] < total[s]
         /\ pc'[s] = "done" \/ (pc'[s] = "spawn" /\ test'[s] = test[s] + 1)
         /\ test'[s] \in {test[s], test[s] + 1}
      \/ pc[s] = "next" /\ test[s] = total[s] /\ pc'[s] = "sort" /\ test'[s] = test[s]
      \/ pc[s] = "sort" /\ pc'[s] = "done" /\ test'[s] = test[s]
      \/ pc[s] = "spawn" /\ pc'[s] \in {"health", "next"} /\ test'[s] = test[s]
      \/ pc[s] = "health" /\ pc'[s] \in {"measure", "next"} /\ test'[s] = test[s]
      \/ pc[s] = "measure" /\ pc'[s] \in {"kill", "next"} /\ test'[s] = test[s]
      \/ pc[s] = "kill" /\ pc'[s] = "pause" /\ test'[s] = test[s]
      \/ pc[s] = "pause" /\ pc'[s] = "next" /\ test'[s] = test[s]
  <2>1. CASE NextTest(s)
    BY <2>1 DEF NextTest, Report, GoTo, IInv, Order, Typed
  <2>2. CASE AllTested(s) \/ Finish(s)
    BY <2>2 DEF AllTested, Finish, Report, GoTo, IInv, Order, Typed
  <2>3. CASE SpawnServer(s) \/ Healthy(s) \/ HealthTimeout(s)
    BY <2>3 DEF SpawnServer, Healthy, HealthTimeout, TestFails, GoTo, IInv, Order, Typed
  <2>4. CASE Measure(s) \/ TestTimeout(s) \/ Kill(s) \/ Pause(s)
    BY <2>4 DEF Measure, TestTimeout, Kill, Pause, TestFails, GoTo, IInv, Order, Typed
  <2> QED
    BY <2>1, <2>2, <2>3, <2>4 DEF SweepStep
<1>4. test'[s] \in Nat /\ test'[s] <= total[s]
  BY <1>2, <1>3
<1>5. Within'
  BY <1>1, <1>4 DEF Within
<1>6. \A t \in Sweeps \ {s} : Left(t)' = Left(t)
  BY <1>1 DEF Left
<1>7. Left(s)' < Left(s)
  <2> DEFINE rest == total[s] - test[s]
             left == total[s] - test'[s]
  <2>1. /\ rest \in Nat /\ left \in Nat
        /\ Left(s) = IF pc[s] \in {"sort", "done"} THEN Rest[pc[s]] ELSE 7 * rest + Rest[pc[s]]
        /\ Left(s)' = IF pc'[s] \in {"sort", "done"} THEN Rest[pc'[s]] ELSE 7 * left + Rest[pc'[s]]
    BY <1>1, <1>2, <1>4 DEF Left
  <2>2. /\ test'[s] = test[s] => left = rest
        /\ test[s] < total[s] => rest > 0
        /\ test'[s] = test[s] + 1 => left + 1 = rest
    BY <1>2, <1>4
  <2> HIDE DEF rest, left
  <2>3. CASE pc[s] = "next"
    BY <1>2, <1>3, <2>1, <2>2, <2>3, RestIs
  <2>4. CASE pc[s] # "next"
    BY <1>3, <2>1, <2>2, <2>4, RestIs
  <2> QED
    BY <2>3, <2>4
<1> QED
  BY <1>5, <1>6, <1>7

\* The start of a sweep is the only other step that touches what is counted, and
\* what it touches had not begun.
LEMMA RestKeepsWhatIsLeft ==
    ASSUME IInv, Within, [Next]_vars, ~\E s \in Sweeps : SweepStep(s)
    PROVE  Within' /\ \A s \in Sweeps : Working(s) => Left(s)' = Left(s)
<1>1. CASE ProcessPendingSpawn
  <2> DEFINE s == Newest + 1
  <2>1. s \in Sweeps /\ pc[s] = "none" /\ test[s] = 0
    BY <1>1, NewestIsLast DEF ProcessPendingSpawn, IInv, Order, Fresh
  <2>2. PICK n \in 1 .. MaxTests : total' = [total EXCEPT ![s] = n]
    BY <1>1 DEF ProcessPendingSpawn
  <2>3. GoTo(s, "next") /\ test' = test
    BY <1>1 DEF ProcessPendingSpawn
  <2> HIDE DEF s
  <2>4. Within'
    BY <2>1, <2>2, <2>3, BenchAssumption DEF Within, IInv, Order, Typed
  <2>5. ASSUME NEW t \in Sweeps, Working(t) PROVE Left(t)' = Left(t)
    <3>1. t # s
      BY <2>1, <2>5 DEF Working
    <3>2. pc'[t] = pc[t] /\ total'[t] = total[t] /\ test'[t] = test[t]
      BY <2>2, <2>3, <3>1 DEF GoTo, IInv, Order, Typed
    <3> QED
      BY <3>2 DEF Left
  <2> QED
    BY <2>4, <2>5
<1>2. CASE ~ProcessPendingSpawn
  <2>1. UNCHANGED <<pc, total, test>>
    BY <1>2 DEF Next, ServerStep, Starts, Ends, Crashes, EnterSetup, Cancel, Leave,
                TickBenchTuneProgress, TickBenchTuneResult, vars, task
  <2> QED
    BY <2>1 DEF Within, Left
<1> QED
  BY <1>1, <1>2

\* A sweep that works comes nearer to its end with every step of its own, and no
\* step of another sweep, of a server or of the app takes it back: a sweep of n tests
\* takes at most 7n + 2 steps, cancelled or not, whatever the servers do.  Only that
\* its waits end, each by its timeout, is left to the fairness.  (benchmark.rs:165, 467, 492)
THEOREM SweepsNearTheirEnd == Spec => []LeftIsNatural /\ [][NearsItsEnd]_vars
<1>1. Init => Within
  BY DEF Init, Within, Each
<1>2. IInv /\ Within => LeftIsNatural
  <2> SUFFICES ASSUME IInv, Within, NEW s \in Sweeps PROVE Left(s) \in Nat
    BY DEF LeftIsNatural
  <2>1. total[s] - test[s] \in Nat /\ Rest[pc[s]] \in Nat
    BY RestIs DEF IInv, Order, Typed, Within, Place
  <2> QED
    BY <2>1 DEF Left
<1>3. IInv /\ Within /\ [Next]_vars => Within' /\ (NearsItsEnd \/ UNCHANGED vars)
  <2> SUFFICES ASSUME IInv, Within, [Next]_vars PROVE Within' /\ NearsItsEnd
    OBVIOUS
  <2>1. \A t \in Sweeps : Left(t) \in Int
    BY <1>2 DEF LeftIsNatural
  <2>5. \A t \in Sweeps : Left(t)' \in Int
    <3> SUFFICES ASSUME NEW t \in Sweeps PROVE Left(t)' \in Int
      OBVIOUS
    <3>1. Typed'
      BY NextKeeps DEF IInv, Order
    <3>2. total'[t] - test'[t] \in Int /\ Rest[pc'[t]] \in Int
      BY <3>1, RestIs DEF Typed, Place
    <3> QED
      BY <3>2 DEF Left
  <2>2. CASE \E s \in Sweeps : SweepStep(s)
    <3>1. PICK s \in Sweeps : SweepStep(s)
      BY <2>2
    <3>2. Within' /\ Left(s)' < Left(s) /\ \A t \in Sweeps \ {s} : Left(t)' = Left(t)
      BY <3>1, StepShortens
    <3>3. ASSUME NEW t \in Sweeps, t # s, Working(t), SweepStep(t) PROVE FALSE
      BY <3>2, <3>3, <2>1, StepShortens
    <3>4. ASSUME NEW t \in Sweeps, Working(t)
          PROVE  Left(t)' <= Left(t) /\ (SweepStep(t) => Left(t)' < Left(t))
      <4>1. Left(s) \in Int /\ Left(s)' \in Int /\ Left(t) \in Int
        BY <2>1, <2>5
      <4>2. CASE t = s
        BY <3>2, <4>1, <4>2
      <4>3. CASE t # s
        BY <3>2, <3>3, <3>4, <4>1, <4>3
      <4> QED
        BY <4>2, <4>3
    <3> QED
      BY <3>2, <3>4 DEF NearsItsEnd
  <2>3. CASE ~\E s \in Sweeps : SweepStep(s)
    BY <2>1, <2>3, RestKeepsWhatIsLeft DEF NearsItsEnd
  <2> QED
    BY <2>2, <2>3
<1> QED
  BY Inductive, <1>1, <1>2, <1>3, PTL DEF Spec

-----------------------------------------------------------------------------
(* What the app shows.                                                     *)

\* No sweep is forgotten, and only a start makes a new one.
LEMMA NewestStays ==
    ASSUME IInv, [Next]_vars, ~ProcessPendingSpawn
    PROVE  Newest' = Newest
<1>1. \A t \in Sweeps : pc'[t] = "none" <=> pc[t] = "none"
  <2>1. CASE \E s \in Sweeps : SweepStep(s)
    <3>1. PICK s \in Sweeps : SweepStep(s)
      BY <2>1
    <3>2. pc[s] # "none" /\ \E place \in Place \ {"none"} : GoTo(s, place)
      BY <3>1 DEF SweepStep, NextTest, AllTested, Finish, SpawnServer, Healthy, HealthTimeout,
         Measure, TestTimeout, Kill, Pause, Report, TestFails, Place
    <3> QED
      BY <3>2 DEF GoTo, IInv, Order, Typed
  <2>2. CASE ~\E s \in Sweeps : SweepStep(s)
    BY <2>2 DEF Next, ServerStep, Starts, Ends, Crashes, EnterSetup, Cancel, Leave,
                TickBenchTuneProgress, TickBenchTuneResult, vars, task
  <2> QED
    BY <2>1, <2>2
<1> QED
  BY <1>1 DEF Newest

\* The results of a sweep go when the next one starts, and the app awaits only the
\* newest: a cancelled one may return at any time and is not shown.
\* (async_ops.rs:1199, 1523)
THEOREM ResultsAreOfTheNewest == Spec => []ShowsNewest
<1>1. Init => ShowsNewest
  BY DEF Init, ShowsNewest
<1>2. IInv /\ ShowsNewest /\ [Next]_vars => ShowsNewest'
  <2> SUFFICES ASSUME IInv, ShowsNewest, [Next]_vars PROVE ShowsNewest'
    OBVIOUS
  <2>1. CASE ProcessPendingSpawn
    <3>1. Newest' = Newest + 1
      <4>1. /\ Newest \in Nat /\ Newest + 1 \in Sweeps /\ pc[Newest + 1] = "none"
            /\ \A t \in Sweeps : pc[t] # "none" <=> t <= Newest
        BY <2>1, NewestIsLast DEF ProcessPendingSpawn, IInv
      <4>2. GoTo(Newest + 1, "next")
        BY <2>1 DEF ProcessPendingSpawn
      <4> DEFINE s == Newest + 1
      <4> HIDE DEF s
      <4>6. \A t \in Sweeps : pc'[t] # "none" <=> t = s \/ pc[t] # "none"
        BY <4>1, <4>2 DEF GoTo, IInv, Order, Typed, s
      <4>3. \A t \in Sweeps : pc'[t] # "none" <=> t <= Newest + 1
        BY <4>1, <4>6 DEF s
      <4>4. {t \in Sweeps : pc'[t] # "none"} = 1 .. (Newest + 1)
        BY <4>1, <4>3, BenchAssumption
      <4>5. Cardinality(1 .. (Newest + 1)) = Newest + 1
        BY <4>1, FS_Interval
      <4> QED
        BY <4>4, <4>5 DEF Newest
    <3> QED
      BY <2>1, <3>1 DEF ProcessPendingSpawn, ShowsNewest
  <2>2. CASE ~ProcessPendingSpawn
    <3>1. Newest' = Newest
      BY <2>2, NewestStays
    <3>2. results' \in {results, handle} /\ handle' \in {handle, None}
      BY <2>2 DEF Next, SweepStep, NextTest, AllTested, Finish, SpawnServer, Healthy,
         HealthTimeout, Measure, TestTimeout, Kill, Pause, ServerStep, Starts, Ends, Crashes,
         EnterSetup, Cancel, Leave, TickBenchTuneProgress, TickBenchTuneResult, vars, app
    <3> QED
      BY <3>1, <3>2 DEF ShowsNewest
  <2> QED
    BY <2>1, <2>2
<1> QED
  BY Inductive, <1>1, <1>2, PTL DEF Spec
=============================================================================
