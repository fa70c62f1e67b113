---------------------------- MODULE HeadlessProofs ----------------------------
(***************************************************************************)
(* The headless mode. serve_model never returns with its llama-server      *)
(* running, and while the dashboard is served the output of the server     *)
(* never stands for good, for every capacity of the pipe and the channels  *)
(* and every number of failed polls; a transfer that is accepted is whole, *)
(* for every finite set of uploads; the certificate and the key a call     *)
(* returns belong together, for every set of programs; and the agent keeps *)
(* within its rounds and its budget.                                       *)
(***************************************************************************)
EXTENDS MCHeadless, FiniteSetTheorems, WellFoundedInduction, TLAPS

\* No server before the spawn, and none when serve_model waits for the tasks that
\* are left: whichever branch of the select it took, the server has ended.
GoneWhenJoined ==
    /\ at = "spawn" => child = "none"
    /\ at = "join" => child = "gone"

\* A proxy that failed has ended the server before serve_model waits for it.
FailureIsFatal == at = "wait" /\ apiError => child = "gone"

\* The places of serve_model.
PlaceOK == at \in {"spawn", "proxy", "dashboard", "select", "wait", "join", "done"}

\* The inductive invariant of the headless serve.
IInv == PlaceOK /\ GoneWhenJoined /\ FailureIsFatal /\ NoOrphan

-----------------------------------------------------------------------------
\* There is no server at first.
LEMMA InitEstablishes == Init => IInv
  BY DEF Init, IInv, PlaceOK, GoneWhenJoined, FailureIsFatal, NoOrphan, Living

\* The steps of serve_model itself.
LEMMA MainStepKeeps == IInv /\ MainStep => IInv'
<1> SUFFICES ASSUME IInv, MainStep PROVE IInv'
  OBVIOUS
<1> USE DEF IInv, PlaceOK, GoneWhenJoined, FailureIsFatal, NoOrphan, Living
<1>1. CASE Refuse
  BY <1>1 DEF Refuse, Return, server, proxies, flow, polling, signals, boards
<1>2. CASE Spawn
  BY <1>2 DEF Spawn
<1>3. CASE StartProxy
  BY <1>3 DEF StartProxy, server
<1>4. CASE BadAddress
  BY <1>4 DEF BadAddress, Return, Kill
<1>5. CASE StartDashboard
  BY <1>5 DEF StartDashboard, server
<1>6. CASE DashboardFails
  BY <1>6 DEF DashboardFails, Return, Kill
<1>7. CASE ChildExited
  BY <1>7 DEF ChildExited, server
<1>8. CASE ProxyEnded
  <2>1. CASE proxyDone = "error"
    BY <1>8, <2>1 DEF ProxyEnded, Kill
  <2>2. CASE proxyDone # "error"
    BY <1>8, <2>2 DEF ProxyEnded, server
  <2> QED
    BY <2>1, <2>2
<1>9. CASE Waited
  BY <1>9 DEF Waited, server
<1>10. CASE Join
  BY <1>10 DEF Join, Return, server
<1> QED
  BY <1>1, <1>2, <1>3, <1>4, <1>5, <1>6, <1>7, <1>8, <1>9, <1>10 DEF MainStep

\* The server itself and Ctrl+C: a server that has ended never runs again.
LEMMA ServerStepKeeps ==
    IInv /\ (Interrupt \/ Prints \/ GoesOn \/ Exits) => IInv'
<1> SUFFICES ASSUME IInv, Interrupt \/ Prints \/ GoesOn \/ Exits PROVE IInv'
  OBVIOUS
<1> USE DEF IInv, PlaceOK, GoneWhenJoined, FailureIsFatal, NoOrphan, Living
<1>1. CASE Interrupt
  BY <1>1 DEF Interrupt, Kill, main
<1>2. CASE Prints
  BY <1>2 DEF Prints, main, Running
<1>3. CASE GoesOn
  BY <1>3 DEF GoesOn, main
<1>4. CASE Exits
  BY <1>4 DEF Exits, main
<1> QED
  BY <1>1, <1>2, <1>3, <1>4

\* The tasks beside it touch neither the server nor the place of serve_model.
LEMMA TaskStepKeeps ==
    (\/ LineStep \/ ParserStep \/ Poll \/ Connect \/ Disconnect \/ DashboardEnds
     \/ ProxyStep \/ Request \/ RequestEnds) => UNCHANGED <<main, server>>
<1>1. LineStep \/ ParserStep \/ Poll => UNCHANGED <<main, server>>
  BY DEF LineStep, ReadLine, PassLine, ParserStep, ParseLine, PassMetrics, Poll
<1>2. Connect \/ Disconnect \/ DashboardEnds => UNCHANGED <<main, server>>
  BY DEF Connect, Disconnect, DashboardEnds
<1>3. ProxyStep \/ Request \/ RequestEnds => UNCHANGED <<main, server>>
  BY DEF ProxyStep, ProxyBinds, ProxyShuts, ProxyDrained, Request, RequestEnds
<1> QED
  BY <1>1, <1>2, <1>3

\* Every step keeps the invariant.
LEMMA NextKeeps == IInv /\ [Next]_vars => IInv'
<1> SUFFICES ASSUME IInv, [Next]_vars PROVE IInv'
  OBVIOUS
<1>1. ASSUME UNCHANGED <<main, server>> PROVE IInv'
  BY <1>1 DEF main, server, IInv, PlaceOK, GoneWhenJoined, FailureIsFatal, NoOrphan, Living
<1>2. CASE MainStep
  BY <1>2, MainStepKeeps
<1>3. CASE Interrupt \/ Prints \/ GoesOn \/ Exits
  BY <1>3, ServerStepKeeps
<1>4. CASE \/ LineStep \/ ParserStep \/ Poll \/ Connect \/ Disconnect \/ DashboardEnds
           \/ ProxyStep \/ Request \/ RequestEnds
  BY <1>1, <1>4, TaskStepKeeps
<1>5. CASE UNCHANGED vars
  BY <1>1, <1>5 DEF vars
<1> QED
  BY <1>2, <1>3, <1>4, <1>5 DEF Next

-----------------------------------------------------------------------------
\* Whichever way serve_model returns (a refused start, an address that does not
\* resolve, a dashboard that cannot bind, Ctrl+C, a proxy that failed, the end of the
\* server), no llama-server of it runs on.  (serve.rs:638)
THEOREM ServeLeavesNoOrphan == Spec => []NoOrphan
<1>1. Init => IInv
  BY InitEstablishes
<1>2. IInv /\ [Next]_vars => IInv'
  BY NextKeeps
<1>3. IInv => NoOrphan
  BY DEF IInv
<1> QED
  BY <1>1, <1>2, <1>3, PTL DEF Spec

-----------------------------------------------------------------------------
(* Who waits for whom.                                                     *)

\* The places of the tasks and the lines on their way.
FlowTyped ==
    /\ pipe \in Nat /\ lines \in Nat
    /\ reader \in {"none", "reads", "holds", "ended"}
    /\ parser \in {"none", "waits", "holds", "ended"}
    /\ poll \in {"none", "polls", "ended"}

\* The reader runs from the spawn on, with the dashboard also the parser and the poll,
\* and the parser ends after the reader only.
TasksRun ==
    /\ Living => reader # "none"
    /\ at \in {"spawn", "proxy", "dashboard"} => parser = "none"
    /\ parser = "ended" => reader = "ended"
    /\ ws /\ at \in {"select", "wait", "join"} => parser # "none" /\ poll # "none"

\* The proxy answers once, when it ends; serve_model takes its error from the answer, and
\* tells it to end before it waits for anything.
ProxyAnswers ==
    /\ at \in {"spawn", "proxy"} => proxy = "none"
    /\ proxyDone # "none" => proxy = "ended"
    /\ at = "wait" => proxyDone # "none" /\ (apiError <=> proxyDone = "error")
    /\ at \in {"wait", "join"} => proxyShut

\* With IInv, the inductive invariant of who waits for whom.
GoingInv == FlowTyped /\ TasksRun /\ ProxyAnswers

\* Nothing has begun.
LEMMA GoingInit == Init => GoingInv
  BY DEF Init, GoingInv, FlowTyped, TasksRun, ProxyAnswers, Living

\* The steps of serve_model itself.
LEMMA MainStepGoes ==
    ASSUME IInv, GoingInv, MainStep
    PROVE  GoingInv'
<1> USE DEF IInv, GoneWhenJoined, GoingInv, FlowTyped, TasksRun, ProxyAnswers, Living,
        options, server, flow, polling, proxies, signals, boards
<1>1. CASE Refuse
  BY <1>1 DEF Refuse, Return
<1>2. CASE Spawn
  BY <1>2 DEF Spawn
<1>3. CASE StartProxy
  BY <1>3 DEF StartProxy
<1>4. CASE BadAddress
  BY <1>4 DEF BadAddress, Return, Kill
<1>5. CASE StartDashboard
  BY <1>5 DEF StartDashboard
<1>6. CASE DashboardFails
  BY <1>6 DEF DashboardFails, Return, Kill
<1>7. CASE ChildExited
  BY <1>7 DEF ChildExited
<1>8. CASE ProxyEnded
  BY <1>8 DEF ProxyEnded, Kill
<1>9. CASE Waited
  BY <1>9 DEF Waited
<1>10. CASE Join
  BY <1>10 DEF Join, Return
<1> QED
  BY <1>1, <1>2, <1>3, <1>4, <1>5, <1>6, <1>7, <1>8, <1>9, <1>10 DEF MainStep

\* The server, Ctrl+C and the way of the lines.
LEMMA FlowStepGoes ==
    ASSUME GoingInv, Interrupt \/ Prints \/ GoesOn \/ Exits \/ LineStep \/ ParserStep \/ Poll
    PROVE  GoingInv'
<1> USE DEF GoingInv, FlowTyped, TasksRun, ProxyAnswers, Living, options, main, server, flow,
        polling, proxies, signals, boards
<1>1. CASE Interrupt
  BY <1>1 DEF Interrupt, Kill
<1>2. CASE Prints
  BY <1>2 DEF Prints
<1>3. CASE GoesOn \/ Exits
  BY <1>3 DEF GoesOn, Exits
<1>4. CASE ReadLine
  BY <1>4 DEF ReadLine
<1>5. CASE PassLine
  BY <1>5 DEF PassLine
<1>6. CASE ParseLine
  BY <1>6 DEF ParseLine
<1>7. CASE PassMetrics
  BY <1>7 DEF PassMetrics
<1>8. CASE Poll
  BY <1>8 DEF Poll
<1> QED
  BY <1>1, <1>2, <1>3, <1>4, <1>5, <1>6, <1>7, <1>8 DEF LineStep, ParserStep

\* The clients of the dashboard and the proxy.
LEMMA ProxyStepGoes ==
    ASSUME GoingInv, Connect \/ Disconnect \/ DashboardEnds \/ ProxyStep \/ Request \/ RequestEnds
    PROVE  GoingInv'
<1> USE DEF GoingInv, FlowTyped, TasksRun, ProxyAnswers, Living, options, main, server, flow,
        polling, signals, boards, proxies
<1>1. CASE Connect \/ Disconnect \/ DashboardEnds
  BY <1>1 DEF Connect, Disconnect, DashboardEnds
<1>2. CASE ProxyBinds
  BY <1>2 DEF ProxyBinds
<1>3. CASE ProxyShuts
  BY <1>3 DEF ProxyShuts
<1>4. CASE ProxyDrained
  BY <1>4 DEF ProxyDrained
<1>5. CASE Request \/ RequestEnds
  BY <1>5 DEF Request, RequestEnds
<1> QED
  BY <1>1, <1>2, <1>3, <1>4, <1>5 DEF ProxyStep

\* Every step keeps the invariant.
LEMMA GoingKeeps ==
    ASSUME IInv, GoingInv, [Next]_vars
    PROVE  GoingInv'
<1>1. CASE UNCHANGED vars
  BY <1>1 DEF vars, options, main, server, flow, polling, proxies, signals, boards, GoingInv,
     FlowTyped, TasksRun, ProxyAnswers, Living
<1> QED
  BY <1>1, MainStepGoes, FlowStepGoes, ProxyStepGoes DEF Next

\* While the dashboard is served the server's output never stands for good: of those who
\* wait for each other the last can go on, also after the poll gave up.  And where
\* serve_model waits for the end of its server or of the proxy, it comes to it.  That who
\* can go on does so is all that is left to the fairness of OutputFlows and Returns.
\* (serve.rs:476, 671, 716)
THEOREM SomeoneGoesOn == Spec => [](OutputCanFlow /\ CanReturn)
<1>1. IInv /\ GoingInv => OutputCanFlow
  <2> SUFFICES ASSUME IInv, GoingInv, ws, child = "stuck", Running, reader # "ended",
                      at \notin {"proxy", "dashboard"}, ~(pipe < PipeRoom)
               PROVE  \/ reader = "reads" /\ pipe > 0
                      \/ reader = "holds" /\ lines < LogRoom
                      \/ parser = "waits" /\ lines > 0
                      \/ parser = "holds" /\ poll \in {"polls", "ended"}
    BY DEF OutputCanFlow
  <2>1. at \in {"select", "wait", "join"}
    BY DEF IInv, PlaceOK, GoneWhenJoined, Running
  <2>2. parser \in {"waits", "holds"} /\ poll \in {"polls", "ended"} /\ reader \in {"reads", "holds"}
    BY <2>1 DEF GoingInv, FlowTyped, TasksRun, Living
  <2>3. pipe > 0
    BY RoomAssumption DEF GoingInv, FlowTyped
  <2>4. lines < LogRoom \/ lines > 0
    BY RoomAssumption DEF GoingInv, FlowTyped
  <2> QED
    BY <2>2, <2>3, <2>4
<1>2. IInv /\ GoingInv => CanReturn
  BY DEF IInv, PlaceOK, GoneWhenJoined, FailureIsFatal, GoingInv, ProxyAnswers, CanReturn, Running
<1>3. Init => IInv /\ GoingInv
  BY InitEstablishes, GoingInit
<1>4. IInv /\ GoingInv /\ [Next]_vars => (IInv /\ GoingInv)'
  BY NextKeeps, GoingKeeps
<1> QED
  BY <1>1, <1>2, <1>3, <1>4, PTL DEF Spec

-----------------------------------------------------------------------------
(* Transfers.                                                              *)

\* The types of the uploads and of what lies on the disk.
TransfersTyped ==
    /\ upload \in [Uploads -> {"start", "between", "chosen", "streams", "streamed", "extracts",
                        "spoilt", "cleans", "ok", "error"}]
    /\ id \in [Uploads -> T!Ids]
    /\ tmp \in [T!Ids -> SUBSET Uploads] /\ dirs \in [T!Ids -> SUBSET Uploads]
    /\ alone \subseteq Uploads

\* What lies under a name is of uploads that took it.
NamesAreOwn ==
    \A i \in T!Ids : \A u \in tmp[i] \cup dirs[i] : ~T!Looks(u) /\ id[u] = i

\* A name that was passed over is another's.
PassedAreTaken ==
    \A u \in Uploads : \A c \in 0..(id[u] - 1) : \E v \in Uploads : ~T!Looks(v) /\ id[v] = c

\* No upload under way has the name of one that is alone.
AloneHasItsName ==
    \A u \in alone : T!UnderWay(u) \/ upload[u] = "ok" =>
        \A v \in Uploads \ {u} : T!UnderWay(v) => id[v] # id[u]

\* What there is of an upload that is alone, from place to place.
AloneIsWhole ==
    \A u \in alone :
        /\ upload[u] = "chosen" => tmp[id[u]] = {} /\ dirs[id[u]] = {}
        /\ upload[u] \in {"streams", "streamed"} => tmp[id[u]] = {u} /\ dirs[id[u]] = {}
        /\ upload[u] = "extracts" => tmp[id[u]] = {u} /\ dirs[id[u]] = {u}
        /\ upload[u] # "spoilt"
        /\ upload[u] = "cleans" => tmp[id[u]] = {} /\ dirs[id[u]] = {u}
        /\ upload[u] = "ok" => dirs[id[u]] = {u}
        /\ upload[u] = "error" => u \notin tmp[id[u]] \cup dirs[id[u]]

\* The inductive invariant of the transfers.
TransfersInv ==
    TransfersTyped /\ NamesAreOwn /\ PassedAreTaken /\ AloneHasItsName /\ AloneIsWhole

\* The names an upload passes over are those of as many others: there is a next one.
LEMMA NextNameIsOne ==
    ASSUME TransfersTyped, PassedAreTaken, NEW u \in Uploads, T!Looks(u),
           NEW w \in Uploads, ~T!Looks(w), id[w] = id[u]
    PROVE  id[u] + 1 \in T!Ids
<1> DEFINE n == id[u]
           owner == [c \in 0..(n + 1) |->
                        IF c = n + 1 THEN u ELSE CHOOSE v \in Uploads : ~T!Looks(v) /\ id[v] = c]
<1>1. Cardinality(Uploads) \in Nat /\ T!Cardinality(Uploads) = Cardinality(Uploads)
  BY UploadsAreFinite, FS_CardinalityType DEF T!Cardinality, Cardinality
<1>2. n \in Nat /\ n <= Cardinality(Uploads) - 1
  BY <1>1 DEF TransfersTyped, T!Ids
<1>3. ASSUME NEW c \in 0..n
      PROVE  owner[c] \in Uploads /\ ~T!Looks(owner[c]) /\ id[owner[c]] = c
  <2>1. \E v \in Uploads : ~T!Looks(v) /\ id[v] = c
    <3>1. CASE c = n
      BY <3>1
    <3>2. CASE c # n
      BY <3>2, <1>2 DEF PassedAreTaken
    <3> QED
      BY <3>1, <3>2
  <2>2. c \in 0..(n + 1) /\ c # n + 1
    BY <1>2
  <2> QED
    BY <2>1, <2>2
<1>4. owner[n + 1] = u
  BY <1>2
<1>c. \A c \in 0..(n + 1) : c = n + 1 \/ c \in 0..n
  BY <1>2
<1>5. owner \in [0..(n + 1) -> Uploads]
  <2>1. owner = [c \in 0..(n + 1) |-> owner[c]]
    OBVIOUS
  <2> HIDE DEF owner
  <2>2. \A c \in 0..(n + 1) : owner[c] \in Uploads
    BY <1>c, <1>3, <1>4
  <2> QED
    BY <2>1, <2>2
<1>6. \A c, e \in 0..(n + 1) : owner[c] = owner[e] => c = e
  <2> HIDE DEF owner
  <2> SUFFICES ASSUME NEW c \in 0..(n + 1), NEW e \in 0..(n + 1), owner[c] = owner[e]
               PROVE  c = e
    OBVIOUS
  <2>1. CASE c \in 0..n /\ e \in 0..n
    BY <2>1, <1>3
  <2>2. CASE c = n + 1 /\ e = n + 1
    BY <2>2
  <2>3. CASE c \in 0..n /\ e = n + 1
    BY <2>3, <1>3, <1>4
  <2>4. CASE c = n + 1 /\ e \in 0..n
    BY <2>4, <1>3, <1>4
  <2> HIDE DEF n
  <2> QED
    BY <2>1, <2>2, <2>3, <2>4, <1>c, Zenon
<1>7. IsFiniteSet(0..(n + 1)) /\ Cardinality(0..(n + 1)) = n + 2
  BY <1>2, FS_Interval
<1>8. ~(Cardinality(Uploads) < Cardinality(0..(n + 1)))
  <2> HIDE DEF owner
  <2> DEFINE D == 0..(n + 1)
  <2>1. IsFiniteSet(D) /\ owner \in [D -> Uploads] /\ \A c, e \in D : owner[c] = owner[e] => c = e
    BY <1>5, <1>6, <1>7
  <2> HIDE DEF D
  <2>2. ~(Cardinality(Uploads) < Cardinality(D))
    BY <2>1, UploadsAreFinite, FS_PigeonHole
  <2> QED
    BY <2>2 DEF D
<1> QED
  BY <1>1, <1>2, <1>7, <1>8 DEF T!Ids

\* The steps of one upload.
LEMMA UploadStepKeeps ==
    ASSUME TransfersInv, NEW u \in Uploads, T!UploadStep(u)
    PROVE  TransfersInv'
<1> USE DEF TransfersInv
<1> DEFINE i == id[u]
<1>0. i \in T!Ids
  BY DEF TransfersTyped
\* Its name and its file or directory show that the one it looks at is another's.
<1>a. ASSUME T!NextName(u), T!Looks(u), UNCHANGED <<tmp, dirs>>,
             NEW w \in tmp[i] \cup dirs[i]
      PROVE  TransfersInv'
  <2>1. w \in Uploads /\ ~T!Looks(w) /\ id[w] = i
    BY <1>0, <1>a DEF NamesAreOwn, TransfersTyped
  <2>2. i + 1 \in T!Ids
    BY <2>1, <1>a, NextNameIsOne
  <2>3. /\ id' = [id EXCEPT ![u] = i + 1] /\ upload' = [upload EXCEPT ![u] = "start"]
        /\ UNCHANGED <<tmp, dirs, alone>>
    BY <1>a DEF T!NextName, T!GoTo
  <2>4. TransfersTyped'
    BY <2>2, <2>3 DEF TransfersTyped
  <2>5. \A v \in Uploads : v # u => id'[v] = id[v] /\ upload'[v] = upload[v]
    BY <2>3 DEF TransfersTyped
  <2>6. upload'[u] = "start" /\ id'[u] = i + 1
    BY <2>3 DEF TransfersTyped
  <2>7. NamesAreOwn'
    BY <1>a, <2>3, <2>5 DEF NamesAreOwn, TransfersTyped, T!Looks
  <2>8. PassedAreTaken'
    <3> SUFFICES ASSUME NEW v \in Uploads, NEW c \in 0..(id'[v] - 1)
                 PROVE  \E x \in Uploads : ~T!Looks(x)' /\ id'[x] = c
      BY DEF PassedAreTaken
    <3>1. \E x \in Uploads : ~T!Looks(x) /\ id[x] = c
      <4>1. CASE v # u
        BY <4>1, <2>5 DEF PassedAreTaken
      <4>2. CASE v = u /\ c = i
        BY <4>2, <2>1
      <4>3. CASE v = u /\ c # i
        <5>1. i \in Nat /\ c \in 0..(i - 1)
          BY <4>3, <2>6, <1>0 DEF T!Ids
        <5> QED
          BY <5>1 DEF PassedAreTaken
      <4> QED
        BY <4>1, <4>2, <4>3
    <3> QED
      BY <3>1, <2>5, <1>a DEF T!Looks
  <2>9. AloneHasItsName' /\ AloneIsWhole'
    BY <1>a, <2>3, <2>5, <2>6 DEF AloneHasItsName, AloneIsWhole, T!UnderWay, T!Looks
  <2> QED
    BY <2>4, <2>7, <2>8, <2>9
\* Others see no other name than before.
<1>b. ASSUME UNCHANGED id, \A v \in Uploads : ~T!Looks(v) => ~T!Looks(v)'
      PROVE  PassedAreTaken'
  BY <1>b DEF PassedAreTaken
<1>1. CASE T!LookForDirectory(u)
  <2>1. CASE dirs[i] # {}
    <3>1. PICK w \in dirs[i] : TRUE
      BY <2>1
    <3>2. T!NextName(u) /\ T!Looks(u) /\ UNCHANGED <<tmp, dirs>>
      BY <1>1, <2>1 DEF T!LookForDirectory, T!Looks
    <3> QED
      BY <3>1, <3>2, <1>a
  <2>2. CASE dirs[i] = {}
    <3>1. /\ upload[u] = "start" /\ upload' = [upload EXCEPT ![u] = "between"]
          /\ UNCHANGED <<id, tmp, dirs, alone>>
      BY <1>1, <2>2 DEF T!LookForDirectory, T!GoTo
    <3>2. TransfersTyped' /\ NamesAreOwn' /\ AloneHasItsName'
      BY <3>1 DEF TransfersTyped, NamesAreOwn, AloneHasItsName, T!UnderWay, T!Looks
    <3>3. PassedAreTaken'
      BY <3>1, <1>b DEF TransfersTyped, T!Looks
    <3>4. AloneIsWhole'
      BY <3>1 DEF AloneIsWhole, TransfersTyped
    <3> QED
      BY <3>2, <3>3, <3>4
  <2> QED
    BY <2>1, <2>2
<1>2. CASE T!LookForFile(u)
  <2>1. CASE tmp[i] # {}
    <3>1. PICK w \in tmp[i] : TRUE
      BY <2>1
    <3>2. T!NextName(u) /\ T!Looks(u) /\ UNCHANGED <<tmp, dirs>>
      BY <1>2, <2>1 DEF T!LookForFile, T!Looks
    <3> QED
      BY <3>1, <3>2, <1>a
  <2>2. CASE tmp[i] = {}
    <3>1. /\ upload[u] = "between" /\ upload' = [upload EXCEPT ![u] = "chosen"]
          /\ UNCHANGED <<id, tmp, dirs>>
          /\ alone' = IF T!Meets(i) = {} THEN alone ELSE alone \ (T!Meets(i) \cup {u})
      BY <1>2, <2>2 DEF T!LookForFile, T!Take, T!GoTo
    \* Whoever is under way under a name with no file is met: it is about to create
    \* the file or to remove the directory, or is not alone.
    <3>2. \A v \in Uploads : T!UnderWay(v) /\ id[v] = i => v \in T!Meets(i)
      BY <2>2 DEF T!Meets, T!UnderWay, T!Looks, AloneIsWhole, TransfersTyped
    \* So is whoever was accepted alone under it.
    <3>3. \A v \in alone : upload[v] = "ok" /\ id[v] = i => v \in T!Meets(i)
      BY DEF T!Meets, T!Looks, AloneIsWhole, TransfersTyped
    <3>4. T!Meets(i) = {} => dirs[i] = {}
      BY <1>0 DEF T!Meets, NamesAreOwn, TransfersTyped
    <3>5. u \notin T!Meets(i) /\ T!Meets(i) \subseteq Uploads
      BY <3>1 DEF T!Meets, T!Looks
    <3>6. TransfersTyped'
      BY <3>1 DEF TransfersTyped
    <3>7. NamesAreOwn'
      BY <3>1 DEF NamesAreOwn, TransfersTyped, T!Looks
    <3>8. PassedAreTaken'
      BY <3>1, <1>b DEF TransfersTyped, T!Looks
    <3>9. alone' \subseteq alone /\ (u \in alone' => T!Meets(i) = {})
      BY <3>1
    <3>10. ASSUME NEW v \in alone', T!UnderWay(v)' \/ upload'[v] = "ok",
                  NEW w \in Uploads \ {v}, T!UnderWay(w)'
           PROVE  id'[w] # id'[v]
      <4>1. CASE v = u
        BY <4>1, <3>1, <3>2, <3>9, <3>10 DEF T!UnderWay, T!Looks, TransfersTyped
      <4>2. CASE v # u /\ w = u
        <5>1. v \notin T!Meets(i)
          BY <3>1, <3>10
        <5>2. T!UnderWay(v) \/ upload[v] = "ok"
          BY <4>2, <3>1, <3>10 DEF T!UnderWay, T!Looks, TransfersTyped
        <5> QED
          BY <4>2, <5>1, <5>2, <3>1, <3>2, <3>3, <3>9 DEF TransfersTyped
      <4>3. CASE v # u /\ w # u
        BY <4>3, <3>1, <3>9, <3>10 DEF AloneHasItsName, T!UnderWay, T!Looks, TransfersTyped
      <4> QED
        BY <4>1, <4>2, <4>3
    <3>11. AloneHasItsName'
      BY <3>10 DEF AloneHasItsName
    <3>12. AloneIsWhole'
      BY <2>2, <3>1, <3>4, <3>9 DEF AloneIsWhole, TransfersTyped
    <3> QED
      BY <3>6, <3>7, <3>8, <3>11, <3>12
  <2> QED
    BY <2>1, <2>2
<1>3. CASE T!CreateTmp(u)
  <2>1. /\ upload[u] = "chosen" /\ upload' = [upload EXCEPT ![u] = "streams"]
        /\ tmp' = [tmp EXCEPT ![i] = {u} \cup {w \in @ : upload[w] = "streams"}]
        /\ UNCHANGED <<id, dirs, alone>>
    BY <1>3 DEF T!CreateTmp, T!GoTo
  <2>2. TransfersTyped' /\ PassedAreTaken'
    BY <2>1, <1>0, <1>b DEF TransfersTyped, T!Looks
  <2>3. NamesAreOwn'
    BY <2>1, <1>0 DEF NamesAreOwn, TransfersTyped, T!Looks
  <2>4. AloneHasItsName'
    BY <2>1 DEF AloneHasItsName, TransfersTyped, T!UnderWay, T!Looks
  <2>5. AloneIsWhole'
    BY <2>1, <1>0 DEF AloneIsWhole, AloneHasItsName, NamesAreOwn, TransfersTyped, T!UnderWay,
                      T!Looks
  <2> QED
    BY <2>2, <2>3, <2>4, <2>5
<1>4. CASE T!CreateFails(u)
  <2>1. /\ upload[u] = "chosen" /\ upload' = [upload EXCEPT ![u] = "error"]
        /\ UNCHANGED <<id, tmp, dirs, alone>>
    BY <1>4 DEF T!CreateFails, T!GoTo
  <2>2. PassedAreTaken'
    BY <2>1, <1>b DEF TransfersTyped, T!Looks
  <2> QED
    BY <2>1, <2>2, <1>0 DEF TransfersTyped, NamesAreOwn, AloneHasItsName, AloneIsWhole,
                            T!UnderWay, T!Looks
<1>5. CASE T!Streamed(u)
  <2>1. /\ upload[u] = "streams" /\ upload' = [upload EXCEPT ![u] = "streamed"]
        /\ UNCHANGED <<id, tmp, dirs, alone>>
    BY <1>5 DEF T!Streamed, T!GoTo
  <2>2. PassedAreTaken'
    BY <2>1, <1>b DEF TransfersTyped, T!Looks
  <2> QED
    BY <2>1, <2>2 DEF TransfersTyped, NamesAreOwn, AloneHasItsName, AloneIsWhole, T!UnderWay,
                      T!Looks
<1>6. CASE T!StreamFails(u)
  <2>1. /\ upload[u] = "streams" /\ upload' = [upload EXCEPT ![u] = "error"]
        /\ tmp' = [tmp EXCEPT ![i] = {}]
        /\ UNCHANGED <<id, dirs, alone>>
    BY <1>6 DEF T!StreamFails, T!GoTo
  <2>2. TransfersTyped' /\ NamesAreOwn' /\ AloneHasItsName'
    BY <2>1, <1>0 DEF TransfersTyped, NamesAreOwn, AloneHasItsName, T!UnderWay, T!Looks
  <2>3. AloneIsWhole'
    BY <2>1, <1>0 DEF AloneIsWhole, AloneHasItsName, NamesAreOwn, TransfersTyped, T!UnderWay,
                      T!Looks
  <2>4. PassedAreTaken'
    BY <2>1, <1>b DEF TransfersTyped, T!Looks
  <2> QED
    BY <2>2, <2>3, <2>4
<1>7. CASE T!Extract(u)
  <2>1. /\ upload[u] = "streamed" /\ tmp[i] # {}
        /\ dirs' = [dirs EXCEPT ![i] = @ \cup tmp[i]]
        /\ \E place \in {"extracts", "spoilt"} :
              /\ upload' = [upload EXCEPT ![u] = place]
              /\ tmp[i] = {u} => place = "extracts"
        /\ UNCHANGED <<id, tmp, alone>>
    BY <1>7 DEF T!Extract, T!GoTo
  <2>2. PICK place \in {"extracts", "spoilt"} :
            /\ upload' = [upload EXCEPT ![u] = place]
            /\ tmp[i] = {u} => place = "extracts"
    BY <2>1
  <2>3. TransfersTyped' /\ NamesAreOwn' /\ AloneHasItsName'
    BY <2>1, <2>2, <1>0 DEF TransfersTyped, NamesAreOwn, AloneHasItsName, T!UnderWay, T!Looks
  <2>4. AloneIsWhole'
    BY <2>1, <2>2, <1>0 DEF AloneIsWhole, AloneHasItsName, NamesAreOwn, TransfersTyped,
                            T!UnderWay, T!Looks
  <2>5. PassedAreTaken'
    BY <2>1, <2>2, <1>b DEF TransfersTyped, T!Looks
  <2> QED
    BY <2>3, <2>4, <2>5
<1>8. CASE T!Rejected(u)
  <2>1. /\ upload[u] \in {"streamed", "extracts", "spoilt"}
        /\ upload[u] = "streamed" => tmp[i] = {}
        /\ upload' = [upload EXCEPT ![u] = "cleans"]
        /\ tmp' = [tmp EXCEPT ![i] = {}] /\ UNCHANGED <<id, dirs, alone>>
    BY <1>8 DEF T!Rejected, T!GoTo
  <2>2. TransfersTyped' /\ NamesAreOwn' /\ AloneHasItsName'
    BY <2>1, <1>0 DEF TransfersTyped, NamesAreOwn, AloneHasItsName, T!UnderWay, T!Looks
  <2>3. AloneIsWhole'
    BY <2>1, <1>0 DEF AloneIsWhole, AloneHasItsName, NamesAreOwn, TransfersTyped, T!UnderWay,
                      T!Looks
  <2>4. PassedAreTaken'
    BY <2>1, <1>b DEF TransfersTyped, T!Looks
  <2> QED
    BY <2>2, <2>3, <2>4
<1>9. CASE T!Cleaned(u)
  <2>1. /\ upload[u] = "cleans" /\ upload' = [upload EXCEPT ![u] = "error"]
        /\ dirs' = [dirs EXCEPT ![i] = {}] /\ UNCHANGED <<id, tmp, alone>>
    BY <1>9 DEF T!Cleaned, T!GoTo
  <2>2. TransfersTyped' /\ NamesAreOwn' /\ AloneHasItsName'
    BY <2>1, <1>0 DEF TransfersTyped, NamesAreOwn, AloneHasItsName, T!UnderWay, T!Looks
  <2>3. AloneIsWhole'
    BY <2>1, <1>0 DEF AloneIsWhole, AloneHasItsName, NamesAreOwn, TransfersTyped, T!UnderWay,
                      T!Looks
  <2>4. PassedAreTaken'
    BY <2>1, <1>b DEF TransfersTyped, T!Looks
  <2> QED
    BY <2>2, <2>3, <2>4
<1>10. CASE T!Received(u)
  <2>1. /\ upload[u] = "extracts" /\ upload' = [upload EXCEPT ![u] = "ok"]
        /\ tmp' = [tmp EXCEPT ![i] = {}]
        /\ UNCHANGED <<id, dirs, alone>>
    BY <1>10 DEF T!Received, T!GoTo
  <2>2. TransfersTyped' /\ NamesAreOwn' /\ AloneHasItsName'
    BY <2>1, <1>0 DEF TransfersTyped, NamesAreOwn, AloneHasItsName, T!UnderWay, T!Looks
  <2>3. AloneIsWhole'
    BY <2>1, <1>0 DEF AloneIsWhole, AloneHasItsName, NamesAreOwn, TransfersTyped, T!UnderWay,
                      T!Looks
  <2>4. PassedAreTaken'
    BY <2>1, <1>b DEF TransfersTyped, T!Looks
  <2> QED
    BY <2>2, <2>3, <2>4
<1> QED
  BY <1>1, <1>3, <1>4, <1>5, <1>6, <1>7, <1>8, <1>9, <1>2, <1>10 DEF T!UploadStep

\* The agent reads: it leaves the uploads, their names and their files alone.
LEMMA TransfersStepKeeps == TransfersInv /\ [T!Next]_tVars => TransfersInv'
<1> SUFFICES ASSUME TransfersInv, [T!Next]_tVars PROVE TransfersInv'
  OBVIOUS
<1>1. ASSUME UNCHANGED <<upload, id, tmp, dirs, alone>> PROVE TransfersInv'
  BY <1>1 DEF TransfersInv, TransfersTyped, NamesAreOwn, PassedAreTaken, AloneHasItsName,
              AloneIsWhole, T!UnderWay, T!Looks
<1>2. CASE \E u \in Uploads : T!UploadStep(u)
  BY <1>2, UploadStepKeeps
<1>3. CASE T!AgentStarts \/ T!AgentStep
  BY <1>1, <1>3 DEF T!AgentStarts, T!AgentStep, T!Final, T!ModelFails, T!Command, T!Nudge
<1>4. CASE UNCHANGED tVars
  BY <1>1, <1>4 DEF tVars
<1> QED
  BY <1>2, <1>3, <1>4 DEF T!Next

\* Nothing lies there in the beginning.
LEMMA TransfersInit == T!Init => TransfersInv
<1> SUFFICES ASSUME T!Init PROVE TransfersInv
  OBVIOUS
<1>1. ASSUME NEW u \in Uploads
      PROVE  0 \in T!Ids
  <2>1. Cardinality(Uploads) \in Nat /\ T!Cardinality(Uploads) = Cardinality(Uploads)
    BY UploadsAreFinite, FS_CardinalityType DEF T!Cardinality, Cardinality
  <2>2. Cardinality(Uploads) # 0
    BY UploadsAreFinite, FS_EmptySet
  <2> QED
    BY <2>1, <2>2 DEF T!Ids
<1>2. id \in [Uploads -> T!Ids]
  BY <1>1 DEF T!Init
<1>3. TransfersTyped
  BY <1>2 DEF T!Init, TransfersTyped
<1>4. PassedAreTaken
  BY DEF T!Init, PassedAreTaken
<1> QED
  BY <1>3, <1>4 DEF T!Init, TransfersInv, NamesAreOwn, AloneHasItsName, AloneIsWhole,
                    T!UnderWay, T!Looks

\* An upload that is alone and accepted lies there, itself and nothing else.
LEMMA TransfersAreWhole == TransfersInv => T!UploadIsWhole
  BY DEF TransfersInv, TransfersTyped, NamesAreOwn, AloneIsWhole, T!UploadIsWhole

-----------------------------------------------------------------------------
(* Certificates.                                                           *)

\* The types of the files and of the calls.
CertsTyped ==
    /\ DOMAIN file = C!Files /\ version \in BOOLEAN
    /\ call \in [Programs -> C!Places] /\ lone \subseteq Programs

\* A call that met no other has the directory to itself.
LoneIsAlone ==
    \A p \in lone : C!InCall(p) => \A q \in Programs \ {p} : ~C!InCall(q)

\* It writes the version when it has loaded the pair; after that a call only looks.
LonePairFits ==
    \A p \in lone :
        /\ call[p] = "version" => C!Loads
        /\ call[p] = "ok" =>
            version /\ C!Loads /\ \A q \in Programs : C!InCall(q) => call[q] = "check"

\* The inductive invariant of the certificates.
CertsInv == CertsTyped /\ LoneIsAlone /\ LonePairFits

\* One step of a call.
LEMMA CallStepKeeps ==
    ASSUME CertsInv, NEW p \in Programs,
           \/ C!Check(p) \/ C!Authority(p) \/ C!AuthorityKey(p) \/ C!Generate(p)
           \/ C!WriteKey(p) \/ C!RenameCert(p) \/ C!RenameKey(p) \/ C!Validate(p)
           \/ C!WriteVersion(p) \/ C!Crash(p)
    PROVE  CertsInv'
<1> USE DEF CertsInv, CertsTyped, LoneIsAlone, LonePairFits, C!InCall, C!Loads, C!GoTo,
            C!Places
<1>1. CASE C!Check(p)
  BY <1>1 DEF C!Check
<1>2. CASE C!Authority(p)
  <2>1. \E place \in C!Places \ {"version", "ok", "check"} :
            call' = [call EXCEPT ![p] = place]
    BY <1>2 DEF C!Authority
  <2>2. call[p] = "authority" /\ DOMAIN file' = C!Files /\ UNCHANGED <<version, lone>>
    BY <1>2 DEF C!Authority, C!Write
  <2> QED
    BY <2>1, <2>2
<1>3. CASE C!AuthorityKey(p)
  BY <1>3 DEF C!AuthorityKey, C!Write
<1>4. CASE C!Generate(p)
  BY <1>4 DEF C!Generate, C!Write
<1>5. CASE C!WriteKey(p)
  BY <1>5 DEF C!WriteKey, C!Write
<1>6. CASE C!RenameCert(p)
  BY <1>6 DEF C!RenameCert, C!Rename
<1>7. CASE C!RenameKey(p)
  BY <1>7 DEF C!RenameKey, C!Rename
<1>8. CASE C!Validate(p)
  BY <1>8 DEF C!Validate
<1>9. CASE C!WriteVersion(p)
  BY <1>9 DEF C!WriteVersion
<1>10. CASE C!Crash(p)
  BY <1>10 DEF C!Crash
<1> QED
  BY <1>1, <1>2, <1>3, <1>4, <1>5, <1>6, <1>7, <1>8, <1>9, <1>10

\* One step for each action of the calls.
LEMMA CertsStepKeeps == CertsInv /\ [C!Next]_cVars => CertsInv'
<1> SUFFICES ASSUME CertsInv, [C!Next]_cVars PROVE CertsInv'
  OBVIOUS
<1> USE DEF CertsInv, CertsTyped, LoneIsAlone, LonePairFits, C!InCall, C!Loads
<1>1. ASSUME NEW p \in Programs, C!Call(p) PROVE CertsInv'
  <2> DEFINE others == {q \in Programs \ {p} : C!InCall(q)}
  <2>1. /\ ~C!InCall(p) /\ call' = [call EXCEPT ![p] = "check"]
        /\ lone' = IF others = {} THEN lone \cup {p} ELSE lone \ (others \cup {p})
        /\ UNCHANGED <<file, version>>
    BY <1>1 DEF C!Call, C!GoTo
  <2> QED
    BY <2>1 DEF C!Places
<1>2. ASSUME NEW p \in Programs,
             \/ C!Check(p) \/ C!Authority(p) \/ C!AuthorityKey(p) \/ C!Generate(p)
             \/ C!WriteKey(p) \/ C!RenameCert(p) \/ C!RenameKey(p) \/ C!Validate(p)
             \/ C!WriteVersion(p) \/ C!Crash(p)
      PROVE CertsInv'
  BY <1>2, CallStepKeeps
<1>3. CASE C!Damage
  <2>1. /\ call' = [p \in Programs |-> "idle"] /\ UNCHANGED lone
        /\ DOMAIN file' = C!Files /\ version' \in BOOLEAN
    BY <1>3 DEF C!Damage, C!Write
  <2> QED
    BY <2>1 DEF C!Places
<1>4. CASE UNCHANGED cVars
  BY <1>4 DEF cVars
<1> QED
  BY <1>1, <1>2, <1>3, <1>4 DEF C!Next

\* No program has called yet.
LEMMA CertsInit == C!Init => CertsInv
  BY DEF C!Init, CertsInv, CertsTyped, LoneIsAlone, LonePairFits, C!InCall, C!Places

\* What a call that was alone returned was loaded, and nobody has written since.
LEMMA PairsFit == CertsInv => C!PairIsWhole
  BY DEF CertsInv, CertsTyped, LonePairFits, C!PairIsWhole

-----------------------------------------------------------------------------
(* The three side by side.                                                 *)

\* A transfer that is reported as received holds the files of its upload and nothing
\* else, one that is rejected leaves nothing, as long as it met no other under its
\* name; and the certificate and the key ensure_tls_certs returns belong together, as
\* long as its call met no other.  (serve_transfer.rs:113, tls.rs:150)
THEOREM HeadlessFilesAreWhole == HeadlessSpec => []FilesAreWhole
<1> DEFINE FInv == TransfersInv /\ CertsInv
<1>1. HeadlessInit => FInv
  BY TransfersInit, CertsInit DEF HeadlessInit
<1>2. FInv /\ [HeadlessNext]_allVars => FInv'
  <2> SUFFICES ASSUME FInv, [HeadlessNext]_allVars PROVE FInv'
    OBVIOUS
  <2>1. [T!Next]_tVars /\ [C!Next]_cVars
    BY DEF HeadlessNext, ServeStep, TransfersStep, CertsStep, allVars
  <2> QED
    BY <2>1, TransfersStepKeeps, CertsStepKeeps
<1>3. FInv => FilesAreWhole
  BY TransfersAreWhole, PairsFit DEF FilesAreWhole
<1> QED
  BY <1>1, <1>2, <1>3, PTL DEF HeadlessSpec

-----------------------------------------------------------------------------
(* The agent.                                                              *)

\* The types of the run of the agent.
AgentTyped ==
    agent \in [at : {"idle", "asks", "answered", "failed"}, of : T!Ids \cup {T!None},
               round : Nat, injected : Nat]

\* A run that goes on has a round left, and the outputs it was given are within the
\* budget.
AgentIsWithin == agent.at = "asks" => agent.round < MaxRounds /\ agent.injected <= Budget

\* What a run that goes on has done is one more message in one more round, and
\* nothing that was counted is given back.
RoundsAreCounted ==
    agent.at = "asks" /\ agent'.at = "asks" /\ <<agent, messages>>' # <<agent, messages>> =>
        agent'.round = agent.round + 1 /\ agent'.injected >= agent.injected

\* Another question, or the end of the run.
LEMMA NextRoundCounts ==
    ASSUME AgentTyped, AgentIsWithin, agent.at = "asks", NEW output \in {0, 1},
           agent.injected + output <= Budget, T!NextRound(output)
    PROVE  AgentTyped' /\ AgentIsWithin' /\ RoundsAreCounted
<1>1. agent.round \in Nat /\ agent.injected \in Nat /\ agent.round < MaxRounds
  BY DEF AgentTyped, AgentIsWithin
<1>2. CASE agent.round + 1 = MaxRounds
  BY <1>2 DEF T!NextRound, T!Ends, T!Idle, AgentTyped, AgentIsWithin, RoundsAreCounted
<1>3. CASE agent.round + 1 # MaxRounds
  <2>1. agent' = [agent EXCEPT !.round = @ + 1, !.injected = @ + output]
    BY <1>3 DEF T!NextRound
  <2>2. agent'.round = agent.round + 1 /\ agent'.injected = agent.injected + output
    BY <2>1 DEF AgentTyped
  <2>3. agent'.round < MaxRounds
    BY <1>1, <1>3, <2>2, AgentAssumption
  <2>4. AgentTyped'
    <3>1. agent' = [at |-> agent.at, of |-> agent.of, round |-> agent.round + 1,
                    injected |-> agent.injected + output]
      BY <2>1 DEF AgentTyped
    <3>2. agent.round + 1 \in Nat /\ agent.injected + output \in Nat
      BY <1>1
    <3> QED
      BY <3>1, <3>2 DEF AgentTyped
  <2> QED
    BY <1>1, <2>2, <2>3, <2>4 DEF AgentIsWithin, RoundsAreCounted
<1> QED
  BY <1>2, <1>3

\* Every step of the transfers, of which only the agent's touch its run.
LEMMA AgentKeeps ==
    ASSUME AgentTyped, AgentIsWithin, [T!Next]_tVars
    PROVE  AgentTyped' /\ AgentIsWithin' /\ RoundsAreCounted
<1>1. ASSUME UNCHANGED <<agent, messages>> PROVE AgentTyped' /\ AgentIsWithin' /\ RoundsAreCounted
  BY <1>1 DEF AgentTyped, AgentIsWithin, RoundsAreCounted
<1>2. ASSUME NEW reply \in {"answered", "failed"}, T!Ends(reply)
      PROVE  AgentTyped' /\ AgentIsWithin' /\ RoundsAreCounted
  BY <1>2 DEF T!Ends, T!Idle, AgentTyped, AgentIsWithin, RoundsAreCounted
<1>3. CASE \E u \in Uploads : T!UploadStep(u)
  BY <1>1, <1>3
     DEF T!UploadStep, T!LookForDirectory, T!LookForFile, T!CreateTmp, T!CreateFails, T!Streamed,
         T!StreamFails, T!Extract, T!Rejected, T!Cleaned, T!Received
<1>4. CASE T!AgentStarts
  BY <1>4, AgentAssumption DEF T!AgentStarts, AgentTyped, AgentIsWithin, RoundsAreCounted
<1>5. CASE T!Final \/ T!ModelFails
  BY <1>2, <1>5 DEF T!Final, T!ModelFails
<1>6. CASE T!Command
  <2>1. PICK output \in {0, 1} :
            IF agent.injected + output > Budget THEN T!Ends("failed") ELSE T!NextRound(output)
    BY <1>6 DEF T!Command
  <2>2. CASE agent.injected + output > Budget
    BY <1>2, <2>1, <2>2
  <2>3. CASE ~(agent.injected + output > Budget)
    <3>1. agent.injected + output <= Budget
      BY <2>3, AgentAssumption DEF AgentTyped
    <3> QED
      BY <1>6, <2>1, <2>3, <3>1, NextRoundCounts DEF T!Command
  <2> QED
    BY <2>2, <2>3
<1>7. CASE T!Nudge
  <2>1. agent.injected + 0 <= Budget
    BY <1>7 DEF T!Nudge, AgentTyped, AgentIsWithin
  <2> QED
    BY <1>7, <2>1, NextRoundCounts DEF T!Nudge
<1>8. CASE UNCHANGED tVars
  BY <1>1, <1>8 DEF tVars
<1> QED
  BY <1>3, <1>4, <1>5, <1>6, <1>7, <1>8 DEF T!Next, T!AgentStep

\* A run of the agent asks at most max_rounds questions, whatever the model replies,
\* commands, reminders and errors counted alike, and gives it no more than its budget:
\* all that AgentEnds leaves to the fairness is that a question is answered or fails.
\* (serve_agent.rs:211, 268)
THEOREM AgentIsBounded == HeadlessSpec => []AgentIsWithin /\ [][RoundsAreCounted]_allVars
<1> DEFINE AInv == AgentTyped /\ AgentIsWithin
<1>1. HeadlessInit => AInv
  BY DEF HeadlessInit, T!Init, T!Idle, AgentTyped, AgentIsWithin
<1>2. AInv /\ [HeadlessNext]_allVars => AInv' /\ RoundsAreCounted
  <2> SUFFICES ASSUME AInv, [HeadlessNext]_allVars PROVE AInv' /\ RoundsAreCounted
    OBVIOUS
  <2>1. [T!Next]_tVars
    BY DEF HeadlessNext, ServeStep, TransfersStep, CertsStep, allVars
  <2> QED
    BY <2>1, AgentKeeps
<1> QED
  BY <1>1, <1>2, PTL DEF HeadlessSpec
=============================================================================
